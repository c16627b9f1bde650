------------------------ MODULE MalwareScannerProofs ------------------------
(***************************************************************************)
(* Proofs about MalwareScanner, for any requests, documents, verified      *)
(* configurations and numbers of deliveries, and any faults.  HandlerAt    *)
(* says what a handler knows before each of its calls, FilesInv where a    *)
(* document and its copies are, AnswersInv what an answer says of it.  What*)
(* is known of a document is never lost by steps of others when names are  *)
(* used once (AtStays).                                                    *)
(***************************************************************************)
EXTENDS MalwareScanner, WellFoundedInduction, FiniteSetTheorems, TLAPS

(* A set of positive numbers has a least one: the shortest of the intervals*)
(* that end in it.                                                         *)
LEMMA FirstIndex ==
    ASSUME NEW S \in SUBSET (Nat \ {0}), S # {}
    PROVE  \E x \in S : \A y \in S : x <= y
<1> DEFINE T == {1..x : x \in S}
<1>1. T \subseteq FiniteSubsetsOf(Nat) /\ T # {}
    <2>1. \A x \in S : 1..x \subseteq Nat /\ IsFiniteSet(1..x)
        BY FS_Interval
    <2>2. QED
        BY <2>1 DEF FiniteSubsetsOf
<1>2. IsWellFoundedOn(StrictSubsetOrdering(Nat), FiniteSubsetsOf(Nat))
    BY FS_StrictSubsetOrderingWellFounded
<1> HIDE DEF T
<1>3. PICK t \in T : \A u \in T : <<u, t>> \notin StrictSubsetOrdering(Nat)
    BY <1>1, <1>2, WFMin
<1>4. PICK x \in S : t = 1..x
    BY <1>3 DEF T
<1>5. ASSUME NEW y \in S, y < x PROVE FALSE
    <2>1. 1..y \in T /\ 1..y \subseteq Nat /\ 1..x \subseteq Nat
        BY DEF T
    <2>2. 1..y \subseteq 1..x /\ 1..y # 1..x
        BY <1>5
    <2>3. <<1..y, t>> \in StrictSubsetOrdering(Nat)
        BY <1>4, <2>1, <2>2 DEF StrictSubsetOrdering
    <2>4. QED
        BY <1>3, <2>1, <2>3
<1>6. QED
    BY <1>5

(* The entry that is found for a bucket is one of those that match.        *)
LEMMA EntryFound ==
    ASSUME ScannerAssumption, NEW b, Matches(Buckets, b) # {}
    PROVE  \E x \in Matches(Buckets, b) : ConfigOf(Buckets, b) = Buckets[x]
<1>1. Matches(Buckets, b) \in SUBSET (Nat \ {0})
    BY DEF ScannerAssumption, Matches
<1>2. \E x \in Matches(Buckets, b) : \A y \in Matches(Buckets, b) : x <= y
    BY <1>1, FirstIndex
<1>3. QED
    BY <1>2 DEF ConfigOf

(* What can be asked to be scanned.                                        *)
Scanned(r) == Scannable(BodyOf[r], Buckets)

(* The places of a request are places; the two destinations differ.        *)
LEMMA PlacesKnown ==
    ASSUME ScannerAssumption, NEW r \in Request, Matches(Buckets, BodyOf[r].bucket) # {},
           BodyOf[r].name \in Name, BodyOf[r].bucket \in Bucket
    PROVE  /\ SourceOf(r) \in Place
           /\ Destination(r, "clean") \in Place /\ Destination(r, "infected") \in Place
           /\ Destination(r, "clean") # Destination(r, "infected")
           /\ OneWay => \A s \in Request, v \in Verdicts :
                Matches(Buckets, BodyOf[s].bucket) # {} => SourceOf(s) # Destination(r, v)
<1>1. PICK x \in Matches(Buckets, BodyOf[r].bucket) :
        ConfigOf(Buckets, BodyOf[r].bucket) = Buckets[x]
    BY EntryFound
<1>2. /\ x \in DOMAIN Buckets
      /\ Buckets[x].clean \in Bucket /\ Buckets[x].quarantined \in Bucket
      /\ Buckets[x].clean # Buckets[x].quarantined
    BY <1>1 DEF ScannerAssumption, Matches, BucketType, NamesUnique, Entry
<1>3. /\ Destination(r, "clean") = <<Buckets[x].clean, BodyOf[r].name>>
      /\ \A v \in Verdicts : v # "clean" =>
            Destination(r, v) = <<Buckets[x].quarantined, BodyOf[r].name>>
    BY <1>1 DEF Destination
<1>4. OneWay => \A s \in Request :
        Matches(Buckets, BodyOf[s].bucket) # {} =>
            BodyOf[s].bucket \notin {Buckets[x].clean, Buckets[x].quarantined}
    BY <1>2 DEF OneWay, Matches
<1>5. /\ SourceOf(r) \in Place
      /\ Destination(r, "clean") = <<Buckets[x].clean, BodyOf[r].name>>
      /\ Destination(r, "infected") = <<Buckets[x].quarantined, BodyOf[r].name>>
    BY <1>3 DEF SourceOf, Place, Verdicts
<1>6. /\ Destination(r, "clean") \in Place /\ Destination(r, "infected") \in Place
      /\ Destination(r, "clean") # Destination(r, "infected")
    BY <1>2, <1>5 DEF Place
<1>7. ASSUME OneWay, NEW s \in Request, NEW v \in Verdicts,
             Matches(Buckets, BodyOf[s].bucket) # {}
      PROVE  SourceOf(s) # Destination(r, v)
    <2>1. BodyOf[s].bucket # Buckets[x].clean /\ BodyOf[s].bucket # Buckets[x].quarantined
        BY <1>4, <1>7
    <2>2. SourceOf(s) # Destination(r, "clean") /\ SourceOf(s) # Destination(r, "infected")
        BY <1>5, <2>1 DEF SourceOf
    <2>3. v = "clean" \/ v = "infected"
        BY DEF Verdicts
    <2>4. QED
        BY <2>2, <2>3
<1>8. QED
    BY <1>5, <1>6, <1>7

(* Requests that get to the store, and uploads, have their places.         *)
Known(r) ==
    /\ r \in Request /\ Matches(Buckets, BodyOf[r].bucket) # {}
    /\ BodyOf[r].name \in Name /\ BodyOf[r].bucket \in Bucket

LEMMA UploadKnown ==
    ASSUME ScannerAssumption, NEW u \in Upload
    PROVE  Known(u)
BY DEF ScannerAssumption, Known

LEMMA ScannedKnown ==
    ASSUME ScannerAssumption, NEW r \in Request, Scanned(r)
    PROVE  Known(r)
BY DEF ScannerAssumption, Known, Scanned, Scannable, Body

LEMMA SameSource ==
    ASSUME NEW r, NEW s, SourceOf(r) = SourceOf(s), NEW v
    PROVE  Destination(r, v) = Destination(s, v)
BY DEF SourceOf, Destination

(* What a handler knows before each of its calls.                          *)
HandlerAt(d) ==
    /\ pc[d] = "idle" => answer[d] = "none" /\ metrics[d] = {} /\ scanned[d] = Nothing
    /\ pc[d] \in Calls => Known(d[1]) /\ answer[d] = "none"
    /\ pc[d] \in {"exists", "version", "scan"} => metrics[d] = {} /\ scanned[d] = Nothing
    /\ pc[d] \in {"copy", "delete"} =>
        scanned[d] \in Upload /\ metrics[d] \in {{"clean"}, {"infected"}}
    /\ d[1] \in Upload /\ pc[d] # "idle" => d[1] \in uploaded

HandlersAt == \A d \in Delivery : HandlerAt(d)

ControlInv == TypeOK /\ HandlersAt

LEMMA ControlInit ==
    ASSUME ScannerAssumption, Init
    PROVE  ControlInv
BY DEF ScannerAssumption, Init, ControlInv, TypeOK, HandlersAt, HandlerAt, Calls, Verdicts

(* An answer ends a handler, and keeps what it knows.                      *)
LEMMA AnswerControl ==
    ASSUME ScannerAssumption, ControlInv, NEW d \in Delivery, pc[d] # "crashed",
           d[1] \in Upload => d[1] \in uploaded, UNCHANGED <<uploaded, signatures, scanned>>,
           store' \in [Place -> Upload \cup {Nothing}],
           NEW what \in {"deleted", "dropped", "retry"} \cup Verdicts, Answer(d, what),
           \/ UNCHANGED metrics
           \/ Count(d, {"failed"})
    PROVE  ControlInv'
<1>1. TypeOK'
    <2>1. d[1] \in Request
        BY DEF Delivery
    <2>2. metrics' \in [Delivery -> SUBSET (Verdicts \cup {"failed"})]
        <3>1. CASE UNCHANGED metrics
            BY <3>1 DEF ControlInv, TypeOK
        <3>2. CASE Count(d, {"failed"})
            <4>1. metrics[d] \cup {"failed"} \in SUBSET (Verdicts \cup {"failed"})
                BY DEF ControlInv, TypeOK
            <4>2. QED
                BY <3>2, <4>1 DEF ControlInv, TypeOK, Count
        <3>3. QED
            BY <3>1, <3>2
    <2>3. acked' \subseteq Request
        BY <2>1 DEF ControlInv, TypeOK, Answer
    <2>4. pc' \in [Delivery -> {"idle", "done", "crashed"} \cup Calls]
        BY DEF ControlInv, TypeOK, Answer
    <2>5. answer' \in [Delivery -> {"none", "deleted", "dropped", "retry"} \cup Verdicts]
        BY DEF ControlInv, TypeOK, Answer
    <2>6. QED
        BY <2>2, <2>3, <2>4, <2>5 DEF ControlInv, TypeOK, Answer
<1>2. ASSUME NEW e \in Delivery PROVE HandlerAt(e)'
    <2>1. CASE e = d
        BY <2>1 DEF ControlInv, TypeOK, HandlersAt, HandlerAt, Answer, Calls
    <2>2. CASE e # d
        <3>1. pc'[e] = pc[e] /\ answer'[e] = answer[e] /\ metrics'[e] = metrics[e]
            BY <2>2 DEF ControlInv, TypeOK, Answer, Count
        <3>2. HandlerAt(e)
            BY DEF ControlInv, HandlersAt
        <3>3. QED
            BY <3>1, <3>2 DEF HandlerAt
    <2>3. QED
        BY <2>1, <2>2
<1>3. QED
    BY <1>1, <1>2 DEF ControlInv, HandlersAt

(* So does an error response.                                              *)
LEMMA ErrorControl ==
    ASSUME ScannerAssumption, ControlInv, NEW d \in Delivery, pc[d] # "crashed",
           d[1] \in Upload => d[1] \in uploaded, UNCHANGED <<uploaded, signatures, scanned>>,
           store' \in [Place -> Upload \cup {Nothing}],
           NEW what \in {"deleted", "dropped", "retry"} \cup Verdicts,
           handleErrorResponse(d, what)
    PROVE  ControlInv'
BY AnswerControl DEF handleErrorResponse

(* A handler that goes on to its next call keeps what it knows.            *)
LEMMA GotoControl ==
    ASSUME ScannerAssumption, ControlInv, NEW d \in Delivery, NEW call \in Calls \cup {"crashed"},
           Goto(d, call), d[1] \in Upload => d[1] \in uploaded, UNCHANGED <<uploaded, signatures>>,
           call # "crashed" => Known(d[1]) /\ pc[d] \in Calls \cup {"idle"},
           store' \in [Place -> Upload \cup {Nothing}],
           scanned' \in [Delivery -> Upload \cup {Nothing}],
           metrics' \in [Delivery -> SUBSET (Verdicts \cup {"failed"})],
           \A e \in Delivery : e # d => scanned'[e] = scanned[e] /\ metrics'[e] = metrics[e],
           call \in {"exists", "version", "scan"} => metrics'[d] = {} /\ scanned'[d] = Nothing,
           call \in {"copy", "delete"} =>
                scanned'[d] \in Upload /\ metrics'[d] \in {{"clean"}, {"infected"}}
    PROVE  ControlInv'
<1>1. TypeOK'
    BY DEF ControlInv, TypeOK, Goto, queue
<1>2. ASSUME NEW e \in Delivery PROVE HandlerAt(e)'
    <2>1. CASE e = d
        <3>1. pc'[e] = call /\ answer'[e] = answer[e]
            BY <2>1 DEF ControlInv, TypeOK, Goto
        <3>2. call # "crashed" => answer[e] = "none"
            BY <2>1 DEF ControlInv, HandlersAt, HandlerAt
        <3>3. QED
            BY <2>1, <3>1, <3>2 DEF HandlerAt, Calls
    <2>2. CASE e # d
        <3>1. pc'[e] = pc[e] /\ answer'[e] = answer[e]
            BY <2>2 DEF ControlInv, TypeOK, Goto
        <3>2. HandlerAt(e)
            BY DEF ControlInv, HandlersAt
        <3>3. QED
            BY <2>2, <3>1, <3>2 DEF HandlerAt
    <2>3. QED
        BY <2>1, <2>2
<1>3. QED
    BY <1>1, <1>2 DEF ControlInv, HandlersAt

LEMMA SourceStored ==
    ASSUME ScannerAssumption, TypeOK, NEW r, Known(r), store[SourceOf(r)] # Nothing
    PROVE  store[SourceOf(r)] \in Upload
BY PlacesKnown DEF Known, TypeOK

LEMMA WithVerdict ==
    ASSUME ControlInv, NEW d \in Delivery, pc[d] \in {"copy", "delete"}
    PROVE  /\ VerdictOf(d) \in Verdicts /\ metrics[d] = {VerdictOf(d)}
           /\ scanned[d] \in Upload
BY DEF ControlInv, HandlersAt, HandlerAt, VerdictOf, Verdicts

LEMMA ControlStep ==
    ASSUME ScannerAssumption, ControlInv, [Next]_vars
    PROVE  ControlInv'
<1> USE DEF world
<1>0. /\ store \in [Place -> Upload \cup {Nothing}] /\ scanned \in [Delivery -> Upload \cup {Nothing}]
      /\ metrics \in [Delivery -> SUBSET (Verdicts \cup {"failed"})]
    BY DEF ControlInv, TypeOK
<1>a. ASSUME NEW d \in Delivery, pc[d] \in Calls
      PROVE  /\ Known(d[1]) /\ (d[1] \in Upload => d[1] \in uploaded)
             /\ pc[d] # "crashed" /\ pc[d] # "idle" /\ HandlerAt(d)
             /\ SourceOf(d[1]) \in Place
    <2>1. HandlerAt(d) /\ pc[d] # "crashed" /\ pc[d] # "idle"
        BY <1>a DEF ControlInv, HandlersAt, Calls
    <2>2. Known(d[1])
        BY <1>a, <2>1 DEF HandlerAt
    <2>3. QED
        BY <2>1, <2>2, PlacesKnown DEF HandlerAt, Known
<1>1. ASSUME NEW d \in Delivery, Receive(d) PROVE ControlInv'
    <2>2. d[1] \in Upload => d[1] \in uploaded
        BY <1>1 DEF Receive, Due
    <2>3. pc[d] = "idle" /\ pc[d] # "crashed"
        BY <1>1 DEF Receive, Due
    <2>4. CASE Scannable(BodyOf[d[1]], Buckets) /\ Goto(d, "exists") /\ UNCHANGED metrics
        <3>1. Known(d[1])
            BY <2>4, ScannedKnown DEF Scanned, Delivery
        <3>2. metrics[d] = {} /\ scanned[d] = Nothing
            BY <2>3 DEF ControlInv, HandlersAt, HandlerAt
        <3>3. QED
            BY <1>0, <1>1, <2>2, <2>3, <2>4, <3>1, <3>2, GotoControl DEF Receive, Calls
    <2>5. CASE handleErrorResponse(d, "dropped")
        BY <1>0, <1>1, <2>2, <2>3, <2>5, ErrorControl DEF Receive
    <2>6. QED
        BY <1>1, <2>4, <2>5 DEF Receive
<1>2. ASSUME NEW d \in Delivery, CheckExists(d) PROVE ControlInv'
    <2>1. pc[d] = "exists" /\ pc[d] \in Calls
        BY <1>2 DEF CheckExists, Calls
    <2>2. CASE Answer(d, "deleted")
        BY <1>0, <1>2, <1>a, <2>1, <2>2, AnswerControl DEF CheckExists
    <2>3. CASE Goto(d, "version")
        <3>1. metrics[d] = {} /\ scanned[d] = Nothing
            BY <1>a, <2>1 DEF HandlerAt
        <3>2. QED
            BY <1>0, <1>2, <1>a, <2>1, <2>3, <3>1, GotoControl DEF CheckExists, Calls
    <2>4. QED
        BY <1>2, <2>2, <2>3 DEF CheckExists
<1>3. ASSUME NEW d \in Delivery, getClamVersion(d) PROVE ControlInv'
    <2>1. pc[d] = "version" /\ pc[d] \in Calls /\ Goto(d, "scan")
        BY <1>3 DEF getClamVersion, Calls
    <2>2. metrics[d] = {} /\ scanned[d] = Nothing
        BY <1>a, <2>1 DEF HandlerAt
    <2>3. QED
        BY <1>0, <1>3, <1>a, <2>1, <2>2, GotoControl DEF getClamVersion, Calls
<1>4. ASSUME NEW d \in Delivery, ScanStream(d) PROVE ControlInv'
    <2>1. pc[d] = "scan" /\ pc[d] \in Calls /\ Goto(d, "copy")
        BY <1>4 DEF ScanStream, Calls
    <2>2. Known(d[1]) /\ metrics[d] = {}
        BY <1>a, <2>1 DEF HandlerAt
    <2>3. store[SourceOf(d[1])] \in Upload
        BY <1>4, <2>2, SourceStored DEF ScanStream, Absent, ControlInv
    <2>4. PICK v \in Verdicts : metrics' = [metrics EXCEPT ![d] = @ \cup {v}]
        BY <1>4 DEF ScanStream, Count, Verdicts
    <2>5. metrics' = [metrics EXCEPT ![d] = {v}]
        BY <2>2, <2>4
    <2>6. metrics'[d] = {v} /\ metrics' \in [Delivery -> SUBSET (Verdicts \cup {"failed"})]
        BY <1>0, <2>5
    <2>7. metrics'[d] \in {{"clean"}, {"infected"}}
        BY <2>6 DEF Verdicts
    <2>8. scanned' = [scanned EXCEPT ![d] = store[SourceOf(d[1])]]
        BY <1>4 DEF ScanStream
    <2>9. /\ scanned'[d] \in Upload /\ scanned' \in [Delivery -> Upload \cup {Nothing}]
          /\ \A e \in Delivery : e # d => scanned'[e] = scanned[e] /\ metrics'[e] = metrics[e]
        BY <1>0, <2>3, <2>5, <2>8
    <2>10. UNCHANGED <<store, uploaded, signatures>>
        BY <1>4 DEF ScanStream
    <2>11. QED
        BY <1>0, <1>a, <2>1, <2>6, <2>7, <2>9, <2>10, GotoControl DEF Calls
<1>5. ASSUME NEW d \in Delivery, CopyFile(d) PROVE ControlInv'
    <2>1. pc[d] = "copy" /\ pc[d] \in Calls
        BY <1>5 DEF CopyFile, Calls
    <2>2. store[SourceOf(d[1])] \in Upload
        BY <1>5, <1>a, <2>1, SourceStored DEF CopyFile, Absent, ControlInv
    <2>3. store' \in [Place -> Upload \cup {Nothing}]
        BY <1>0, <1>5, <2>2 DEF CopyFile, Copied
    <2>4. CASE Goto(d, "delete") /\ UNCHANGED metrics
        <3>1. scanned[d] \in Upload /\ metrics[d] \in {{"clean"}, {"infected"}}
            BY <1>a, <2>1 DEF HandlerAt
        <3>2. QED
            BY <1>0, <1>5, <1>a, <2>1, <2>3, <2>4, <3>1, GotoControl DEF CopyFile, Calls
    <2>5. CASE handleErrorResponse(d, "retry")
        BY <1>5, <1>a, <2>1, <2>3, <2>5, ErrorControl DEF CopyFile
    <2>6. QED
        BY <1>5, <2>4, <2>5 DEF CopyFile, RetryLater
<1>6. ASSUME NEW d \in Delivery, DeleteFile(d) PROVE ControlInv'
    <2>1. pc[d] = "delete" /\ pc[d] \in Calls
        BY <1>6 DEF DeleteFile, Calls
    <2>2. store' \in [Place -> Upload \cup {Nothing}]
        BY <1>0, <1>6 DEF DeleteFile
    <2>3. VerdictOf(d) \in Verdicts
        BY <2>1, WithVerdict
    <2>4. CASE Answer(d, VerdictOf(d)) /\ UNCHANGED metrics
        BY <1>6, <1>a, <2>1, <2>2, <2>3, <2>4, AnswerControl DEF DeleteFile
    <2>5. CASE handleErrorResponse(d, "retry")
        BY <1>6, <1>a, <2>1, <2>2, <2>5, ErrorControl DEF DeleteFile
    <2>6. QED
        BY <1>6, <2>4, <2>5 DEF DeleteFile, RetryLater
<1>7. ASSUME NEW d \in Delivery, CallThrows(d) PROVE ControlInv'
    <2>1. pc[d] \in Calls
        BY <1>7 DEF CallThrows, Calls
    <2>2. handleErrorResponse(d, "dropped") \/ handleErrorResponse(d, "retry")
        BY <1>7 DEF CallThrows, RetryLater
    <2>3. QED
        BY <1>0, <1>7, <1>a, <2>1, <2>2, ErrorControl DEF CallThrows
<1>8. ASSUME NEW d \in Delivery, Crash(d) PROVE ControlInv'
    <2>1. pc[d] \in Calls /\ Goto(d, "crashed")
        BY <1>8 DEF Crash
    <2>2. QED
        BY <1>0, <1>8, <1>a, <2>1, GotoControl DEF Crash, Calls
<1>9. ASSUME NEW d \in Delivery, Expire(d) PROVE ControlInv'
    BY <1>9 DEF Expire, ControlInv, TypeOK, HandlersAt, HandlerAt
<1>10. ASSUME NEW u \in Upload, Write(u) PROVE ControlInv'
    BY <1>10 DEF Write, queue, ControlInv, TypeOK, HandlersAt, HandlerAt
<1>11. ASSUME NEW u \in Upload, Remove(u) PROVE ControlInv'
    BY <1>11 DEF Remove, queue, ControlInv, TypeOK, HandlersAt, HandlerAt
<1>12. ASSUME NEW u \in Upload, Learn(u) PROVE ControlInv'
    BY <1>12 DEF Learn, queue, ControlInv, TypeOK, HandlersAt, HandlerAt
<1>13. CASE UNCHANGED vars
    BY <1>13 DEF vars, queue, ControlInv, TypeOK, HandlersAt, HandlerAt
<1>14. QED
    BY <1>1, <1>2, <1>3, <1>4, <1>5, <1>6, <1>7, <1>8, <1>9, <1>10, <1>11, <1>12, <1>13
       DEF Next, Handle

-----------------------------------------------------------------------------

(* What a step does to the store.                                          *)
Writes(u) ==
    /\ u \in Upload \ uploaded
    /\ uploaded' = uploaded \cup {u}
    /\ store' = [store EXCEPT ![SourceOf(u)] = u]

Empties(r) ==
    /\ Known(r)
    /\ store' = [store EXCEPT ![SourceOf(r)] = Nothing]
    /\ uploaded' = uploaded

Copies(d) ==
    /\ Known(d[1])
    /\ pc[d] = "copy"
    /\ store[SourceOf(d[1])] \in Upload
    /\ store' = [store EXCEPT ![Destination(d[1], VerdictOf(d))] = store[SourceOf(d[1])]]
    /\ uploaded' = uploaded

Deletes(d) == pc[d] = "delete" /\ store[SourceOf(d[1])] \in Upload /\ Empties(d[1])

LEMMA StoreEffect ==
    ASSUME ScannerAssumption, ControlInv, [Next]_vars
    PROVE  \/ store' = store /\ uploaded' = uploaded
           \/ \E u \in Upload : Writes(u)
           \/ \E d \in Delivery : Copies(d)
           \/ \E d \in Delivery : Deletes(d)
           \/ \E u \in Upload : Removes /\ Empties(u)
<1>1. ASSUME NEW d \in Delivery, pc[d] \in {"copy", "delete"}, ~Absent(d)
      PROVE  Known(d[1]) /\ store[SourceOf(d[1])] \in Upload
    <2>1. Known(d[1])
        BY <1>1 DEF ControlInv, HandlersAt, HandlerAt, Calls
    <2>2. QED
        BY <1>1, <2>1, SourceStored DEF Absent, ControlInv
<1>2. ASSUME NEW d \in Delivery, CopyFile(d) PROVE Copies(d)
    BY <1>1, <1>2 DEF CopyFile, Copied, Copies
<1>3. ASSUME NEW d \in Delivery, DeleteFile(d) PROVE Deletes(d)
    BY <1>1, <1>3 DEF DeleteFile, Deletes, Empties
<1>4. ASSUME NEW u \in Upload, Remove(u) PROVE Removes /\ Empties(u)
    BY <1>4, UploadKnown DEF Remove, Empties
<1>5. ASSUME NEW u \in Upload, Write(u) PROVE Writes(u)
    BY <1>5 DEF Write, Writes
<1>6. ASSUME NEW d \in Delivery,
             \/ Receive(d) \/ CheckExists(d) \/ getClamVersion(d) \/ ScanStream(d)
             \/ CallThrows(d) \/ Crash(d) \/ Expire(d)
      PROVE  store' = store /\ uploaded' = uploaded
    BY <1>6 DEF Receive, CheckExists, getClamVersion, ScanStream, CallThrows, Crash, Expire, world
<1>7. ASSUME NEW u \in Upload, Learn(u) PROVE store' = store /\ uploaded' = uploaded
    BY <1>7 DEF Learn
<1>8. CASE UNCHANGED vars
    BY <1>8 DEF vars, world
<1>9. QED
    BY <1>2, <1>3, <1>4, <1>5, <1>6, <1>7, <1>8 DEF Next, Handle

(* What a step does to the findings of a handler.                          *)
LEMMA FoundEffect ==
    ASSUME ScannerAssumption, ControlInv, [Next]_vars, NEW d \in Delivery
    PROVE  \/ scanned'[d] = scanned[d] /\ \A v \in Verdicts : v \in metrics'[d] <=> v \in metrics[d]
           \/ ScanStream(d)
<1>1. \A v \in Verdicts : v # "failed"
    BY DEF Verdicts
<1>2. scanned \in [Delivery -> Upload \cup {Nothing}]
      /\ metrics \in [Delivery -> SUBSET (Verdicts \cup {"failed"})]
    BY DEF ControlInv, TypeOK
<1>3. ASSUME NEW e \in Delivery, NEW what, handleErrorResponse(e, what)
      PROVE  \A v \in Verdicts : v \in metrics'[d] <=> v \in metrics[d]
    BY <1>1, <1>2, <1>3 DEF handleErrorResponse, Count
<1>4. ASSUME NEW e \in Delivery, ScanStream(e), e # d
      PROVE  scanned'[d] = scanned[d] /\ metrics'[d] = metrics[d]
    BY <1>2, <1>4 DEF ScanStream, Count
<1>5. ASSUME NEW e \in Delivery,
             \/ Receive(e) \/ CheckExists(e) \/ getClamVersion(e) \/ CopyFile(e) \/ DeleteFile(e)
             \/ CallThrows(e) \/ Crash(e) \/ Expire(e)
      PROVE  scanned' = scanned
    BY <1>5 DEF Receive, CheckExists, getClamVersion, CopyFile, DeleteFile, CallThrows, Crash, Expire
<1>6. ASSUME NEW e \in Delivery,
             \/ Receive(e) \/ CheckExists(e) \/ getClamVersion(e) \/ CopyFile(e) \/ DeleteFile(e)
             \/ CallThrows(e) \/ Crash(e) \/ Expire(e)
      PROVE  metrics' = metrics \/ \E what : handleErrorResponse(e, what)
    BY <1>6 DEF Receive, CheckExists, getClamVersion, CopyFile, DeleteFile, CallThrows, Crash, Expire,
       RetryLater
<1>7. ASSUME NEW u \in Upload, Write(u) \/ Remove(u) \/ Learn(u)
      PROVE  scanned' = scanned /\ metrics' = metrics
    BY <1>7 DEF Write, Remove, Learn
<1>8. CASE UNCHANGED vars
    BY <1>8 DEF vars
<1>9. QED
    BY <1>3, <1>4, <1>5, <1>6, <1>7, <1>8 DEF Next, Handle

(* A finding is never taken back.                                          *)
LEMMA FoundStays ==
    ASSUME ScannerAssumption, ControlInv, [Next]_vars,
           NEW d \in Delivery, NEW u \in Upload, NEW v \in Verdicts, FoundBy(d, u, v)
    PROVE  FoundBy(d, u, v)'
<1>1. ~ScanStream(d)
    <2>1. scanned[d] # Nothing
        BY DEF FoundBy, ScannerAssumption
    <2>2. pc[d] # "scan"
        BY <2>1 DEF ControlInv, HandlersAt, HandlerAt
    <2>3. QED
        BY <2>2 DEF ScanStream
<1>2. QED
    BY <1>1, FoundEffect DEF FoundBy

(* Where uploads are, and what has been scanned.                           *)
PlacesInv ==
    /\ \A p \in Place : store[p] # Nothing => store[p] \in uploaded
    /\ \A d \in Delivery : scanned[d] # Nothing => scanned[d] \in uploaded
    /\ OneWay => \A r \in Request : Known(r) /\ store[SourceOf(r)] # Nothing =>
            SourceOf(store[SourceOf(r)]) = SourceOf(r)
    /\ OneWay => \A d \in Delivery : scanned[d] # Nothing => SourceOf(scanned[d]) = SourceOf(d[1])

LEMMA PlacesInit ==
    ASSUME ScannerAssumption, Init
    PROVE  PlacesInv
<1>1. \A r \in Request : Known(r) => SourceOf(r) \in Place
    BY PlacesKnown DEF Known
<1>2. QED
    BY <1>1 DEF Init, PlacesInv

(* Destinations are not sources.                                           *)
LEMMA Apart ==
    ASSUME ScannerAssumption, OneWay, NEW r, Known(r), NEW s, Known(s), NEW v \in Verdicts
    PROVE  SourceOf(r) # Destination(s, v)
BY PlacesKnown DEF Known

LEMMA PlacesStep ==
    ASSUME ScannerAssumption, ControlInv, PlacesInv, [Next]_vars
    PROVE  PlacesInv'
<1>0. /\ \A r \in Request : Known(r) => SourceOf(r) \in Place
      /\ \A r \in Request, v \in Verdicts : Known(r) => Destination(r, v) \in Place
    BY PlacesKnown DEF Known, Verdicts
<1>1. store \in [Place -> Upload \cup {Nothing}] /\ Nothing \notin Upload
    BY DEF ControlInv, TypeOK, ScannerAssumption
<1>2. uploaded \subseteq uploaded'
    BY StoreEffect DEF Writes, Copies, Deletes, Empties
<1>3. ASSUME NEW p \in Place, store'[p] # Nothing
      PROVE  store'[p] \in uploaded'
    <2>1. store[p] # Nothing => store[p] \in uploaded'
        BY <1>2 DEF PlacesInv
    <2>2. ASSUME NEW u \in Upload, Writes(u) PROVE store'[p] \in uploaded'
        BY <1>1, <1>3, <2>1, <2>2 DEF Writes
    <2>3. ASSUME NEW d \in Delivery, Copies(d) PROVE store'[p] \in uploaded'
        <3>1. store[SourceOf(d[1])] \in uploaded
            BY <1>0, <1>1, <2>3 DEF Copies, PlacesInv, Known
        <3>2. QED
            BY <1>1, <1>2, <1>3, <2>1, <2>3, <3>1 DEF Copies
    <2>4. ASSUME NEW r, Empties(r) PROVE store'[p] \in uploaded'
        BY <1>1, <1>3, <2>1, <2>4 DEF Empties
    <2>5. QED
        BY <1>3, <2>1, <2>2, <2>3, <2>4, StoreEffect DEF Deletes
<1>4. ASSUME NEW d \in Delivery, scanned'[d] # Nothing
      PROVE  /\ scanned'[d] \in uploaded'
             /\ OneWay => SourceOf(scanned'[d]) = SourceOf(d[1])
    <2>1. CASE scanned'[d] = scanned[d]
        BY <1>2, <1>4, <2>1 DEF PlacesInv
    <2>2. CASE ScanStream(d)
        <3>1. scanned'[d] = store[SourceOf(d[1])]
            BY <2>2 DEF ScanStream, ControlInv, TypeOK
        <3>2. pc[d] = "scan"
            BY <2>2 DEF ScanStream
        <3>3. Known(d[1])
            BY <3>2 DEF ControlInv, HandlersAt, HandlerAt, Calls
        <3>4. d[1] \in Request
            BY DEF Delivery
        <3>5. QED
            BY <1>0, <1>2, <1>4, <3>1, <3>3, <3>4 DEF PlacesInv
    <2>3. QED
        BY <2>1, <2>2, FoundEffect
<1>5. ASSUME OneWay, NEW r \in Request, Known(r), store'[SourceOf(r)] # Nothing
      PROVE  SourceOf(store'[SourceOf(r)]) = SourceOf(r)
    <2>1. store'[SourceOf(r)] = store[SourceOf(r)] => SourceOf(store'[SourceOf(r)]) = SourceOf(r)
        BY <1>5 DEF PlacesInv
    <2>2. ASSUME NEW u \in Upload, Writes(u) PROVE SourceOf(store'[SourceOf(r)]) = SourceOf(r)
        BY <1>0, <1>1, <1>5, <2>1, <2>2 DEF Writes
    <2>3. ASSUME NEW d \in Delivery, Copies(d) PROVE SourceOf(store'[SourceOf(r)]) = SourceOf(r)
        <3>1. VerdictOf(d) \in Verdicts /\ Known(d[1])
            BY <2>3, WithVerdict DEF Copies
        <3>2. SourceOf(r) # Destination(d[1], VerdictOf(d))
            BY <1>5, <3>1, Apart
        <3>3. QED
            BY <1>0, <1>1, <1>5, <2>1, <2>3, <3>2 DEF Copies
    <2>4. ASSUME NEW s, Empties(s) PROVE SourceOf(store'[SourceOf(r)]) = SourceOf(r)
        BY <1>0, <1>1, <1>5, <2>1, <2>4 DEF Empties
    <2>5. QED
        BY <2>1, <2>2, <2>3, <2>4, StoreEffect DEF Deletes
<1>6. OneWay' = OneWay
    BY DEF OneWay
<1>7. QED
    BY <1>3, <1>4, <1>5, <1>6 DEF PlacesInv, Known, SourceOf
-----------------------------------------------------------------------------

(* Names that are used once tell the documents apart.                      *)
LEMMA SameDocument ==
    ASSUME WriteOnce, NEW u \in Upload, NEW w \in Upload, SourceOf(u) = SourceOf(w)
    PROVE  u = w
BY DEF WriteOnce, Places

LEMMA FiledApart ==
    ASSUME ScannerAssumption, WriteOnce, NEW u \in Upload, NEW w \in Upload,
           NEW v \in Verdicts, NEW x \in Verdicts, Destination(u, v) = Destination(w, x)
    PROVE  u = w /\ v = x
<1>1. Destination(u, v) \in Places(u) /\ Destination(u, v) \in Places(w)
    BY DEF Places
<1>2. u = w
    BY <1>1 DEF WriteOnce
<1>3. Destination(u, "clean") # Destination(u, "infected")
    BY UploadKnown, PlacesKnown DEF Known
<1>4. v = x
    BY <1>2, <1>3 DEF Verdicts
<1>5. QED
    BY <1>2, <1>4

(* A handler that copies has scanned what it copies.                       *)
LEMMA CopiesScanned ==
    ASSUME ScannerAssumption, ControlInv, PlacesInv, WriteOnce,
           NEW d \in Delivery, Copies(d)
    PROVE  /\ store[SourceOf(d[1])] = scanned[d] /\ scanned[d] \in Upload
           /\ SourceOf(scanned[d]) = SourceOf(d[1])
           /\ VerdictOf(d) \in Verdicts /\ FoundBy(d, scanned[d], VerdictOf(d))
           /\ Destination(d[1], VerdictOf(d)) = Destination(scanned[d], VerdictOf(d))
<1>1. VerdictOf(d) \in Verdicts /\ metrics[d] = {VerdictOf(d)} /\ scanned[d] \in Upload
    BY WithVerdict DEF Copies
<1>2. Known(d[1]) /\ d[1] \in Request /\ store[SourceOf(d[1])] \in Upload
    BY DEF Copies, Delivery
<1>3. SourceOf(store[SourceOf(d[1])]) = SourceOf(d[1]) /\ SourceOf(scanned[d]) = SourceOf(d[1])
    BY <1>1, <1>2 DEF PlacesInv, WriteOnce, ScannerAssumption
<1>4. store[SourceOf(d[1])] = scanned[d]
    BY <1>1, <1>2, <1>3, SameDocument
<1>5. QED
    BY <1>1, <1>3, <1>4, SameSource DEF FoundBy

(* What is filed stays filed.                                              *)
LEMMA AtStays ==
    ASSUME ScannerAssumption, ControlInv, PlacesInv, WriteOnce, [Next]_vars,
           NEW u \in Upload, NEW v \in Verdicts, At(u, v)
    PROVE  At(u, v)'
<1> DEFINE p == Destination(u, v)
<1>1. p \in Place /\ store \in [Place -> Upload \cup {Nothing}] /\ OneWay
    BY UploadKnown, PlacesKnown DEF Known, Verdicts, ControlInv, TypeOK, WriteOnce
<1>2. At(u, v)' <=> store'[p] = u
    BY DEF At, Destination
<1>3. store[p] = u
    BY DEF At
<1>4. \A r : Known(r) => SourceOf(r) # p
    BY <1>1, Apart, UploadKnown
<1>5. ASSUME NEW w \in Upload, Writes(w) PROVE store'[p] = u
    BY <1>1, <1>3, <1>4, <1>5, UploadKnown DEF Writes
<1>6. ASSUME NEW d \in Delivery, Copies(d) PROVE store'[p] = u
    <2>1. store' = [store EXCEPT ![Destination(scanned[d], VerdictOf(d))] = scanned[d]]
        BY <1>6, CopiesScanned DEF Copies
    <2>2. Destination(scanned[d], VerdictOf(d)) = p => scanned[d] = u
        BY <1>6, CopiesScanned, FiledApart
    <2>3. QED
        BY <1>1, <1>3, <2>1, <2>2
<1>7. ASSUME NEW r, Empties(r) PROVE store'[p] = u
    BY <1>1, <1>3, <1>4, <1>7 DEF Empties
<1>8. QED
    BY <1>2, <1>3, <1>5, <1>6, <1>7, StoreEffect DEF Deletes

(* Only a copy files a document, by the verdict of its handler.            *)
LEMMA FiledByCopy ==
    ASSUME ScannerAssumption, ControlInv, PlacesInv, WriteOnce, [Next]_vars,
           NEW u \in Upload, NEW v \in Verdicts, At(u, v)', ~At(u, v)
    PROVE  \E d \in Delivery : Copies(d) /\ scanned[d] = u /\ VerdictOf(d) = v
<1> DEFINE p == Destination(u, v)
<1>1. p \in Place /\ store \in [Place -> Upload \cup {Nothing}] /\ OneWay /\ Nothing \notin Upload
    BY UploadKnown, PlacesKnown DEF Known, Verdicts, ControlInv, TypeOK, WriteOnce, ScannerAssumption
<1>2. store'[p] = u /\ store[p] # u
    BY DEF At, Destination
<1>3. \A r : Known(r) => SourceOf(r) # p
    BY <1>1, Apart, UploadKnown
<1>4. ASSUME NEW w \in Upload, Writes(w) PROVE FALSE
    BY <1>1, <1>2, <1>3, <1>4, UploadKnown DEF Writes
<1>5. ASSUME NEW r, Empties(r) PROVE FALSE
    BY <1>1, <1>2, <1>3, <1>5 DEF Empties
<1>6. PICK d \in Delivery : Copies(d)
    BY <1>2, <1>4, <1>5, StoreEffect DEF Deletes
<1>7. store' = [store EXCEPT ![Destination(scanned[d], VerdictOf(d))] = scanned[d]]
    BY <1>6, CopiesScanned DEF Copies
<1>8. Destination(scanned[d], VerdictOf(d)) = p
    BY <1>1, <1>2, <1>7
<1>9. scanned[d] = u /\ VerdictOf(d) = v
    BY <1>6, <1>8, CopiesScanned, FiledApart
<1>10. QED
    BY <1>6, <1>9

(* Only a deletion takes a document out of its unscanned bucket.           *)
LEMMA TakenByDelete ==
    ASSUME ScannerAssumption, ControlInv, PlacesInv, WriteOnce, [Next]_vars,
           NEW u \in Upload, Waiting(u), ~Waiting(u)'
    PROVE  \/ \E d \in Delivery : Deletes(d) /\ scanned[d] = u
           \/ Removes /\ store' = [store EXCEPT ![SourceOf(u)] = Nothing]
<1> DEFINE p == SourceOf(u)
<1>1. /\ p \in Place /\ store \in [Place -> Upload \cup {Nothing}] /\ OneWay
      /\ Nothing \notin Upload /\ Known(u)
    BY UploadKnown, PlacesKnown DEF Known, ControlInv, TypeOK, WriteOnce, ScannerAssumption
<1>2. store[p] = u /\ store'[p] # u
    BY DEF Waiting, SourceOf
<1>3. u \in uploaded
    BY <1>1, <1>2 DEF PlacesInv
<1>4. ASSUME NEW w \in Upload, Writes(w) PROVE FALSE
    <2>1. w # u
        BY <1>3, <1>4 DEF Writes
    <2>2. SourceOf(w) # p
        BY <2>1, SameDocument
    <2>3. QED
        BY <1>1, <1>2, <1>4, <2>2 DEF Writes
<1>5. ASSUME NEW d \in Delivery, Copies(d) PROVE FALSE
    <2>1. VerdictOf(d) \in Verdicts /\ Known(d[1])
        BY <1>5, CopiesScanned DEF Copies
    <2>2. p # Destination(d[1], VerdictOf(d))
        BY <1>1, <2>1, Apart
    <2>3. QED
        BY <1>1, <1>2, <1>5, <2>2 DEF Copies
<1>6. ASSUME NEW r, Empties(r)
      PROVE  SourceOf(r) = p
    BY <1>1, <1>2, <1>6 DEF Empties
<1>7. ASSUME NEW d \in Delivery, Deletes(d) PROVE scanned[d] = u
    <2>1. scanned[d] \in Upload
        BY <1>7, WithVerdict DEF Deletes
    <2>2. SourceOf(scanned[d]) = SourceOf(d[1]) /\ SourceOf(d[1]) = p
        BY <1>1, <1>6, <1>7, <2>1 DEF PlacesInv, Deletes
    <2>3. QED
        BY <2>1, <2>2, SameDocument
<1>8. ASSUME NEW w \in Upload, Removes /\ Empties(w)
      PROVE  Removes /\ store' = [store EXCEPT ![p] = Nothing]
    BY <1>6, <1>8 DEF Empties
<1>9. QED
    BY <1>2, <1>4, <1>5, <1>7, <1>8, StoreEffect
-----------------------------------------------------------------------------

(* Where documents are with names that are used once.  A handler that is   *)
(* about to delete has filed what it scanned: that is what makes the        *)
(* deletion by name harmless.                                              *)
Found == \A u \in Upload, v \in Verdicts : At(u, v) => \E d \in Delivery : FoundBy(d, u, v)

DeletesFiled == \A d \in Delivery : pc[d] = "delete" => At(scanned[d], VerdictOf(d))

Somewhere == ~Removes => \A u \in uploaded : Waiting(u) \/ \E v \in Verdicts : At(u, v)

Agreed ==
    ~Updates => \A d \in Delivery, u \in Upload, v \in Verdicts :
        FoundBy(d, u, v) => (v = "infected" <=> u \in signatures)

FilesInv == WriteOnce => Found /\ DeletesFiled /\ Somewhere /\ Agreed

LEMMA FilesInit ==
    ASSUME ScannerAssumption, Init
    PROVE  FilesInv
<1>1. ASSUME NEW u \in Upload, NEW v \in Verdicts PROVE ~At(u, v)
    <2>1. Destination(u, v) \in Place
        BY UploadKnown, PlacesKnown DEF Known, Verdicts
    <2>2. QED
        BY <2>1 DEF Init, At, ScannerAssumption
<1>2. Found /\ DeletesFiled /\ Somewhere
    BY <1>1 DEF Init, Found, DeletesFiled, Somewhere
<1>3. Agreed
    BY DEF Init, Agreed, FoundBy
<1>4. QED
    BY <1>2, <1>3 DEF FilesInv

LEMMA FoundStep ==
    ASSUME ScannerAssumption, ControlInv, PlacesInv, WriteOnce, Found, [Next]_vars
    PROVE  Found'
<1>1. ASSUME NEW u \in Upload, NEW v \in Verdicts, At(u, v)'
      PROVE  \E d \in Delivery : FoundBy(d, u, v)'
    <2>1. CASE At(u, v)
        <3>1. PICK d \in Delivery : FoundBy(d, u, v)
            BY <2>1 DEF Found
        <3>2. QED
            BY <3>1, FoundStays
    <2>2. CASE ~At(u, v)
        <3>1. PICK d \in Delivery : Copies(d) /\ scanned[d] = u /\ VerdictOf(d) = v
            BY <1>1, <2>2, FiledByCopy
        <3>2. FoundBy(d, u, v)
            BY <3>1, CopiesScanned
        <3>3. QED
            BY <3>2, FoundStays
    <2>3. QED
        BY <2>1, <2>2
<1>2. QED
    BY <1>1 DEF Found

(* The call to delete follows that to copy.                                *)
LEMMA ReachesDelete ==
    ASSUME ScannerAssumption, ControlInv, [Next]_vars, NEW d \in Delivery, pc'[d] = "delete"
    PROVE  pc[d] = "delete" \/ CopyFile(d)
<1>0. pc \in [Delivery -> {"idle", "done", "crashed"} \cup Calls]
    BY DEF ControlInv, TypeOK
<1>1. ASSUME NEW e \in Delivery, NEW what, Answer(e, what) PROVE pc[d] = "delete"
    BY <1>0, <1>1 DEF Answer
<1>2. ASSUME NEW e \in Delivery, NEW call, Goto(e, call), e # d \/ call # "delete"
      PROVE  pc[d] = "delete"
    BY <1>0, <1>2 DEF Goto
<1>3. ASSUME NEW e \in Delivery, Receive(e) PROVE pc[d] = "delete"
    BY <1>1, <1>2, <1>3 DEF Receive, handleErrorResponse
<1>4. ASSUME NEW e \in Delivery, CheckExists(e) PROVE pc[d] = "delete"
    BY <1>1, <1>2, <1>4 DEF CheckExists
<1>5. ASSUME NEW e \in Delivery, getClamVersion(e) \/ ScanStream(e) \/ Crash(e)
      PROVE  pc[d] = "delete"
    BY <1>2, <1>5 DEF getClamVersion, ScanStream, Crash
<1>6. ASSUME NEW e \in Delivery, CopyFile(e), e # d PROVE pc[d] = "delete"
    BY <1>1, <1>2, <1>6 DEF CopyFile, RetryLater, handleErrorResponse
<1>7. ASSUME NEW e \in Delivery, DeleteFile(e) \/ CallThrows(e) PROVE pc[d] = "delete"
    BY <1>1, <1>7 DEF DeleteFile, CallThrows, RetryLater, handleErrorResponse
<1>8. ASSUME NEW e \in Delivery, Expire(e) PROVE pc[d] = "delete"
    BY <1>8 DEF Expire
<1>9. ASSUME NEW u \in Upload, Write(u) \/ Remove(u) \/ Learn(u) PROVE pc[d] = "delete"
    BY <1>9 DEF Write, Remove, Learn
<1>10. CASE UNCHANGED vars
    BY <1>10 DEF vars
<1>11. QED
    BY <1>3, <1>4, <1>5, <1>6, <1>7, <1>8, <1>9, <1>10 DEF Next, Handle

LEMMA DeletesFiledStep ==
    ASSUME ScannerAssumption, ControlInv, PlacesInv, WriteOnce, DeletesFiled, [Next]_vars
    PROVE  DeletesFiled'
<1>1. ASSUME NEW d \in Delivery, pc'[d] = "delete"
      PROVE  At(scanned[d], VerdictOf(d))'
    <2>1. pc[d] \in {"copy", "delete"}
        BY <1>1, ReachesDelete DEF CopyFile
    <2>2. /\ VerdictOf(d) \in Verdicts /\ metrics[d] = {VerdictOf(d)}
          /\ scanned[d] \in Upload
        BY <2>1, WithVerdict
    <2>3. FoundBy(d, scanned[d], VerdictOf(d))
        BY <2>2 DEF FoundBy
    <2>4. scanned'[d] = scanned[d] /\ ("clean" \in metrics'[d] <=> "clean" \in metrics[d])
        <3>1. ~ScanStream(d)
            BY <2>1 DEF ScanStream
        <3>2. QED
            BY <3>1, FoundEffect DEF Verdicts
    <2>5. VerdictOf(d)' = VerdictOf(d)
        BY <2>4 DEF VerdictOf
    <2>6. At(scanned[d], VerdictOf(d))' <=>
            store'[Destination(scanned[d], VerdictOf(d))] = scanned[d]
        BY <2>4, <2>5 DEF At, Destination
    <2>7. CASE pc[d] = "delete"
        <3>1. At(scanned[d], VerdictOf(d))
            BY <2>7 DEF DeletesFiled
        <3>2. \A u \in Upload, v \in Verdicts : At(u, v) => store'[Destination(u, v)] = u
            BY AtStays DEF At, Destination
        <3>3. QED
            BY <2>2, <2>6, <3>1, <3>2
    <2>8. CASE CopyFile(d)
        <3>1. Copies(d)
            <4>1. Known(d[1])
                BY <2>1 DEF ControlInv, HandlersAt, HandlerAt, Calls
            <4>2. store[SourceOf(d[1])] \in Upload
                BY <2>8, <4>1, SourceStored DEF CopyFile, Absent, ControlInv
            <4>3. QED
                BY <2>8, <4>1, <4>2 DEF CopyFile, Copied, Copies
        <3>2. store' = [store EXCEPT ![Destination(scanned[d], VerdictOf(d))] = scanned[d]]
            BY <3>1, CopiesScanned DEF Copies
        <3>3. Destination(scanned[d], VerdictOf(d)) \in Place
            BY <2>2, UploadKnown, PlacesKnown DEF Known, Verdicts
        <3>4. store'[Destination(scanned[d], VerdictOf(d))] = scanned[d]
            BY <3>2, <3>3 DEF ControlInv, TypeOK
        <3>5. QED
            BY <2>6, <3>4
    <2>9. QED
        BY <1>1, <2>7, <2>8, ReachesDelete
<1>2. QED
    BY <1>1 DEF DeletesFiled

LEMMA SomewhereStep ==
    ASSUME ScannerAssumption, ControlInv, PlacesInv, WriteOnce, DeletesFiled, Somewhere,
           [Next]_vars
    PROVE  Somewhere'
<1>1. ASSUME ~Removes, NEW u \in uploaded', ~Waiting(u)'
      PROVE  \E v \in Verdicts : At(u, v)'
    <2>1. u \in Upload
        <3>1. uploaded' \subseteq Upload
            BY ControlStep DEF ControlInv, TypeOK
        <3>2. QED
            BY <3>1
    <2>2. u \in uploaded
        <3>1. ASSUME NEW w \in Upload, Writes(w), w = u PROVE Waiting(u)'
            <4>1. SourceOf(u) \in Place
                BY <2>1, UploadKnown, PlacesKnown DEF Known
            <4>2. QED
                BY <3>1, <4>1 DEF Writes, ControlInv, TypeOK, Waiting, SourceOf
        <3>2. ASSUME NEW w \in Upload, Writes(w) PROVE u \in uploaded
            BY <1>1, <3>1, <3>2 DEF Writes
        <3>3. QED
            BY <3>2, StoreEffect DEF Copies, Deletes, Empties
    <2>3. CASE Waiting(u)
        <3>1. PICK d \in Delivery : Deletes(d) /\ scanned[d] = u
            BY <1>1, <2>1, <2>3, TakenByDelete
        <3>2. At(u, VerdictOf(d)) /\ VerdictOf(d) \in Verdicts
            BY <3>1, WithVerdict DEF Deletes, DeletesFiled
        <3>3. QED
            BY <2>1, <3>2, AtStays
    <2>4. CASE ~Waiting(u)
        <3>1. PICK v \in Verdicts : At(u, v)
            BY <1>1, <2>2, <2>4 DEF Somewhere
        <3>2. QED
            BY <2>1, <3>1, AtStays
    <2>5. QED
        BY <2>3, <2>4
<1>2. QED
    BY <1>1 DEF Somewhere

LEMMA AgreedStep ==
    ASSUME ScannerAssumption, ControlInv, Agreed, [Next]_vars
    PROVE  Agreed'
<1>1. SUFFICES ASSUME ~Updates, NEW d \in Delivery, NEW u \in Upload, NEW v \in Verdicts,
                      FoundBy(d, u, v)'
               PROVE  v = "infected" <=> u \in signatures'
    BY DEF Agreed
<1>2. signatures' = signatures
    BY <1>1 DEF Next, vars, world, Receive, Handle, CheckExists, getClamVersion, ScanStream,
       CopyFile, DeleteFile, CallThrows, Crash, Expire, Write, Remove, Learn
<1>3. CASE ScanStream(d)
    <2>1. scanned'[d] = store[SourceOf(d[1])] /\ scanned'[d] = u
        BY <1>1, <1>3 DEF ScanStream, FoundBy, ControlInv, TypeOK
    <2>2. pc[d] = "scan" /\ Count(d, IF u \in signatures THEN {"infected"} ELSE {"clean"})
        BY <1>3, <2>1 DEF ScanStream
    <2>3. metrics[d] = {}
        BY <2>2 DEF ControlInv, HandlersAt, HandlerAt
    <2>4. metrics'[d] = IF u \in signatures THEN {"infected"} ELSE {"clean"}
        BY <2>2, <2>3 DEF Count, ControlInv, TypeOK
    <2>5. QED
        BY <1>1, <1>2, <2>4 DEF FoundBy, Verdicts
<1>4. CASE ~ScanStream(d)
    <2>1. FoundBy(d, u, v)
        BY <1>1, <1>4, FoundEffect DEF FoundBy
    <2>2. QED
        BY <1>1, <1>2, <2>1 DEF Agreed
<1>5. QED
    BY <1>3, <1>4

LEMMA FilesStep ==
    ASSUME ScannerAssumption, ControlInv, PlacesInv, FilesInv, [Next]_vars
    PROVE  FilesInv'
<1>1. WriteOnce' = WriteOnce
    BY DEF WriteOnce, OneWay, Places, SourceOf, Destination
<1>2. QED
    BY <1>1, FoundStep, DeletesFiledStep, SomewhereStep, AgreedStep DEF FilesInv
-----------------------------------------------------------------------------

(* What an answer to the announcement of an upload says of the document,   *)
(* now and ever after: it was moved, or there is a reason that it was not. *)
AnswerSays(d) ==
    /\ answer[d] \in {"deleted"} \cup Verdicts => d[1] \in uploaded /\ ~Waiting(d[1])
    /\ answer[d] = "dropped" =>
        /\ "failed" \in metrics[d]
        /\ d[1] \in uploaded
        /\ ~Waiting(d[1]) \/ Forbids \/ BodyOf[d[1]].size = "large"

AnswersSay == \A d \in Delivery : d[1] \in Upload => AnswerSays(d)

(* A request is done because one of its deliveries has been answered.      *)
DoneIsAnswered ==
    \A u \in acked \cap Upload : \E n \in 1..MaxDeliveries :
        answer[<<u, n>>] \notin {"none", "retry"}

AnswersInv == OneWay => AnswersSay /\ DoneIsAnswered

LEMMA AnswersInit ==
    ASSUME ScannerAssumption, Init
    PROVE  AnswersInv
<1>1. \A d \in Delivery : answer[d] = "none"
    BY DEF Init
<1>2. AnswersSay
    BY <1>1 DEF AnswersSay, AnswerSays, Verdicts
<1>3. DoneIsAnswered
    BY DEF Init, DoneIsAnswered
<1>4. QED
    BY <1>2, <1>3 DEF AnswersInv

(* A document gets into its unscanned bucket by being written only.        *)
LEMMA WaitsByWrite ==
    ASSUME ScannerAssumption, ControlInv, OneWay, [Next]_vars,
           NEW u \in Upload, u \in uploaded, ~Waiting(u)
    PROVE  u \in uploaded' /\ ~Waiting(u)'
<1> DEFINE p == SourceOf(u)
<1>1. /\ p \in Place /\ store \in [Place -> Upload \cup {Nothing}]
      /\ Nothing \notin Upload /\ Known(u)
    BY UploadKnown, PlacesKnown DEF Known, ControlInv, TypeOK, ScannerAssumption
<1>2. store[p] # u /\ (Waiting(u)' <=> store'[p] = u)
    BY DEF Waiting, SourceOf
<1>3. ASSUME NEW w \in Upload, Writes(w) PROVE store'[p] # u /\ uploaded \subseteq uploaded'
    BY <1>1, <1>2, <1>3 DEF Writes
<1>4. ASSUME NEW d \in Delivery, Copies(d) PROVE store'[p] # u /\ uploaded' = uploaded
    <2>1. VerdictOf(d) \in Verdicts /\ Known(d[1])
        BY <1>4, WithVerdict DEF Copies
    <2>2. p # Destination(d[1], VerdictOf(d))
        BY <1>1, <2>1, Apart
    <2>3. QED
        BY <1>1, <1>2, <1>4, <2>2 DEF Copies
<1>5. ASSUME NEW r, Empties(r) PROVE store'[p] # u /\ uploaded' = uploaded
    BY <1>1, <1>2, <1>5 DEF Empties
<1>6. QED
    BY <1>2, <1>3, <1>4, <1>5, StoreEffect DEF Deletes

(* An answer is given once.                                                *)
LEMMA AnswerEffect ==
    ASSUME ScannerAssumption, ControlInv, [Next]_vars, NEW d \in Delivery
    PROVE  \/ answer'[d] = answer[d] /\ ("failed" \in metrics[d] => "failed" \in metrics'[d])
           \/ answer[d] = "none"
<1>0. /\ answer \in [Delivery -> {"none", "deleted", "dropped", "retry"} \cup Verdicts]
      /\ metrics \in [Delivery -> SUBSET (Verdicts \cup {"failed"})]
    BY DEF ControlInv, TypeOK
<1> DEFINE Same == answer'[d] = answer[d] /\ ("failed" \in metrics[d] => "failed" \in metrics'[d])
<1>1. pc[d] \in Calls \cup {"idle"} => answer[d] = "none"
    BY DEF ControlInv, HandlersAt, HandlerAt
<1>2. ASSUME NEW e \in Delivery, NEW what, e # d,
             (Answer(e, what) /\ UNCHANGED metrics) \/ handleErrorResponse(e, what)
      PROVE  Same
    BY <1>0, <1>2 DEF Answer, handleErrorResponse, Count
<1>3. ASSUME NEW e \in Delivery, NEW call, Goto(e, call), UNCHANGED metrics PROVE Same
    BY <1>3 DEF Goto
<1>4. ASSUME NEW e \in Delivery, Receive(e), e # d PROVE Same
    BY <1>2, <1>3, <1>4 DEF Receive
<1>5. ASSUME NEW e \in Delivery, CheckExists(e), e # d PROVE Same
    BY <1>2, <1>3, <1>5 DEF CheckExists
<1>6. ASSUME NEW e \in Delivery, getClamVersion(e) \/ Crash(e) PROVE Same
    BY <1>3, <1>6 DEF getClamVersion, Crash
<1>7. ASSUME NEW e \in Delivery, ScanStream(e), e # d PROVE Same
    BY <1>0, <1>7 DEF ScanStream, Count, Goto
<1>8. ASSUME NEW e \in Delivery, CopyFile(e), e # d PROVE Same
    BY <1>2, <1>3, <1>8 DEF CopyFile, RetryLater
<1>9. ASSUME NEW e \in Delivery, DeleteFile(e), e # d PROVE Same
    BY <1>2, <1>9 DEF DeleteFile, RetryLater
<1>10. ASSUME NEW e \in Delivery, CallThrows(e), e # d PROVE Same
    BY <1>2, <1>10 DEF CallThrows, RetryLater
<1>11. ASSUME NEW e \in Delivery, Expire(e) PROVE Same
    BY <1>11 DEF Expire
<1>12. ASSUME NEW u \in Upload, Write(u) \/ Remove(u) \/ Learn(u) PROVE Same
    BY <1>12 DEF Write, Remove, Learn
<1>13. CASE UNCHANGED vars
    BY <1>13 DEF vars
<1>14. ASSUME Receive(d) \/ Handle(d) PROVE answer[d] = "none"
    BY <1>1, <1>14 DEF Receive, Due, Handle, CheckExists, getClamVersion, ScanStream, CopyFile,
       DeleteFile, CallThrows, Calls
<1>15. QED
    BY <1>4, <1>5, <1>6, <1>7, <1>8, <1>9, <1>10, <1>11, <1>12, <1>13, <1>14 DEF Next, Handle

(* What a first answer to an upload's announcement says.                   *)
LEMMA FirstAnswer ==
    ASSUME ScannerAssumption, ControlInv, PlacesInv, OneWay, [Next]_vars,
           NEW d \in Delivery, d[1] \in Upload, answer[d] = "none", answer'[d] # "none"
    PROVE  AnswerSays(d)'
<1> DEFINE u == d[1]
<1>0. /\ answer \in [Delivery -> {"none", "deleted", "dropped", "retry"} \cup Verdicts]
      /\ metrics \in [Delivery -> SUBSET (Verdicts \cup {"failed"})]
      /\ store \in [Place -> Upload \cup {Nothing}] /\ Nothing \notin Upload
      /\ SourceOf(u) \in Place
    BY UploadKnown, PlacesKnown DEF Known, ControlInv, TypeOK, ScannerAssumption
<1>1. Waiting(u)' <=> store'[SourceOf(u)] = u
    BY DEF Waiting, SourceOf
<1>2. ASSUME NEW e \in Delivery, NEW what, e # d, Answer(e, what)
      PROVE  FALSE
    BY <1>0, <1>2 DEF Answer
<1>3. ASSUME NEW e \in Delivery, NEW call, Goto(e, call) PROVE FALSE
    BY <1>3 DEF Goto
<1>4. ASSUME NEW what, handleErrorResponse(d, what)
      PROVE  answer'[d] = what /\ "failed" \in metrics'[d]
    BY <1>0, <1>4 DEF handleErrorResponse, Count, Answer
<1>5. ASSUME Receive(d) PROVE AnswerSays(d)'
    <2>1. handleErrorResponse(d, "dropped") /\ ~Scannable(BodyOf[u], Buckets)
        BY <1>3, <1>5 DEF Receive
    <2>2. BodyOf[u].size = "large"
        <3>1. /\ BodyOf[u].kind = "storage#object"
              /\ BodyOf[u].name \in Name /\ BodyOf[u].bucket \in Bucket
              /\ Matches(Buckets, BodyOf[u].bucket) # {}
            BY DEF ScannerAssumption
        <3>2. BodyOf[u].name # Missing /\ BodyOf[u].bucket # Missing
            BY <3>1, ConfigAssumption
        <3>3. QED
            BY <2>1, <3>1, <3>2 DEF Scannable
    <2>3. u \in uploaded'
        BY <1>5 DEF Receive, Due, world
    <2>4. QED
        BY <1>4, <2>1, <2>2, <2>3 DEF AnswerSays, Verdicts
<1>6. ASSUME pc[d] \in Calls PROVE u \in uploaded
    BY <1>6 DEF ControlInv, HandlersAt, HandlerAt, Calls
<1>7. ASSUME CheckExists(d) PROVE AnswerSays(d)'
    <2>1. Absent(d) /\ Answer(d, "deleted") /\ UNCHANGED world /\ pc[d] \in Calls
        BY <1>3, <1>7 DEF CheckExists, Calls
    <2>2. answer'[d] = "deleted" /\ ~Waiting(u)' /\ u \in uploaded'
        BY <1>0, <1>1, <1>6, <2>1 DEF Answer, Absent, world
    <2>3. QED
        BY <2>2 DEF AnswerSays
<1>8. ASSUME handleErrorResponse(d, "retry") PROVE AnswerSays(d)'
    BY <1>4, <1>8 DEF AnswerSays, Verdicts
<1>9. ASSUME DeleteFile(d) PROVE AnswerSays(d)'
    <2>1. CASE Answer(d, VerdictOf(d))
        <3>1. VerdictOf(d) \in Verdicts /\ VerdictOf(d) # "dropped" /\ pc[d] \in Calls
            BY <1>9, WithVerdict DEF DeleteFile, Calls, VerdictOf
        <3>2. answer'[d] = VerdictOf(d)
            BY <1>0, <2>1 DEF Answer
        <3>3. u \in uploaded' /\ ~Waiting(u)'
            BY <1>0, <1>1, <1>6, <1>9, <3>1 DEF DeleteFile
        <3>4. QED
            BY <3>1, <3>2, <3>3 DEF AnswerSays
    <2>2. CASE RetryLater(d)
        BY <1>8, <2>2 DEF RetryLater
    <2>3. QED
        BY <1>9, <2>1, <2>2 DEF DeleteFile
<1>10. ASSUME CopyFile(d) PROVE AnswerSays(d)'
    BY <1>3, <1>8, <1>10 DEF CopyFile, RetryLater
<1>11. ASSUME CallThrows(d) PROVE AnswerSays(d)'
    <2>1. CASE handleErrorResponse(d, "dropped") /\ (Absent(d) \/ Forbids)
        <3>1. pc[d] \in Calls /\ UNCHANGED world
            BY <1>11 DEF CallThrows, Calls
        <3>2. u \in uploaded'
            BY <1>6, <3>1 DEF world
        <3>3. Absent(d) => ~Waiting(u)'
            BY <1>0, <1>1, <3>1 DEF Absent, world
        <3>4. answer'[d] = "dropped" /\ "failed" \in metrics'[d]
            BY <1>4, <2>1
        <3>5. QED
            BY <2>1, <3>2, <3>3, <3>4 DEF AnswerSays, Verdicts
    <2>2. CASE RetryLater(d)
        BY <1>8, <2>2 DEF RetryLater
    <2>3. QED
        BY <1>11, <2>1, <2>2 DEF CallThrows
<1>12. ASSUME NEW e \in Delivery, e # d,
              \/ Receive(e) \/ CheckExists(e) \/ CopyFile(e) \/ DeleteFile(e) \/ CallThrows(e)
       PROVE  FALSE
    BY <1>2, <1>3, <1>12 DEF Receive, CheckExists, CopyFile, DeleteFile, CallThrows, RetryLater,
       handleErrorResponse
<1>13. ASSUME NEW e \in Delivery,
              getClamVersion(e) \/ ScanStream(e) \/ Crash(e) \/ Expire(e)
       PROVE  FALSE
    BY <1>3, <1>13 DEF getClamVersion, ScanStream, Crash, Expire
<1>14. ASSUME NEW w \in Upload, Write(w) \/ Remove(w) \/ Learn(w) PROVE FALSE
    BY <1>14 DEF Write, Remove, Learn
<1>15. ~UNCHANGED vars
    BY DEF vars
<1>16. QED
    BY <1>5, <1>7, <1>9, <1>10, <1>11, <1>12, <1>13, <1>14, <1>15 DEF Next, Handle

LEMMA AnswersSayStep ==
    ASSUME ScannerAssumption, ControlInv, PlacesInv, OneWay, AnswersSay, [Next]_vars
    PROVE  AnswersSay'
<1>1. ASSUME NEW d \in Delivery, d[1] \in Upload PROVE AnswerSays(d)'
    <2>1. CASE answer'[d] = "none"
        BY <2>1 DEF AnswerSays, Verdicts
    <2>2. CASE answer'[d] # "none" /\ answer[d] = "none"
        BY <1>1, <2>2, FirstAnswer
    <2>3. CASE answer'[d] # "none" /\ answer[d] # "none"
        <3>1. answer'[d] = answer[d] /\ ("failed" \in metrics[d] => "failed" \in metrics'[d])
            BY <2>3, AnswerEffect
        <3>2. AnswerSays(d)
            BY <1>1 DEF AnswersSay
        <3>3. d[1] \in uploaded /\ ~Waiting(d[1]) => d[1] \in uploaded' /\ ~Waiting(d[1])'
            BY <1>1, WaitsByWrite
        <3>4. uploaded \subseteq uploaded'
            BY StoreEffect DEF Writes, Copies, Deletes, Empties
        <3>5. QED
            BY <3>1, <3>2, <3>3, <3>4 DEF AnswerSays
    <2>4. QED
        BY <2>1, <2>2, <2>3
<1>2. QED
    BY <1>1 DEF AnswersSay

LEMMA DoneIsAnsweredStep ==
    ASSUME ScannerAssumption, ControlInv, DoneIsAnswered, [Next]_vars
    PROVE  DoneIsAnswered'
<1>1. ASSUME NEW u \in acked' \cap Upload
      PROVE  \E n \in 1..MaxDeliveries : answer'[<<u, n>>] \notin {"none", "retry"}
    <2>1. \A n \in 1..MaxDeliveries : <<u, n>> \in Delivery
        BY DEF Delivery, ScannerAssumption
    <2>2. CASE u \in acked
        <3>1. PICK n \in 1..MaxDeliveries : answer[<<u, n>>] \notin {"none", "retry"}
            BY <1>1, <2>2 DEF DoneIsAnswered
        <3>2. answer'[<<u, n>>] = answer[<<u, n>>]
            BY <2>1, <3>1, AnswerEffect
        <3>3. QED
            BY <3>1, <3>2
    <2>3. CASE u \notin acked
        <3>1. ASSUME NEW d \in Delivery, NEW what, Answer(d, what), what # "none"
              PROVE  \E n \in 1..MaxDeliveries : answer'[<<u, n>>] \notin {"none", "retry"}
            <4>1. d[1] = u /\ what # "retry"
                BY <1>1, <2>3, <3>1 DEF Answer
            <4>2. d[2] \in 1..MaxDeliveries /\ d = <<u, d[2]>>
                BY <4>1 DEF Delivery
            <4>3. answer'[d] = what
                BY <3>1 DEF Answer, ControlInv, TypeOK
            <4>4. QED
                BY <3>1, <4>1, <4>2, <4>3
        <3>2. \E d \in Delivery : \E what : Answer(d, what) /\ what # "none"
            <4>1. ASSUME NEW d \in Delivery, DeleteFile(d) PROVE VerdictOf(d) # "none"
                BY DEF VerdictOf
            <4>2. QED
                BY <1>1, <2>3, <4>1 DEF Next, vars, queue, Receive, Handle, CheckExists,
                   getClamVersion, ScanStream, CopyFile, DeleteFile, CallThrows, Crash, Expire,
                   Write, Remove, Learn, Goto, RetryLater, handleErrorResponse
        <3>3. QED
            BY <3>1, <3>2
    <2>4. QED
        BY <2>2, <2>3
<1>2. QED
    BY <1>1 DEF DoneIsAnswered

LEMMA AnswersStep ==
    ASSUME ScannerAssumption, ControlInv, PlacesInv, AnswersInv, [Next]_vars
    PROVE  AnswersInv'
<1>1. OneWay' = OneWay
    BY DEF OneWay
<1>2. QED
    BY <1>1, AnswersSayStep, DoneIsAnsweredStep DEF AnswersInv
-----------------------------------------------------------------------------

Inv == ControlInv /\ PlacesInv /\ FilesInv /\ AnswersInv

LEMMA Invariance == Spec => []Inv
<1>1. Init => Inv
    BY ScannerAssumption, ControlInit, PlacesInit, FilesInit, AnswersInit DEF Inv
<1>2. Inv /\ [Next]_vars => Inv'
    BY ScannerAssumption, ControlStep, PlacesStep, FilesStep, AnswersStep DEF Inv
<1>3. QED
    BY <1>1, <1>2, PTL DEF Spec

(* The variables keep their types.                                         *)
THEOREM ScannerTypeCorrect == Spec => []TypeOK
<1>1. Inv => TypeOK
    BY DEF Inv, ControlInv
<1>2. QED
    BY <1>1, Invariance, PTL

(* With names that are used once, what is in the clean and in the          *)
(* quarantine buckets has itself been scanned with that verdict, under any *)
(* interleaving of handlers, redeliveries, removals and crashes.           *)
THEOREM FiledByItsVerdict == Spec => []DocumentsFitVerdict
<1>1. Inv => DocumentsFitVerdict
    BY DEF Inv, FilesInv, Found, DocumentsFitVerdict
<1>2. QED
    BY <1>1, Invariance, PTL

(* A document that its owner leaves alone is never lost between copy and   *)
(* deletion, whichever of the two fails, is repeated or races with another *)
(* handler's.                                                              *)
THEOREM NothingIsLost == Spec => []NothingLost
<1>1. Inv => NothingLost
    BY DEF Inv, FilesInv, Somewhere, NothingLost
<1>2. QED
    BY <1>1, Invariance, PTL

(* Without new signatures no document gets into both buckets, however often*)
(* its request is handled.                                                 *)
THEOREM OneVerdictOnly == Spec => []OneVerdict
<1>1. ASSUME Inv, WriteOnce, ~Updates, NEW u \in Upload,
             At(u, "clean"), At(u, "infected")
      PROVE  FALSE
    <2>1. Found /\ Agreed
        BY <1>1 DEF Inv, FilesInv
    <2>2. PICK d \in Delivery : FoundBy(d, u, "clean")
        BY <1>1, <2>1 DEF Found, Verdicts
    <2>3. PICK e \in Delivery : FoundBy(e, u, "infected")
        BY <1>1, <2>1 DEF Found, Verdicts
    <2>4. u \notin signatures /\ u \in signatures
        BY <1>1, <2>1, <2>2, <2>3 DEF Agreed, Verdicts
    <2>5. QED
        BY <2>4
<1>2. Inv => OneVerdict
    BY <1>1 DEF OneVerdict
<1>3. QED
    BY <1>2, Invariance, PTL

(* A document whose request is done is still in the unscanned bucket only  *)
(* if it is too large or permission was denied; and then a failure was     *)
(* counted.                                                                *)
THEOREM LeftBehindHasReason == Spec => []LeftBehindIsReported
<1>1. ASSUME Inv, OneWay, NEW u \in acked \cap Upload, Waiting(u)
      PROVE  /\ Forbids \/ BodyOf[u].size = "large"
             /\ \E n \in 1..MaxDeliveries :
                    answer[<<u, n>>] = "dropped" /\ "failed" \in metrics[<<u, n>>]
    <2>1. AnswersSay /\ DoneIsAnswered /\ TypeOK
        BY <1>1 DEF Inv, AnswersInv, ControlInv
    <2>2. PICK n \in 1..MaxDeliveries : answer[<<u, n>>] \notin {"none", "retry"}
        BY <1>1, <2>1 DEF DoneIsAnswered
    <2>3. <<u, n>> \in Delivery /\ <<u, n>>[1] = u
        BY <1>1, ScannerAssumption DEF Delivery, ScannerAssumption
    <2>4. AnswerSays(<<u, n>>)
        BY <1>1, <2>1, <2>3 DEF AnswersSay
    <2>5. answer[<<u, n>>] \in {"deleted", "dropped"} \cup Verdicts
        BY <2>1, <2>2, <2>3 DEF TypeOK
    <2>6. answer[<<u, n>>] = "dropped"
        BY <1>1, <2>3, <2>4, <2>5 DEF AnswerSays
    <2>7. QED
        BY <1>1, <2>3, <2>4, <2>6 DEF AnswerSays
<1>2. Inv => LeftBehindIsReported
    BY <1>1 DEF LeftBehindIsReported
<1>3. QED
    BY <1>2, Invariance, PTL
-----------------------------------------------------------------------------

(* What readers see after each effect on the store, document by document.  *)
LEMMA AfterWrite ==
    ASSUME ScannerAssumption, ControlInv, PlacesInv, WriteOnce, NEW w \in Upload, Writes(w),
           NEW u \in Upload
    PROVE  /\ \A v \in Verdicts : At(u, v)' <=> At(u, v)
           /\ Waiting(u)' <=> Waiting(u) \/ u = w
           /\ ~Waiting(w) /\ \A v \in Verdicts : ~At(w, v)
<1>1. /\ store \in [Place -> Upload \cup {Nothing}] /\ Nothing \notin Upload /\ OneWay
      /\ SourceOf(w) \in Place /\ SourceOf(u) \in Place
      /\ \A v \in Verdicts : Destination(u, v) \in Place /\ Destination(w, v) \in Place
    BY UploadKnown, PlacesKnown DEF Known, Verdicts, ControlInv, TypeOK, WriteOnce, ScannerAssumption
<1>2. \A v \in Verdicts : SourceOf(w) # Destination(u, v)
    BY <1>1, Apart, UploadKnown
<1>3. \A v \in Verdicts : At(u, v)' <=> At(u, v)
    BY <1>1, <1>2 DEF Writes, At, Destination
<1>4. Waiting(u)' <=> store'[SourceOf(u)] = u
    BY DEF Waiting, SourceOf
<1>5. u # w => SourceOf(u) # SourceOf(w)
    BY SameDocument
<1>6. Waiting(u)' <=> Waiting(u) \/ u = w
    BY <1>1, <1>4, <1>5 DEF Writes, Waiting
<1>7. ~Waiting(w) /\ \A v \in Verdicts : ~At(w, v)
    BY <1>1 DEF Writes, Waiting, At, PlacesInv
<1>8. QED
    BY <1>3, <1>6, <1>7

LEMMA AfterCopy ==
    ASSUME ScannerAssumption, ControlInv, PlacesInv, WriteOnce, NEW d \in Delivery, Copies(d),
           NEW u \in Upload
    PROVE  /\ \A x \in Verdicts :
                At(u, x)' <=> At(u, x) \/ (u = scanned[d] /\ x = VerdictOf(d))
           /\ Waiting(u)' <=> Waiting(u)
           /\ Waiting(scanned[d])
<1> DEFINE w == scanned[d]
           v == VerdictOf(d)
           q == Destination(w, v)
<1>1. /\ w \in Upload /\ v \in Verdicts /\ store' = [store EXCEPT ![q] = w]
      /\ SourceOf(w) = SourceOf(d[1]) /\ store[SourceOf(d[1])] = w
    BY CopiesScanned DEF Copies
<1>2. /\ store \in [Place -> Upload \cup {Nothing}] /\ OneWay /\ SourceOf(u) \in Place
      /\ \A x \in Verdicts : Destination(u, x) \in Place
    BY UploadKnown, PlacesKnown DEF Known, Verdicts, ControlInv, TypeOK, WriteOnce
<1>3. ASSUME NEW x \in Verdicts
      PROVE  At(u, x)' <=> At(u, x) \/ (u = w /\ x = v)
    <2>1. At(u, x)' <=> store'[Destination(u, x)] = u
        BY DEF At, Destination
    <2>2. Destination(u, x) = q => u = w /\ x = v
        BY <1>1, FiledApart
    <2>3. CASE Destination(u, x) = q
        BY <1>1, <1>2, <2>1, <2>2, <2>3
    <2>4. CASE Destination(u, x) # q
        <3>1. store'[Destination(u, x)] = store[Destination(u, x)]
            BY <1>1, <1>2, <2>4
        <3>2. ~(u = w /\ x = v)
            BY <2>4
        <3>3. QED
            BY <2>1, <3>1, <3>2 DEF At
    <2>5. QED
        BY <2>3, <2>4
<1>4. Waiting(u)' <=> Waiting(u)
    <2>1. SourceOf(u) # q
        BY <1>1, <1>2, Apart, UploadKnown
    <2>2. store'[SourceOf(u)] = store[SourceOf(u)]
        BY <1>1, <1>2, <2>1
    <2>3. QED
        BY <2>2 DEF Waiting, SourceOf
<1>5. Waiting(w)
    BY <1>1 DEF Waiting
<1>6. QED
    BY <1>3, <1>4, <1>5

LEMMA AfterEmptying ==
    ASSUME ScannerAssumption, ControlInv, WriteOnce, NEW r, Empties(r), NEW u \in Upload
    PROVE  /\ \A v \in Verdicts : At(u, v)' <=> At(u, v)
           /\ Waiting(u)' <=> Waiting(u) /\ SourceOf(u) # SourceOf(r)
<1>1. /\ store \in [Place -> Upload \cup {Nothing}] /\ Nothing \notin Upload /\ OneWay
      /\ SourceOf(u) \in Place /\ Known(u) /\ Known(r)
      /\ \A v \in Verdicts : Destination(u, v) \in Place
    BY UploadKnown, PlacesKnown DEF Known, Verdicts, ControlInv, TypeOK, WriteOnce,
       ScannerAssumption, Empties
<1>2. \A v \in Verdicts : SourceOf(r) # Destination(u, v)
    BY <1>1, Apart
<1>3. \A v \in Verdicts : At(u, v)' <=> At(u, v)
    BY <1>1, <1>2 DEF Empties, At, Destination
<1>4. Waiting(u)' <=> store'[SourceOf(u)] = u
    BY DEF Waiting, SourceOf
<1>5. Waiting(u)' <=> Waiting(u) /\ SourceOf(u) # SourceOf(r)
    BY <1>1, <1>4 DEF Empties, Waiting
<1>6. QED
    BY <1>3, <1>5
-----------------------------------------------------------------------------

(* Where a reader sees one document, and what has been found of it.        *)
Home(u) ==
    IF At(u, "clean") THEN "clean"
    ELSE IF At(u, "infected") THEN "infected"
    ELSE IF Waiting(u) THEN "inbox"
    ELSE IF u \in uploaded THEN "withdrawn" ELSE "nowhere"

Finding(u) ==
    IF "clean" \in FoundFor(u) THEN "clean"
    ELSE IF "infected" \in FoundFor(u) THEN "infected" ELSE "unknown"

LEMMA MappingByDocument ==
    contractHome = [u \in Upload |-> Home(u)] /\ contractFound = [u \in Upload |-> Finding(u)]
BY DEF contractHome, contractFound, Home, Finding

(* Only a scan changes what has been found.                                *)
LEMMA FindingsStay ==
    ASSUME ScannerAssumption, ControlInv, [Next]_vars, \A d \in Delivery : ~ScanStream(d),
           NEW u \in Upload
    PROVE  Finding(u)' = Finding(u)
<1>1. \A d \in Delivery, v \in Verdicts : FoundBy(d, u, v)' <=> FoundBy(d, u, v)
    BY FoundEffect DEF FoundBy
<1>2. FoundFor(u)' = FoundFor(u)
    BY <1>1 DEF FoundFor
<1>3. QED
    BY <1>2 DEF Finding

(* All scans of a document find the same.                                  *)
LEMMA FindingIs ==
    ASSUME Agreed, ~Updates, NEW u \in Upload, NEW d \in Delivery, NEW v \in Verdicts,
           FoundBy(d, u, v)
    PROVE  Finding(u) = v
<1>1. v \in FoundFor(u) /\ \A x \in FoundFor(u) : x = "infected" <=> u \in signatures
    BY DEF FoundFor, Agreed
<1>2. v = "infected" <=> u \in signatures
    BY <1>1
<1>3. CASE v = "clean"
    BY <1>1, <1>3 DEF Finding
<1>4. CASE v = "infected"
    <2>1. "clean" \notin FoundFor(u)
        BY <1>1, <1>2, <1>4
    <2>2. QED
        BY <1>1, <1>4, <2>1 DEF Finding
<1>5. QED
    BY <1>3, <1>4 DEF Verdicts
(* The abstract steps, by what changes for one document.                   *)
LEMMA HomeChanges ==
    ASSUME NEW w \in Upload, \A u \in Upload : u # w => Home(u)' = Home(u)
    PROVE  contractHome' = [contractHome EXCEPT ![w] = Home(w)']
<1>1. contractHome' = [u \in Upload |-> Home(u)']
    BY DEF contractHome, Home
<1>2. QED
    BY <1>1, MappingByDocument

LEMMA FindingChanges ==
    ASSUME NEW w \in Upload, \A u \in Upload : u # w => Finding(u)' = Finding(u)
    PROVE  contractFound' = [contractFound EXCEPT ![w] = Finding(w)']
<1>1. contractFound' = [u \in Upload |-> Finding(u)']
    BY DEF contractFound, Finding
<1>2. QED
    BY <1>1, MappingByDocument

LEMMA NoHomeChanges ==
    ASSUME \A u \in Upload : Home(u)' = Home(u)
    PROVE  contractHome' = contractHome
BY DEF contractHome, Home

LEMMA NoFindingChanges ==
    ASSUME \A u \in Upload : Finding(u)' = Finding(u)
    PROVE  contractFound' = contractFound
BY DEF contractFound, Finding

LEMMA HomeFrom ==
    ASSUME NEW u \in Upload, \A v \in Verdicts : At(u, v)' <=> At(u, v),
           Waiting(u)' <=> Waiting(u), u \in uploaded' <=> u \in uploaded
    PROVE  Home(u)' = Home(u)
BY DEF Home, Verdicts

(* What Inv says of one document, when signatures do not change.           *)
LEMMA InvAt ==
    ASSUME Inv, WriteOnce, ~Updates
    PROVE  ControlInv /\ PlacesInv /\ Found /\ DeletesFiled /\ Agreed
BY DEF Inv, FilesInv

LEMMA WriteHandsIn ==
    ASSUME ScannerAssumption, Inv, WriteOnce, ~Updates, NEW w \in Upload, Writes(w),
           contractFound' = contractFound
    PROVE  Contract!HandIn(w)
<1>1. ASSUME NEW u \in Upload, u # w PROVE Home(u)' = Home(u)
    <2>1. u \in uploaded' <=> u \in uploaded
        BY <1>1 DEF Writes
    <2>2. QED
        BY <1>1, <2>1, InvAt, AfterWrite, HomeFrom
<1>2. Home(w) = "nowhere"
    <2>1. ~At(w, "clean") /\ ~At(w, "infected") /\ ~Waiting(w)
        BY InvAt, AfterWrite DEF Verdicts
    <2>2. QED
        BY <2>1 DEF Home, Writes
<1>3. Home(w)' = "inbox"
    <2>1. ~At(w, "clean")' /\ ~At(w, "infected")' /\ Waiting(w)'
        BY InvAt, AfterWrite DEF Verdicts
    <2>2. QED
        BY <2>1 DEF Home
<1>4. contractHome[w] = "nowhere"
    BY <1>2, MappingByDocument
<1>5. contractHome' = [contractHome EXCEPT ![w] = "inbox"]
    BY <1>1, <1>3, HomeChanges
<1>6. QED
    BY <1>4, <1>5 DEF Contract!HandIn

LEMMA CopyFiles ==
    ASSUME ScannerAssumption, Inv, WriteOnce, ~Updates, NEW d \in Delivery, Copies(d),
           contractFound' = contractFound
    PROVE  \/ contractHome' = contractHome
           \/ \E w \in Upload : Contract!File(w)
<1>0. PICK w \in Upload, v \in Verdicts : w = scanned[d] /\ v = VerdictOf(d)
    BY InvAt, CopiesScanned
<1>1. FoundBy(d, w, v) /\ Waiting(w)
    BY <1>0, InvAt, CopiesScanned, AfterCopy
<1>2. uploaded' = uploaded
    BY DEF Copies
<1>3. ASSUME NEW u \in Upload, u # w PROVE Home(u)' = Home(u)
    <2>1. /\ \A x \in Verdicts : At(u, x)' <=> At(u, x)
          /\ Waiting(u)' <=> Waiting(u)
        BY <1>0, <1>3, InvAt, AfterCopy
    <2>2. QED
        BY <1>2, <2>1, HomeFrom
<1>4. /\ \A x \in Verdicts : At(w, x)' <=> At(w, x) \/ x = v
      /\ Waiting(w)' <=> Waiting(w)
    BY <1>0, InvAt, AfterCopy
<1>5. CASE At(w, v)
    <2>1. Home(w)' = Home(w)
        BY <1>1, <1>2, <1>4, <1>5, HomeFrom
    <2>2. QED
        BY <1>3, <2>1, NoHomeChanges
<1>6. CASE ~At(w, v)
    <2>1. Finding(w) = v
        BY <1>1, InvAt, FindingIs
    <2>2. ASSUME NEW x \in Verdicts, At(w, x) PROVE FALSE
        <3>1. PICK e \in Delivery : FoundBy(e, w, x)
            BY <1>1, <2>2, InvAt DEF Found
        <3>2. Finding(w) = x
            BY <1>1, <3>1, InvAt, FindingIs
        <3>3. QED
            BY <1>6, <2>1, <2>2, <3>2
    <2>3. ~At(w, "clean") /\ ~At(w, "infected")
        BY <2>2 DEF Verdicts
    <2>4. Home(w) = "inbox"
        BY <1>1, <2>3 DEF Home
    <2>5. (At(w, "clean")' <=> v = "clean") /\ (At(w, "infected")' <=> v = "infected")
        BY <1>4, <2>3 DEF Verdicts
    <2>6. Waiting(w)' /\ Home(w)' = v
        BY <1>1, <1>4, <2>5 DEF Home, Verdicts
    <2>7. contractHome[w] = "inbox" /\ contractFound[w] = v
        BY <2>1, <2>4, MappingByDocument
    <2>8. contractHome' = [contractHome EXCEPT ![w] = v]
        BY <1>3, <2>6, HomeChanges
    <2>9. v # "unknown"
        BY DEF Verdicts
    <2>10. QED
        BY <2>7, <2>8, <2>9 DEF Contract!File
<1>7. QED
    BY <1>5, <1>6
LEMMA DeleteIsUnseen ==
    ASSUME ScannerAssumption, Inv, WriteOnce, ~Updates, NEW d \in Delivery, Deletes(d)
    PROVE  contractHome' = contractHome
<1>0. PICK w \in Upload, v \in Verdicts :
        w = scanned[d] /\ v = VerdictOf(d) /\ SourceOf(w) = SourceOf(d[1])
    <2>1. scanned[d] \in Upload /\ VerdictOf(d) \in Verdicts
        BY InvAt, WithVerdict DEF Deletes
    <2>2. SourceOf(scanned[d]) = SourceOf(d[1])
        BY <2>1, InvAt DEF PlacesInv, WriteOnce, ScannerAssumption
    <2>3. QED
        BY <2>1, <2>2
<1>1. At(w, v)
    BY <1>0, InvAt DEF Deletes, DeletesFiled
<1>2. uploaded' = uploaded /\ Empties(d[1])
    BY DEF Deletes, Empties
<1>3. ASSUME NEW u \in Upload PROVE Home(u)' = Home(u)
    <2>1. /\ \A x \in Verdicts : At(u, x)' <=> At(u, x)
          /\ Waiting(u)' <=> Waiting(u) /\ SourceOf(u) # SourceOf(d[1])
        BY <1>2, InvAt, AfterEmptying
    <2>2. CASE u = w
        <3>1. (At(u, "clean") \/ At(u, "infected"))
              /\ (At(u, "clean")' <=> At(u, "clean")) /\ (At(u, "infected")' <=> At(u, "infected"))
            BY <1>1, <2>1, <2>2 DEF Verdicts
        <3>2. QED
            BY <3>1 DEF Home
    <2>3. CASE u # w
        <3>1. SourceOf(u) # SourceOf(d[1])
            BY <1>0, <2>3, SameDocument
        <3>2. QED
            BY <1>2, <2>1, <3>1, HomeFrom
    <2>4. QED
        BY <2>2, <2>3
<1>4. QED
    BY <1>3, NoHomeChanges

LEMMA RemovalTakesBack ==
    ASSUME ScannerAssumption, Inv, WriteOnce, ~Updates, NEW w \in Upload, Empties(w),
           contractFound' = contractFound
    PROVE  contractHome' = contractHome \/ Contract!TakeBack(w)
<1>1. uploaded' = uploaded
    BY DEF Empties
<1>2. ASSUME NEW u \in Upload
      PROVE  /\ \A x \in Verdicts : At(u, x)' <=> At(u, x)
             /\ Waiting(u)' <=> Waiting(u) /\ u # w
    <2>1. /\ \A x \in Verdicts : At(u, x)' <=> At(u, x)
          /\ Waiting(u)' <=> Waiting(u) /\ SourceOf(u) # SourceOf(w)
        BY InvAt, AfterEmptying
    <2>2. QED
        BY <2>1, SameDocument
<1>3. ASSUME NEW u \in Upload, u # w PROVE Home(u)' = Home(u)
    BY <1>1, <1>2, <1>3, HomeFrom
<1>4. /\ At(w, "clean")' <=> At(w, "clean")
      /\ At(w, "infected")' <=> At(w, "infected")
      /\ ~Waiting(w)'
    BY <1>2 DEF Verdicts
<1>5. CASE ~Waiting(w) \/ At(w, "clean") \/ At(w, "infected")
    <2>1. Home(w)' = Home(w)
        BY <1>1, <1>4, <1>5 DEF Home
    <2>2. QED
        BY <1>3, <2>1, NoHomeChanges
<1>6. CASE Waiting(w) /\ ~At(w, "clean") /\ ~At(w, "infected")
    <2>1. w \in uploaded
        <3>1. SourceOf(w) \in Place
            BY UploadKnown, PlacesKnown DEF Known
        <3>2. QED
            BY <1>6, <3>1, InvAt DEF PlacesInv, Waiting, ScannerAssumption
    <2>2. Home(w) = "inbox" /\ Home(w)' = "withdrawn"
        BY <1>1, <1>4, <1>6, <2>1 DEF Home
    <2>3. contractHome[w] = "inbox"
        BY <2>2, MappingByDocument
    <2>4. contractHome' = [contractHome EXCEPT ![w] = "withdrawn"]
        BY <1>3, <2>2, HomeChanges
    <2>5. QED
        BY <2>3, <2>4 DEF Contract!TakeBack
<1>7. QED
    BY <1>5, <1>6

LEMMA ScanExamines ==
    ASSUME ScannerAssumption, Inv, WriteOnce, ~Updates, [Next]_vars,
           NEW d \in Delivery, ScanStream(d)
    PROVE  \/ UNCHANGED <<contractHome, contractFound>>
           \/ \E w \in Upload : Contract!Examine(w)
<1>0. ControlInv /\ PlacesInv /\ Found /\ Agreed /\ OneWay
    BY InvAt DEF WriteOnce
<1>1. store' = store /\ uploaded' = uploaded /\ pc[d] = "scan"
    BY DEF ScanStream, world
<1>2. contractHome' = contractHome
    BY <1>1 DEF contractHome, At, Waiting, Destination, SourceOf
<1>3. Known(d[1]) /\ d[1] \in Request /\ metrics[d] = {}
    BY <1>0, <1>1 DEF ControlInv, HandlersAt, HandlerAt, Calls, Delivery
<1>4. PICK w \in Upload : w = store[SourceOf(d[1])]
    BY <1>0, <1>3, SourceStored DEF ScanStream, Absent, ControlInv
<1>5. SourceOf(w) = SourceOf(d[1]) /\ Waiting(w)
    BY <1>0, <1>3, <1>4 DEF PlacesInv, Waiting, ScannerAssumption
<1>6. PICK v \in Verdicts :
        scanned'[d] = w /\ metrics'[d] = {v}
    <2>1. \E v \in Verdicts : metrics' = [metrics EXCEPT ![d] = @ \cup {v}]
        BY DEF ScanStream, Count, Verdicts
    <2>2. QED
        BY <1>0, <1>3, <1>4, <2>1 DEF ScanStream, ControlInv, TypeOK
<1>7. \A e \in Delivery : e # d => scanned'[e] = scanned[e] /\ metrics'[e] = metrics[e]
    BY <1>0 DEF ScanStream, Count, ControlInv, TypeOK
<1>8. scanned[d] = Nothing
    BY <1>0, <1>1 DEF ControlInv, HandlersAt, HandlerAt
<1>9. ASSUME NEW u \in Upload, u # w PROVE Finding(u)' = Finding(u)
    <2>1. \A e \in Delivery, x \in Verdicts : FoundBy(e, u, x)' <=> FoundBy(e, u, x)
        BY <1>6, <1>7, <1>8, <1>9 DEF FoundBy, ScannerAssumption
    <2>2. FoundFor(u)' = FoundFor(u)
        BY <2>1 DEF FoundFor
    <2>3. QED
        BY <2>2 DEF Finding
<1>10. Finding(w)' = v
    <2>1. Agreed'
        BY <1>0, AgreedStep
    <2>2. FoundBy(d, w, v)'
        BY <1>6 DEF FoundBy
    <2>3. \A x \in FoundFor(w)' : x = "infected" <=> w \in signatures'
        BY <2>1 DEF FoundFor, Agreed
    <2>4. v \in FoundFor(w)'
        BY <2>2 DEF FoundFor
    <2>5. QED
        BY <2>3, <2>4 DEF Finding, Verdicts
<1>11. contractFound' = [contractFound EXCEPT ![w] = v]
    BY <1>9, <1>10, FindingChanges
<1>12. CASE \E e \in Delivery, x \in Verdicts : FoundBy(e, w, x)
    <2>1. PICK e \in Delivery, x \in Verdicts : FoundBy(e, w, x)
        BY <1>12
    <2>2. Finding(w) = x
        BY <1>0, <2>1, FindingIs
    <2>3. x = v
        <3>1. Agreed' /\ FoundBy(e, w, x)' /\ FoundBy(d, w, v)'
            BY <1>0, <1>6, <2>1, AgreedStep, FoundStays DEF FoundBy
        <3>2. (x = "infected" <=> w \in signatures') /\ (v = "infected" <=> w \in signatures')
            BY <3>1 DEF Agreed
        <3>3. QED
            BY <3>2 DEF Verdicts
    <2>4. Finding(w)' = Finding(w)
        BY <1>10, <2>2, <2>3
    <2>5. contractFound' = contractFound
        BY <1>9, <2>4, NoFindingChanges
    <2>6. QED
        BY <1>2, <2>5
<1>13. CASE \A e \in Delivery, x \in Verdicts : ~FoundBy(e, w, x)
    <2>1. ~At(w, "clean") /\ ~At(w, "infected")
        BY <1>0, <1>13 DEF Found, Verdicts
    <2>2. Home(w) = "inbox"
        BY <1>5, <2>1 DEF Home
    <2>3. FoundFor(w) = {}
        BY <1>13 DEF FoundFor
    <2>4. Finding(w) = "unknown"
        BY <2>3 DEF Finding
    <2>5. contractHome[w] = "inbox" /\ contractFound[w] = "unknown"
        BY <2>2, <2>4, MappingByDocument
    <2>6. v = "clean" \/ v = "infected"
        BY DEF Verdicts
    <2>7. contractFound' \in {[contractFound EXCEPT ![w] = x] : x \in {"clean", "infected"}}
        BY <1>11, <2>6
    <2>8. QED
        BY <1>2, <2>5, <2>7 DEF Contract!Examine
<1>14. QED
    BY <1>12, <1>13

LEMMA ContractStep ==
    ASSUME ScannerAssumption, Inv, WriteOnce, ~Updates, [Next]_vars
    PROVE  [Contract!ContractNext]_<<contractHome, contractFound>>
<1>1. CASE \E d \in Delivery : ScanStream(d)
    BY <1>1, ScanExamines DEF Contract!ContractNext
<1>2. CASE \A d \in Delivery : ~ScanStream(d)
    <2>1. contractFound' = contractFound
        BY <1>2, InvAt, FindingsStay, NoFindingChanges
    <2>2. ASSUME store' = store, uploaded' = uploaded PROVE contractHome' = contractHome
        BY <2>2 DEF contractHome, At, Waiting, Destination, SourceOf
    <2>3. ASSUME NEW w \in Upload, Writes(w) PROVE Contract!ContractNext
        BY <2>1, <2>3, WriteHandsIn DEF Contract!ContractNext
    <2>4. ASSUME NEW d \in Delivery, Copies(d)
          PROVE  contractHome' = contractHome \/ Contract!ContractNext
        BY <2>1, <2>4, CopyFiles DEF Contract!ContractNext
    <2>5. ASSUME NEW d \in Delivery, Deletes(d) PROVE contractHome' = contractHome
        BY <2>5, DeleteIsUnseen
    <2>6. ASSUME NEW w \in Upload, Empties(w)
          PROVE  contractHome' = contractHome \/ Contract!ContractNext
        BY <2>1, <2>6, RemovalTakesBack DEF Contract!ContractNext
    <2>7. QED
        BY <2>1, <2>2, <2>3, <2>4, <2>5, <2>6, InvAt, StoreEffect
<1>3. QED
    BY <1>1, <1>2

LEMMA ContractStart ==
    ASSUME ScannerAssumption, Init
    PROVE  Contract!ContractInit
<1>1. ASSUME NEW u \in Upload PROVE Home(u) = "nowhere" /\ Finding(u) = "unknown"
    <2>1. /\ SourceOf(u) \in Place
          /\ Destination(u, "clean") \in Place /\ Destination(u, "infected") \in Place
        BY UploadKnown, PlacesKnown DEF Known
    <2>2. ~At(u, "clean") /\ ~At(u, "infected") /\ ~Waiting(u) /\ u \notin uploaded
        BY <2>1 DEF Init, At, Waiting, ScannerAssumption
    <2>3. FoundFor(u) = {}
        BY DEF Init, FoundFor, FoundBy
    <2>4. QED
        BY <2>2, <2>3 DEF Home, Finding
<1>2. QED
    BY <1>1, MappingByDocument DEF Contract!ContractInit

(* With names used once and signatures that do not change, readers of the  *)
(* buckets see each document handed in, examined once and filed once, by   *)
(* its finding; everything else that handlers do is invisible to them.     *)
THEOREM ScannerImplementsContract ==
    ASSUME WriteOnce, ~Updates
    PROVE  Spec => ImplementsContract
<1>1. Init => Contract!ContractInit
    BY ScannerAssumption, ContractStart
<1>2. Inv /\ [Next]_vars => [Contract!ContractNext]_<<contractHome, contractFound>>
    BY ScannerAssumption, ContractStep
<1>3. QED
    BY <1>1, <1>2, Invariance, PTL
    DEF Spec, ImplementsContract, Contract!ContractSpec, Contract!contractVars
=============================================================================
