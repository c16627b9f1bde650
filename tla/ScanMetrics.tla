---------------------------- MODULE ScanMetrics ----------------------------
(***************************************************************************)
(* The metrics of the malware scanner: what an instance records, by view   *)
(* and by the values of its tags, and what monitoring has been told of it. *)
(* The exporter reports running totals once in a while; an instance that   *)
(* ends takes with it what it has not reported.                            *)
(*                                                                         *)
(* Tags that are the same for all records of an instance are left out.     *)
(***************************************************************************)
EXTENDS ScannerConfig, Integers

CONSTANTS Buckets,   \* BUCKET_CONFIG.buckets
          Sizes,     \* sizes that parseInt reads, of a request by hand also negative
          NaN,       \* the size that it makes of any other
          None,      \* a tag that is not set
          MaxRecords \* bound: records of all instances

ASSUME MetricsAssumption ==
    /\ Buckets \in Seq(Entry)
    /\ \A x \in DOMAIN Buckets : NamesUnique(Buckets[x])
    /\ Sizes \subseteq Int /\ NaN \notin Int
    /\ MaxRecords \in Nat

VARIABLES initialized, \* initMetrics has registered the views
          data,        \* the totals of the instance
          reported,    \* those that its exporter has reported last
          past,        \* the last reports of former instances, added up
          records      \* how many times

vars == <<initialized, data, reported, past, records>>

Counts == {"clean-files", "infected-files", "scans-failed", "scan-duration",
           "cvd-mirror-updates"}
View == Counts \cup {"bytes-scanned"}

(* Source and destination bucket, or the status of an update.              *)
Tagged == (Bucket \cup {None}) \X (Bucket \cup {None})
Status == {"SUCCESS_UPDATED", "SUCCESS_NO_UPDATES", "FAILURE"} \X {None}
Row == Tagged \cup Status

Total == Nat \cup {NaN}
Totals == [View -> [Row -> Total]]
Zero == [v \in View |-> [row \in Row |-> 0]]

TypeOK ==
    /\ initialized \in BOOLEAN
    /\ data \in Totals /\ reported \in Totals /\ past \in Totals
    /\ records \in 0..MaxRecords

Init ==
    /\ initialized = FALSE
    /\ data = Zero /\ reported = Zero /\ past = Zero
    /\ records = 0
-----------------------------------------------------------------------------

Plus(m, n) == IF NaN \in {m, n} THEN NaN ELSE m + n

(* Counting views and the distribution count records; the sum adds values. *)
Aggregate(v, total, value) == IF v \in Counts THEN total + 1 ELSE Plus(total, value)

Add(totals, measurements, row) ==
    [v \in View |->
        IF v \notin DOMAIN measurements THEN totals[v]
        ELSE [totals[v] EXCEPT ![row] = Aggregate(v, @, measurements[v])]]

initMetrics ==
    /\ ~initialized
    /\ initialized' = TRUE
    /\ UNCHANGED <<data, reported, past, records>>

Negative(value) == value # NaN /\ value < 0

\* Mutant: a negative measurement is recorded like any other.
RecordedAnyway(measurements, row) ==
    /\ initialized /\ records < MaxRecords
    /\ data' = Add(data, measurements, row)
    /\ records' = records + 1
    /\ UNCHANGED <<initialized, reported, past>>

(* globalStats.record drops all measurements where one of them is negative.*)
record(measurements, row) ==
    /\ initialized /\ records < MaxRecords
    /\ \A v \in DOMAIN measurements : ~Negative(measurements[v])
    /\ data' = Add(data, measurements, row)
    /\ records' = records + 1
    /\ UNCHANGED <<initialized, reported, past>>

(* A failure carries the bucket where the handler passes it, and then for  *)
(* both tags.                                                              *)
writeScanFailed(sourceBucket) ==
    record([v \in {"scans-failed"} |-> 1], <<sourceBucket, sourceBucket>>)

\* Mutant: the duration of a scan without a size is not recorded.
CompletedWithSize(measure, sourceBucket, destinationBucket, fileSize) ==
    record([v \in {measure} \cup (IF fileSize = NaN THEN {} ELSE {"bytes-scanned", "scan-duration"})
                |-> IF v = "bytes-scanned" THEN fileSize ELSE 1],
           <<sourceBucket, destinationBucket>>)

(* One record of three measures.                                           *)
writeScanCompleted_(measure, sourceBucket, destinationBucket, fileSize) ==
    record([v \in {measure, "bytes-scanned", "scan-duration"} |->
                IF v = "bytes-scanned" THEN fileSize ELSE 1],
           <<sourceBucket, destinationBucket>>)

writeScanClean(sourceBucket, destinationBucket, fileSize) ==
    writeScanCompleted_("clean-files", sourceBucket, destinationBucket, fileSize)

writeScanInfected(sourceBucket, destinationBucket, fileSize) ==
    writeScanCompleted_("infected-files", sourceBucket, destinationBucket, fileSize)

writeCvdMirrorUpdated(success, isUpdated) ==
    record([v \in {"cvd-mirror-updates"} |-> 1],
           <<IF ~success THEN "FAILURE"
             ELSE IF isUpdated THEN "SUCCESS_UPDATED" ELSE "SUCCESS_NO_UPDATES", None>>)

-----------------------------------------------------------------------------

\* Mutant: both verdicts are recorded with the clean bucket.
ScannedAsClean(bucket, fileSize) ==
    LET config == ConfigOf(Buckets, bucket)
    IN  \/ writeScanClean(config.unscanned, config.clean, fileSize)
        \/ writeScanInfected(config.unscanned, config.clean, fileSize)

(* What the handlers of server.js record.                                  *)
Scanned(bucket, fileSize) ==
    LET config == ConfigOf(Buckets, bucket)
    IN  \/ writeScanClean(config.unscanned, config.clean, fileSize)
        \/ writeScanInfected(config.unscanned, config.quarantined, fileSize)

Handlers ==
    \/ \E bucket \in Bucket, fileSize \in Sizes \cup {NaN} :
        Matches(Buckets, bucket) # {} /\ Scanned(bucket, fileSize)
    \/ \E bucket \in Bucket \cup {None} : writeScanFailed(bucket)
    \/ writeCvdMirrorUpdated(FALSE, FALSE)
    \/ \E isUpdated \in BOOLEAN : writeCvdMirrorUpdated(TRUE, isUpdated)

(* The exporter reports all totals.                                        *)
Export ==
    /\ initialized
    /\ reported' = data
    /\ UNCHANGED <<initialized, data, past, records>>

PlusTotals(t, u) == [v \in View |-> [row \in Row |-> Plus(t[v][row], u[v][row])]]

(* The instance ends, at any time; another one starts from nothing.        *)
Restart ==
    /\ initialized
    /\ initialized' = FALSE
    /\ past' = PlusTotals(past, reported)
    /\ data' = Zero /\ reported' = Zero
    /\ UNCHANGED records

Next == initMetrics \/ Handlers \/ Export \/ Restart

Spec == Init /\ [][Next]_vars
-----------------------------------------------------------------------------

(* What monitoring shows.                                                  *)
Shown == PlusTotals(past, reported)

(* Every scan that is shown with a verdict is shown with its duration, and *)
(* the other way round: also in the sum over instances that ended halfway. *)
ScansAgree ==
    \A row \in Row :
        Shown["clean-files"][row] + Shown["infected-files"][row] = Shown["scan-duration"][row]

(* A source and a destination tell the verdict, also where entries of the  *)
(* configuration share buckets.                                            *)
RowsHaveOneVerdict ==
    \A row \in Row : data["clean-files"][row] = 0 \/ data["infected-files"][row] = 0

(* No total that is shown ever falls, neither when an instance ends nor by *)
(* a size that is made up; only bytes that are not a number stay so.       *)
Grows(m, n) == n = NaN \/ (m # NaN /\ m <= n)

ShownNeverFalls ==
    [][\A v \in View, row \in Row : Grows(Shown[v][row], Shown'[v][row])]_vars

(* The view is the "Total number of bytes scanned" (metrics.js 178).  The  *)
(* request that server.js (75) gives for tests has no size.                *)
BytesAreANumber == \A row \in Row : data["bytes-scanned"][row] # NaN
=============================================================================
