---------------------------- MODULE ScannerConfig ----------------------------
(***************************************************************************)
(* The configuration of the malware scanner and the decisions it takes from*)
(* it without waiting for anything: which configurations the service starts*)
(* with, where the documents of a bucket go, and what becomes of a request *)
(* before the first call to the storage service.                           *)
(***************************************************************************)
EXTENDS Naturals, Sequences

CONSTANTS Bucket,  \* names of buckets
          Name,    \* names of objects
          Missing  \* a name that is absent or empty

ASSUME ConfigAssumption == Missing \notin Bucket /\ Missing \notin Name

(* An element of config.buckets; a Config has a sequence of them and the   *)
(* bucket that mirrors the virus definitions.                              *)
Entry == [unscanned: Bucket \cup {Missing},
          clean: Bucket \cup {Missing},
          quarantined: Bucket \cup {Missing}]

BucketType == {"unscanned", "clean", "quarantined"}

(* Listing the files of a bucket without a name throws, as for one that is *)
(* not there or not readable.  (The assignment to success is to a variable *)
(* of another function and has no effect.)                                 *)
checkBucketExists(bucketName, readable) == bucketName \in readable

NamesUnique(entry) == \A s, t \in BucketType : s # t => entry[s] # entry[t]

(* readAndVerifyConfig returns the configuration, or else it throws.  Names*)
(* are compared within an entry only.                                      *)
Verified(config, readable) ==
    /\ config.buckets # <<>>
    /\ \A x \in DOMAIN config.buckets :
        /\ \A t \in BucketType : checkBucketExists(config.buckets[x][t], readable)
        /\ NamesUnique(config.buckets[x])
    /\ checkBucketExists(config.ClamCvdMirrorBucket, readable)

(* BUCKET_CONFIG.buckets.filter(c => c.unscanned === bucket)[0]            *)
Matches(entries, bucket) == {x \in DOMAIN entries : entries[x].unscanned = bucket}

ConfigOf(entries, bucket) ==
    entries[CHOOSE x \in Matches(entries, bucket) :
                \A y \in Matches(entries, bucket) : x <= y]

(* What a request asks for; a size that parseInt cannot read is NaN, which *)
(* is not greater than MAX_FILE_SIZE.  The requests of the scheduler have a*)
(* kind of their own and are the subject of CvdMirror.                     *)
Body == [kind: {"storage#object", "other"},
         name: Name \cup {Missing},
         bucket: Bucket \cup {Missing},
         size: {"small", "large", "NaN"}]

(* The checks before the first await, in the order of their effects: all   *)
(* that are not for scanning get an error response with status 200.        *)
Scannable(body, entries) ==
    /\ body.kind = "storage#object"
    /\ body.name # Missing /\ body.bucket # Missing
    /\ body.size # "large"
    /\ Matches(entries, body.bucket) # {}
=============================================================================
