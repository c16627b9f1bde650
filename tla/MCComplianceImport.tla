------------------------- MODULE MCComplianceImport -------------------------
(***************************************************************************)
(* Small instances of ComplianceImport.  The files are chosen so that, with*)
(* chunks of one and two lines, there are files that end on and off a chunk*)
(* boundary, makers first seen in the first and in the last chunk, repeated*)
(* VINs, lines that fail each kind of check, an empty file and a name that *)
(* is not in the bucket.                                                   *)
(***************************************************************************)
EXTENDS ComplianceImport, TLC

CONSTANTS v1, v2, v3,   \* VINs
          m1, m2        \* makers; m1 is known from the start

Good(v, m) == [vin |-> v, mh |-> m, kind |-> "good"]
OfKind(k) == [vin |-> v1, mh |-> m1, kind |-> k]

AllFiles ==
    [ newLast   |-> <<Good(v2, m1), Good(v1, m1), Good(v3, m2)>>,
      newFirst  |-> <<Good(v3, m2), Good(v1, m1)>>,
      twice     |-> <<Good(v1, m1), Good(v1, m2)>>,
      bad       |-> <<OfKind("badVin"), Good(v2, m1), OfKind("unreadable")>>,
      oneBad    |-> <<OfKind("badVin"), Good(v2, m1)>>,
      manyBad   |-> <<OfKind("badVin"), OfKind("unreadable"), OfKind("badVin")>>,
      unstorable |-> <<Good(v2, m1), OfKind("unstorable")>>,
      empty     |-> <<>> ]

(* Two files that list the same VINs in opposite orders.                   *)
CrossingFiles ==
    [ forth |-> <<Good(v1, m1), Good(v2, m2)>>,
      back  |-> <<Good(v2, m2), Good(v1, m1)>> ]

MCBucket == DOMAIN Content
MCFile == MCBucket \cup {"missing"}
MCOldVehicles == {[vin |-> v2, mh |-> m1, by |-> Nobody]}
MCOldMakers == {[name |-> m1, by |-> Nobody, born |-> m1]}

(* A deletion concerns one execution only, and is left to import_serial.   *)
AnyButDelete == {"crash", "database", "lostAck", "storage", "organisations"}
CrashOrDelete == {"crash", "delete"}
OnlyCrashes == {"crash"}
OneAndTwo == {1, 2}
OnlyZero == {0}

=============================================================================
