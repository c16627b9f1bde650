-------------------------- MODULE MCMalwareScanner --------------------------
(***************************************************************************)
(* Small instances of MalwareScanner: documents with names of their own or *)
(* with the same name, in one or two pairs of buckets, and a request that  *)
(* belongs to no upload, as from the command line.                         *)
(***************************************************************************)
EXTENDS MalwareScanner

CONSTANTS u1, u2, t1, inA, inB, out, jail, jailB, n1, n2

Object(b, n, s) == [kind |-> "storage#object", name |-> n, bucket |-> b, size |-> s]

OneEntry == <<[unscanned |-> inA, clean |-> out, quarantined |-> jail]>>

(* Two unscanned buckets share the clean bucket; the last entry is hidden  *)
(* by the first.                                                           *)
ThreeEntries ==
    OneEntry \o <<[unscanned |-> inB, clean |-> out, quarantined |-> jailB],
                  [unscanned |-> inA, clean |-> jailB, quarantined |-> out]>>

(* Two documents with names of their own; t1 asks for the first.           *)
TwoNames == [r \in Request |->
    CASE r = u1 -> Object(inA, n1, "small")
      [] r = u2 -> Object(inB, n2, "NaN")
      [] r = t1 -> Object(inA, n1, "NaN")]

(* The same, but the second is too large.                                  *)
TwoNamesOneLarge ==
    [TwoNames EXCEPT ![u2] = Object(inB, n2, "large")]

(* u2 is written over u1, and t1 says nothing of the object.               *)
OneName == [r \in Request |->
    IF r = t1 THEN Object(inA, Missing, "NaN") ELSE Object(inA, n1, "small")]

AllButLast == {d \in Delivery : d[2] < MaxDeliveries}
FirstIsFaulty == {d \in Delivery : d[1] # u2}
=============================================================================
