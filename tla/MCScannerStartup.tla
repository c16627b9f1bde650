-------------------------- MODULE MCScannerStartup --------------------------
(***************************************************************************)
(* Configurations for ScannerStartup: sound ones, with two entries that    *)
(* share a bucket, with a name that is used twice or missing, and without  *)
(* buckets.                                                                *)
(***************************************************************************)
EXTENDS ScannerStartup

CONSTANTS in, out, jail, cvd

EntryOf(u, c, q) == [unscanned |-> u, clean |-> c, quarantined |-> q]

ConfigWith(entries, mirror) == [buckets |-> entries, ClamCvdMirrorBucket |-> mirror]

SomeConfigs ==
    {ConfigWith(entries, cvd) : entries \in
        {<<>>,
         <<EntryOf(in, out, jail)>>,
         <<EntryOf(in, out, jail), EntryOf(out, in, jail)>>,
         <<EntryOf(in, out, out), EntryOf(in, out, jail)>>,
         <<EntryOf(in, Missing, jail)>>}}
    \cup {ConfigWith(<<EntryOf(in, out, jail)>>, Missing)}
=============================================================================
