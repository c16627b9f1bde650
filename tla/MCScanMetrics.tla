--------------------------- MODULE MCScanMetrics ---------------------------
(***************************************************************************)
(* Two entries that share their destinations crosswise, and a third one    *)
(* that is hidden by the first.                                            *)
(***************************************************************************)
EXTENDS ScanMetrics

CONSTANTS inA, inB, out, jail

EntryOf(u, c, q) == [unscanned |-> u, clean |-> c, quarantined |-> q]

SomeSizes == {0, 2, -1}

CrossedEntries ==
    <<EntryOf(inA, out, jail), EntryOf(inB, jail, out), EntryOf(inA, jail, out)>>
=============================================================================
