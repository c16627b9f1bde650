------------------------- MODULE ScanMetricsProofs -------------------------
(***************************************************************************)
(* Proofs about ScanMetrics, for any configuration, sizes and numbers of   *)
(* records.  Totals are sound when their counts are numbers that agree row *)
(* by row, and this is kept by a record, by a report and by a sum of       *)
(* reports.                                                                *)
(***************************************************************************)
EXTENDS ScanMetrics, WellFoundedInduction, TLAPS

Agree(totals) ==
    \A row \in Row :
        totals["clean-files"][row] + totals["infected-files"][row] = totals["scan-duration"][row]

Sound(totals) ==
    /\ totals \in Totals
    /\ \A v \in Counts, row \in Row : totals[v][row] \in Nat
    /\ Agree(totals)

(* A row that a verdict can be recorded in: a bucket that is scanned and   *)
(* the destination of the entry that is found for it.                      *)
RowFor(row, type) ==
    \E b \in Bucket :
        Matches(Buckets, b) # {} /\ row = <<b, ConfigOf(Buckets, b)[type]>>

VerdictInv ==
    \A row \in Row :
        /\ data["clean-files"][row] # 0 => RowFor(row, "clean")
        /\ data["infected-files"][row] # 0 => RowFor(row, "quarantined")

(* The exporter is never ahead of the instance.                            *)
ReportInv == \A v \in View, row \in Row : Grows(reported[v][row], data[v][row])

MetricsInv ==
    /\ initialized \in BOOLEAN /\ records \in 0..MaxRecords
    /\ Sound(data) /\ Sound(reported) /\ Sound(past)
    /\ VerdictInv
    /\ ReportInv
-----------------------------------------------------------------------------
(* The entry of a bucket.                                                  *)

LEMMA FirstIndex ==
    ASSUME NEW S \in SUBSET Nat, S # {}
    PROVE  \E x \in S : \A y \in S : x <= y
<1> DEFINE Less == {ss \in Nat \X Nat : ss[1] < ss[2]}
<1>1. PICK x \in S : \A y \in S : <<y, x>> \notin Less
    <2>1. IsWellFoundedOn(Less, Nat)
        BY NatLessThanWellFounded DEF OpToRel
    <2> HIDE DEF Less
    <2>2. QED
        BY <2>1, WFMin
<1>2. ASSUME NEW y \in S, y < x PROVE FALSE
    <2>1. <<y, x>> \in Nat \X Nat /\ <<y, x>>[1] < <<y, x>>[2]
        BY <1>2
    <2>2. <<y, x>> \in Less
        BY <2>1
    <2>3. QED
        BY <1>1, <2>2
<1>3. QED
    BY <1>2

(* The entry that is found for a bucket scans it, and has two different    *)
(* destinations.                                                           *)
LEMMA EntryFound ==
    ASSUME MetricsAssumption, NEW b, Matches(Buckets, b) # {}
    PROVE  /\ ConfigOf(Buckets, b).unscanned = b
           /\ ConfigOf(Buckets, b).clean # ConfigOf(Buckets, b).quarantined
<1>1. Matches(Buckets, b) \in SUBSET Nat
    BY DEF MetricsAssumption, Matches
<1>2. \E x \in Matches(Buckets, b) : \A y \in Matches(Buckets, b) : x <= y
    BY <1>1, FirstIndex
<1>3. PICK x \in Matches(Buckets, b) : ConfigOf(Buckets, b) = Buckets[x]
    BY <1>2 DEF ConfigOf
<1>4. x \in DOMAIN Buckets /\ Buckets[x].unscanned = b
    BY DEF Matches
<1>5. NamesUnique(Buckets[x])
    BY <1>4 DEF MetricsAssumption
<1>6. QED
    BY <1>3, <1>4, <1>5 DEF NamesUnique, BucketType

(* No row is for both verdicts.                                            *)
LEMMA RowsApart ==
    ASSUME MetricsAssumption, NEW row
    PROVE  ~(RowFor(row, "clean") /\ RowFor(row, "quarantined"))
BY EntryFound DEF RowFor
-----------------------------------------------------------------------------
(* Adding to totals.                                                       *)

LEMMA PlusTotal ==
    ASSUME MetricsAssumption, NEW m \in Total, NEW n \in Total
    PROVE  /\ Plus(m, n) \in Total
           /\ m \in Nat /\ n \in Nat => Plus(m, n) = m + n
BY DEF MetricsAssumption, Plus, Total

LEMMA PlusGrows ==
    ASSUME MetricsAssumption, NEW m \in Total, NEW n \in Total
    PROVE  /\ Grows(m, Plus(m, n)) /\ Grows(m, m)
           /\ m \in Nat => Grows(m, m + 1)
           /\ \A k \in Total : Grows(m, n) => Grows(Plus(k, m), Plus(k, n))
BY DEF MetricsAssumption, Plus, Grows, Total

LEMMA AddedTotal ==
    ASSUME NEW totals \in Totals, NEW M, NEW place, NEW v \in View, NEW row \in Row
    PROVE  Add(totals, M, place)[v][row] =
                IF v \in DOMAIN M /\ row = place
                THEN Aggregate(v, totals[v][row], M[v]) ELSE totals[v][row]
BY DEF Add, Totals

(* What may be recorded: every verdict with a duration and no duration     *)
(* without a verdict, in a row for that verdict.                           *)
Recordable(M, place) ==
    /\ DOMAIN M \subseteq View
    /\ \A v \in DOMAIN M : M[v] \in Int \cup {NaN}
    /\ "scan-duration" \in DOMAIN M <=> {"clean-files", "infected-files"} \cap DOMAIN M # {}
    /\ ~({"clean-files", "infected-files"} \subseteq DOMAIN M)
    /\ "clean-files" \in DOMAIN M => RowFor(place, "clean")
    /\ "infected-files" \in DOMAIN M => RowFor(place, "quarantined")

LEMMA AggregateTotal ==
    ASSUME MetricsAssumption, NEW v \in View, NEW total \in Total, NEW value \in Int \cup {NaN},
           v \in Counts => total \in Nat, ~Negative(value)
    PROVE  /\ Aggregate(v, total, value) \in Total
           /\ v \in Counts => Aggregate(v, total, value) = total + 1
           /\ Grows(total, Aggregate(v, total, value))
<1>1. value \in Total
    BY DEF MetricsAssumption, Total, Negative
<1>2. CASE v \in Counts
    <2>1. Aggregate(v, total, value) = total + 1 /\ total + 1 \in Nat
        BY <1>2 DEF Aggregate
    <2>2. QED
        BY <1>2, <2>1, PlusGrows DEF Total
<1>3. CASE v \notin Counts
    <2>1. Aggregate(v, total, value) = Plus(total, value)
        BY <1>3 DEF Aggregate
    <2>2. QED
        BY <1>1, <1>3, <2>1, PlusTotal, PlusGrows
<1>4. QED
    BY <1>2, <1>3

LEMMA AddSound ==
    ASSUME MetricsAssumption, NEW totals, Sound(totals), NEW M, NEW place,
           Recordable(M, place), \A v \in DOMAIN M : ~Negative(M[v])
    PROVE  /\ Sound(Add(totals, M, place))
           /\ \A v \in View, row \in Row :
                Grows(totals[v][row], Add(totals, M, place)[v][row])
<1> DEFINE after == Add(totals, M, place)
           hit(v, row) == v \in DOMAIN M /\ row = place
<1>1. totals \in Totals /\ \A v \in View, row \in Row : totals[v][row] \in Total
    BY DEF Sound, Totals
<1>2. ASSUME NEW v \in View, NEW row \in Row
      PROVE  /\ after[v][row] \in Total
             /\ v \in Counts => after[v][row] = totals[v][row] + (IF hit(v, row) THEN 1 ELSE 0)
             /\ Grows(totals[v][row], after[v][row])
    <2>1. totals[v][row] \in Total /\ (v \in Counts => totals[v][row] \in Nat)
        BY <1>1 DEF Sound
    <2>2. CASE hit(v, row)
        <3>1. after[v][row] = Aggregate(v, totals[v][row], M[v])
            BY <1>1, <2>2, AddedTotal
        <3>2. M[v] \in Int \cup {NaN} /\ ~Negative(M[v])
            BY <2>2 DEF Recordable
        <3> HIDE DEF after
        <3>3. QED
            BY <2>1, <2>2, <3>1, <3>2, AggregateTotal
    <2>3. CASE ~hit(v, row)
        <3>1. after[v][row] = totals[v][row]
            BY <1>1, <2>3, AddedTotal
        <3> HIDE DEF after
        <3>2. v \in Counts => totals[v][row] + 0 = totals[v][row]
            BY <2>1
        <3>3. QED
            BY <2>1, <2>3, <3>1, <3>2, PlusGrows
    <2>4. QED
        BY <2>2, <2>3
<1>3. after \in [View -> [Row -> Total]]
    <2>1. after = [v \in View |-> after[v]]
        BY DEF Add
    <2>2. ASSUME NEW v \in View PROVE after[v] \in [Row -> Total]
        <3>1. after[v] = [row \in Row |-> after[v][row]]
            BY <1>1 DEF Add, Totals
        <3> HIDE DEF after
        <3>2. QED
            BY <1>2, <3>1
    <2> HIDE DEF after
    <2>3. QED
        BY <2>1, <2>2
<1>4. \A v \in Counts, row \in Row : after[v][row] \in Nat
    <2> HIDE DEF after
    <2>1. QED
        BY <1>2 DEF Sound, View
<1>5. Agree(after)
    <2> SUFFICES ASSUME NEW row \in Row
                 PROVE  after["clean-files"][row] + after["infected-files"][row]
                            = after["scan-duration"][row]
        BY DEF Agree
    <2>1. /\ "clean-files" \in Counts /\ "infected-files" \in Counts /\ "scan-duration" \in Counts
          /\ Counts \subseteq View
        BY DEF Counts, View
    <2>2. /\ totals["clean-files"][row] \in Nat /\ totals["infected-files"][row] \in Nat
          /\ totals["clean-files"][row] + totals["infected-files"][row]
                = totals["scan-duration"][row]
        BY <2>1 DEF Sound, Agree
    <2>3. /\ hit("scan-duration", row) <=> hit("clean-files", row) \/ hit("infected-files", row)
          /\ ~(hit("clean-files", row) /\ hit("infected-files", row))
        BY DEF Recordable
    <2> HIDE DEF after, hit
    <2>4. QED
        BY <1>2, <2>1, <2>2, <2>3
<1>6. Sound(after)
    BY <1>3, <1>4, <1>5 DEF Sound, Totals
<1>7. QED
    BY <1>2, <1>6

(* Sums of sound totals are sound, and grow with what is added.            *)
LEMMA SumSound ==
    ASSUME MetricsAssumption, NEW t, NEW u, Sound(t), Sound(u)
    PROVE  /\ Sound(PlusTotals(t, u))
           /\ \A v \in View, row \in Row : PlusTotals(t, u)[v][row] = Plus(t[v][row], u[v][row])
<1> DEFINE sum == PlusTotals(t, u)
<1>1. \A v \in View, row \in Row :
        /\ sum[v][row] = Plus(t[v][row], u[v][row])
        /\ t[v][row] \in Total /\ u[v][row] \in Total
    BY DEF PlusTotals, Sound, Totals
<1>2. sum \in Totals
    <2>1. \A v \in View, row \in Row : Plus(t[v][row], u[v][row]) \in Total
        BY <1>1, PlusTotal
    <2>2. QED
        BY <2>1 DEF PlusTotals, Totals
<1> HIDE DEF sum
<1>3. \A v \in Counts, row \in Row :
        /\ t[v][row] \in Nat /\ u[v][row] \in Nat
        /\ sum[v][row] = t[v][row] + u[v][row]
    BY <1>1, PlusTotal DEF Sound, View
<1>4. Agree(sum)
    <2> SUFFICES ASSUME NEW row \in Row
                 PROVE  sum["clean-files"][row] + sum["infected-files"][row]
                            = sum["scan-duration"][row]
        BY DEF Agree
    <2>1. "clean-files" \in Counts /\ "infected-files" \in Counts /\ "scan-duration" \in Counts
        BY DEF Counts
    <2>2. /\ t["clean-files"][row] + t["infected-files"][row] = t["scan-duration"][row]
          /\ u["clean-files"][row] + u["infected-files"][row] = u["scan-duration"][row]
        BY DEF Sound, Agree
    <2>3. QED
        BY <1>3, <2>1, <2>2
<1>5. Sound(sum)
    BY <1>2, <1>3, <1>4 DEF Sound
<1>6. QED
    BY <1>1, <1>5 DEF sum

LEMMA ZeroSound == Sound(Zero)
<1>1. Zero \in Totals
    BY DEF Zero, Totals, Total
<1>2. \A v \in View, row \in Row : Zero[v][row] = 0
    BY DEF Zero
<1>3. QED
    BY <1>1, <1>2 DEF Sound, Agree, Counts, View
-----------------------------------------------------------------------------
(* What the handlers record.                                               *)

LEMMA CompletedRecords ==
    ASSUME MetricsAssumption, NEW b \in Bucket, Matches(Buckets, b) # {},
           NEW fileSize \in Sizes \cup {NaN}, Scanned(b, fileSize)
    PROVE  \E M, place : Recordable(M, place) /\ record(M, place)
<1>1. /\ ConfigOf(Buckets, b).unscanned = b
      /\ RowFor(<<b, ConfigOf(Buckets, b).clean>>, "clean")
      /\ RowFor(<<b, ConfigOf(Buckets, b).quarantined>>, "quarantined")
    BY EntryFound DEF RowFor
<1>2. fileSize \in Int \cup {NaN}
    BY DEF MetricsAssumption
<1>3. ASSUME NEW measure \in {"clean-files", "infected-files"}, NEW place,
             measure = "clean-files" => RowFor(place, "clean"),
             measure = "infected-files" => RowFor(place, "quarantined")
      PROVE  Recordable([v \in {measure, "bytes-scanned", "scan-duration"} |->
                            IF v = "bytes-scanned" THEN fileSize ELSE 1], place)
    <2> DEFINE M == [v \in {measure, "bytes-scanned", "scan-duration"} |->
                        IF v = "bytes-scanned" THEN fileSize ELSE 1]
    <2>1. DOMAIN M = {measure, "bytes-scanned", "scan-duration"}
        OBVIOUS
    <2>2. \A v \in DOMAIN M : M[v] \in Int \cup {NaN}
        BY <1>2
    <2> HIDE DEF M
    <2>3. DOMAIN M \subseteq View /\ measure \in {"clean-files", "infected-files"} \cap DOMAIN M
        BY <2>1 DEF View, Counts
    <2>4. /\ "scan-duration" \in DOMAIN M
          /\ "clean-files" \in DOMAIN M <=> measure = "clean-files"
          /\ "infected-files" \in DOMAIN M <=> measure = "infected-files"
        BY <2>1
    <2>5. Recordable(M, place)
        BY <1>3, <2>2, <2>3, <2>4 DEF Recordable
    <2>6. QED
        BY <2>5 DEF M
<1>4. CASE writeScanClean(b, ConfigOf(Buckets, b).clean, fileSize)
    BY <1>1, <1>3, <1>4 DEF writeScanClean, writeScanCompleted_
<1>5. CASE writeScanInfected(b, ConfigOf(Buckets, b).quarantined, fileSize)
    BY <1>1, <1>3, <1>5 DEF writeScanInfected, writeScanCompleted_
<1>6. QED
    BY <1>1, <1>4, <1>5 DEF Scanned

LEMMA HandlersRecord ==
    ASSUME MetricsAssumption, Handlers
    PROVE  \E M, place : Recordable(M, place) /\ record(M, place)
<1>1. ASSUME NEW view \in {"scans-failed", "cvd-mirror-updates"}, NEW place
      PROVE  Recordable([v \in {view} |-> 1], place)
    BY DEF Recordable, View, Counts
<1>2. ASSUME NEW bucket \in Bucket \cup {None}, writeScanFailed(bucket)
      PROVE  \E M, place : Recordable(M, place) /\ record(M, place)
    BY <1>1, <1>2 DEF writeScanFailed
<1>3. ASSUME NEW success \in BOOLEAN, NEW isUpdated \in BOOLEAN,
             writeCvdMirrorUpdated(success, isUpdated)
      PROVE  \E M, place : Recordable(M, place) /\ record(M, place)
    BY <1>1, <1>3 DEF writeCvdMirrorUpdated
<1>4. QED
    BY <1>2, <1>3, CompletedRecords DEF Handlers
-----------------------------------------------------------------------------
(* The invariant.                                                          *)

LEMMA RecordKeepsInv ==
    ASSUME MetricsAssumption, MetricsInv, NEW M, NEW place,
           Recordable(M, place), record(M, place)
    PROVE  MetricsInv' /\ \A v \in View, row \in Row : Grows(data[v][row], data'[v][row])
<1>1. /\ data' = Add(data, M, place) /\ records' = records + 1 /\ records < MaxRecords
      /\ UNCHANGED <<initialized, reported, past>>
      /\ \A v \in DOMAIN M : ~Negative(M[v])
    BY DEF record
<1>2. Sound(data') /\ \A v \in View, row \in Row : Grows(data[v][row], data'[v][row])
    BY <1>1, AddSound DEF MetricsInv
<1>3. VerdictInv'
    <2>1. ASSUME NEW v \in View, NEW row \in Row
          PROVE  data'[v][row] # data[v][row] => v \in DOMAIN M /\ row = place
        BY <1>1, AddedTotal DEF MetricsInv, Sound
    <2>2. "clean-files" \in View /\ "infected-files" \in View
        BY DEF View, Counts
    <2>3. \A row \in Row :
            /\ data'["clean-files"][row] # data["clean-files"][row] => RowFor(row, "clean")
            /\ data'["infected-files"][row] # data["infected-files"][row]
                    => RowFor(row, "quarantined")
        BY <2>1, <2>2 DEF Recordable
    <2>4. \A row \in Row :
            /\ data'["clean-files"][row] # 0 => RowFor(row, "clean")
            /\ data'["infected-files"][row] # 0 => RowFor(row, "quarantined")
        BY <2>3 DEF MetricsInv, VerdictInv
    <2>5. QED
        BY <2>4 DEF VerdictInv, RowFor
<1>4. ReportInv'
    <2>1. \A v \in View, row \in Row :
            Grows(reported[v][row], data[v][row]) /\ Grows(data[v][row], data'[v][row])
        BY <1>2 DEF MetricsInv, ReportInv
    <2>2. \A v \in View, row \in Row :
            reported[v][row] \in Total /\ data[v][row] \in Total /\ data'[v][row] \in Total
        BY <1>2 DEF MetricsInv, Sound, Totals
    <2>3. \A k, m, n \in Total : Grows(k, m) /\ Grows(m, n) => Grows(k, n)
        BY DEF Grows, Total, MetricsAssumption
    <2>4. \A v \in View, row \in Row : Grows(reported[v][row], data'[v][row])
        BY <2>1, <2>2, <2>3
    <2>5. QED
        BY <1>1, <2>4 DEF ReportInv
<1>5. records' \in 0..MaxRecords
    BY <1>1 DEF MetricsAssumption, MetricsInv
<1>6. Sound(reported') /\ Sound(past') /\ initialized' \in BOOLEAN
    BY <1>1 DEF MetricsInv
<1>7. MetricsInv'
    BY <1>2, <1>3, <1>4, <1>5, <1>6 DEF MetricsInv, Sound, Agree
<1>8. QED
    BY <1>2, <1>7

LEMMA InitMetrics ==
    ASSUME MetricsAssumption, Init
    PROVE  MetricsInv
<1>1. \A v \in View, row \in Row : Zero[v][row] = 0
    BY DEF Zero
<1>2. "clean-files" \in View /\ "infected-files" \in View
    BY DEF View, Counts
<1>3. VerdictInv /\ ReportInv
    BY <1>1, <1>2 DEF Init, VerdictInv, ReportInv, Grows
<1>4. QED
    <2>1. 0 \in 0..MaxRecords /\ FALSE \in BOOLEAN
        BY DEF MetricsAssumption
    <2>2. QED
        BY <1>3, <2>1, ZeroSound DEF Init, MetricsInv

LEMMA NextMetrics ==
    ASSUME MetricsAssumption, MetricsInv, [Next]_vars
    PROVE  MetricsInv'
<1>1. CASE initMetrics
    BY <1>1 DEF initMetrics, MetricsInv, Sound, Agree, VerdictInv, ReportInv, RowFor
<1>2. CASE Handlers
    BY <1>2, HandlersRecord, RecordKeepsInv
<1>3. CASE Export
    <2>1. reported' = data /\ UNCHANGED <<initialized, data, past, records>>
        BY <1>3 DEF Export
    <2>2. \A v \in View, row \in Row : Grows(data[v][row], data[v][row])
        BY PlusGrows DEF MetricsInv, Sound, Totals
    <2>3. QED
        BY <2>1, <2>2 DEF MetricsInv, Sound, Agree, VerdictInv, ReportInv, RowFor
<1>4. CASE Restart
    <2>1. /\ initialized' = FALSE /\ records' = records
          /\ past' = PlusTotals(past, reported) /\ data' = Zero /\ reported' = Zero
        BY <1>4 DEF Restart
    <2>2. Sound(past') /\ Sound(data') /\ Sound(reported')
        BY <2>1, ZeroSound, SumSound DEF MetricsInv
    <2>3. \A v \in View, row \in Row : data'[v][row] = 0 /\ reported'[v][row] = 0
        BY <2>1 DEF Zero
    <2>4. "clean-files" \in View /\ "infected-files" \in View
        BY DEF View, Counts
    <2>5. VerdictInv' /\ ReportInv'
        BY <2>3, <2>4 DEF VerdictInv, ReportInv, Grows
    <2>6. QED
        BY <2>1, <2>2, <2>5 DEF MetricsInv, Sound, Agree
<1>5. CASE UNCHANGED vars
    BY <1>5 DEF vars, MetricsInv, Sound, Agree, VerdictInv, ReportInv, RowFor
<1>6. QED
    BY <1>1, <1>2, <1>3, <1>4, <1>5 DEF Next

LEMMA MetricsInvariant ==
    ASSUME MetricsAssumption
    PROVE  Spec => []MetricsInv
<1>1. Init => MetricsInv
    BY InitMetrics
<1>2. MetricsInv /\ [Next]_vars => MetricsInv'
    BY NextMetrics
<1>3. QED
    BY <1>1, <1>2, PTL DEF Spec
-----------------------------------------------------------------------------

(* No record makes a total that is not one: the sum of the bytes is a      *)
(* number or NaN, all counts are numbers.                                  *)
THEOREM MetricsTypeCorrect == Spec => [](TypeOK /\ \A v \in Counts, row \in Row : data[v][row] \in Nat)
<1>1. MetricsInv => TypeOK /\ \A v \in Counts, row \in Row : data[v][row] \in Nat
    BY DEF MetricsInv, Sound, TypeOK
<1>2. QED
    BY <1>1, MetricsInvariant, MetricsAssumption, PTL

(* writeScanCompletedMetric_ (metrics.js 79) writes a verdict and its      *)
(* duration in one record: what monitoring shows of the verdicts adds up   *)
(* to the durations, whenever instances report and end.                    *)
THEOREM VerdictsHaveDurations == Spec => []ScansAgree
<1>1. MetricsInv => ScansAgree
    BY SumSound, MetricsAssumption DEF MetricsInv, Sound, Agree, ScansAgree, Shown
<1>2. QED
    BY <1>1, MetricsInvariant, MetricsAssumption, PTL

(* The tags that server.js passes tell the verdict, for every verified     *)
(* configuration, also where entries share buckets.                        *)
THEOREM TagsTellVerdict == Spec => []RowsHaveOneVerdict
<1>1. MetricsInv => RowsHaveOneVerdict
    BY RowsApart, MetricsAssumption DEF MetricsInv, VerdictInv, RowsHaveOneVerdict
<1>2. QED
    BY <1>1, MetricsInvariant, MetricsAssumption, PTL

(* Monitoring sees totals that only grow, though instances restart from    *)
(* nothing and the size of a request may be negative.                      *)
THEOREM TotalsOnlyGrow == Spec => ShownNeverFalls
<1>1. ASSUME MetricsInv, MetricsInv', [Next]_vars
      PROVE  [\A v \in View, row \in Row : Grows(Shown[v][row], Shown'[v][row])]_vars
    <2> SUFFICES ASSUME Next, NEW v \in View, NEW row \in Row
                 PROVE  Grows(Shown[v][row], Shown'[v][row])
        BY <1>1
    <2>1. /\ Shown[v][row] = Plus(past[v][row], reported[v][row])
          /\ Shown'[v][row] = Plus(past'[v][row], reported'[v][row])
        BY <1>1, SumSound, MetricsAssumption DEF Shown, MetricsInv
    <2>2. /\ past[v][row] \in Total /\ reported[v][row] \in Total /\ data[v][row] \in Total
          /\ Shown[v][row] \in Total
        BY <1>1, <2>1, PlusTotal, MetricsAssumption DEF MetricsInv, Sound, Totals
    <2>3. CASE UNCHANGED <<past, reported>>
        <3>1. Shown'[v][row] = Shown[v][row]
            BY <2>1, <2>3
        <3>2. QED
            BY <2>2, <3>1, PlusGrows, MetricsAssumption
    <2>4. CASE Export
        <3>1. past' = past /\ reported' = data
            BY <2>4 DEF Export
        <3>2. Grows(reported[v][row], data[v][row])
            BY <1>1 DEF MetricsInv, ReportInv
        <3>3. QED
            BY <2>1, <2>2, <3>1, <3>2, PlusGrows, MetricsAssumption
    <2>5. CASE Restart
        <3>1. past' = Shown /\ reported'[v][row] = 0
            BY <2>5 DEF Restart, Shown, Zero
        <3>2. Shown'[v][row] = Plus(Shown[v][row], 0)
            BY <2>1, <3>1
        <3>3. QED
            BY <2>2, <3>2, PlusGrows, MetricsAssumption DEF Total
    <2>6. initMetrics \/ Handlers => UNCHANGED <<past, reported>>
        BY HandlersRecord, MetricsAssumption DEF initMetrics, record
    <2>7. QED
        BY <2>3, <2>4, <2>5, <2>6 DEF Next
<1>2. QED
    BY <1>1, MetricsInvariant, MetricsAssumption, PTL DEF Spec, ShownNeverFalls
=============================================================================
