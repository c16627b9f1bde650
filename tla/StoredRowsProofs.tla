-------------------------- MODULE StoredRowsProofs --------------------------
(***************************************************************************)
(* What is true of the rows an import stores: they come from files the     *)
(* validator accepted, and each names a manufacturer that is stored unless *)
(* the organisations API took its name away.  With one execution at a time *)
(* they are of one file; and while that API is quiet, no name is stored    *)
(* twice and the file decides how its import ends.  All are added to the   *)
(* invariant of ComplianceImportProofs.                                    *)
(***************************************************************************)
EXTENDS ComplianceImportProofs

Clean(r) == LinesOfKind(r, "badVin") \cup LinesOfKind(r, "unreadable") = {}

(* A file that passed the validator has no line it should refuse ...       *)
CleanAt(r) ==
    pc[r] \in {"begin"} \cup Chunking \/ txn[r] = "committed" => Clean(r)

(* ... the makers of the chunk are visible or were taken away, or they are *)
(* listed to be saved ...                                                  *)
HeardOf(r) == VisibleNames(r) \cup formerNames
ToBeKnown(r) == HeardOf(r) \cup Names(temporary[r])

MakersAt(r) ==
    /\ pc[r] = "save" => \A i \in stack[r] : Line(r, i).mh \in ToBeKnown(r)
    /\ pc[r] = "insert" => \A i \in pending[r] : Line(r, i).mh \in HeardOf(r)
    /\ \A v \in newVehicles[r] : v.mh \in HeardOf(r)

(* ... and so are those of the rows that are committed.                    *)
Checked == \A r \in Run : CleanAt(r)
Known == VehiclesHaveManufacturer /\ \A r \in Run : MakersAt(r)

-----------------------------------------------------------------------------
(* The validator.  It stops at the error cap, so that the lines after the  *)
(* last error it collects are never looked at; but the first line that the *)
(* VIN rule rejects is always reached, because ErrorCap is positive, and if*)
(* there is none then every line is.                                       *)

(* A set of positive numbers has a least one: among the intervals that end *)
(* at a member, strict inclusion has a minimum.                            *)
LEMMA LeastMember ==
    ASSUME NEW S \in SUBSET (Nat \ {0}), S # {}
    PROVE  \E m \in S : \A i \in S : m <= i
  <1> DEFINE T == {1..i : i \in S}
  <1>1. T \subseteq FiniteSubsetsOf(Nat) /\ T # {}
    <2>1. \A i \in S : 1..i \subseteq Nat /\ IsFiniteSet(1..i)
      BY FS_Interval
    <2> QED BY <2>1 DEF FiniteSubsetsOf
  <1>2. IsWellFoundedOn(StrictSubsetOrdering(Nat), FiniteSubsetsOf(Nat))
    BY FS_StrictSubsetOrderingWellFounded
  <1> HIDE DEF T
  <1>3. PICK t \in T : \A u \in T : <<u, t>> \notin StrictSubsetOrdering(Nat)
    BY <1>1, <1>2, WFMin
  <1>4. PICK m \in S : t = 1..m
    BY <1>3 DEF T
  <1>5. ASSUME NEW i \in S, i < m PROVE FALSE
    <2>1. 1..i \in T /\ 1..i \subseteq Nat /\ 1..m \subseteq Nat
      BY DEF T
    <2>2. 1..i \subseteq 1..m /\ 1..i # 1..m
      BY <1>5
    <2>3. <<1..i, t>> \in StrictSubsetOrdering(Nat)
      BY <1>4, <2>1, <2>2 DEF StrictSubsetOrdering
    <2> QED BY <1>3, <2>1, <2>3
  <1> QED BY <1>5

LEMMA ValidatorIsSound ==
    ASSUME NEW r \in Run, HasFile(r),
           ValidationErrors(r) = {}, ~ValidationThrows(r)
    PROVE  Clean(r)
  <1> DEFINE bad == LinesOfKind(r, "badVin")
  <1>1. bad \in SUBSET (Nat \ {0}) /\ bad \subseteq 1..Len(Lines(r))
    BY LinesAreRecords DEF LinesOfKind
  <1>2. ASSUME NEW i, \A j \in bad : ~(j < i) PROVE Reached(r, i)
    <2>1. {j \in bad : j < i} = {}
      BY <1>2
    <2>2. Cardinality({j \in bad : j < i}) = 0
      BY <2>1, FS_EmptySet, Zenon
    <2>3. 0 < ErrorCap
      BY FileAssumption
    <2> QED BY <2>2, <2>3 DEF Reached
  <1>3. bad = {}
    <2> SUFFICES ASSUME bad # {} PROVE FALSE
      OBVIOUS
    <2> HIDE DEF bad
    <2>1. PICK m \in bad : \A i \in bad : m <= i
      BY <1>1, LeastMember
    <2>2. \A j \in bad : ~(j < m)
      <3>1. m \in Nat /\ \A j \in bad : j \in Nat
        BY <1>1, <2>1
      <3> QED BY <2>1, <3>1
    <2>3. Reached(r, m)
      BY <1>2, <2>2
    <2> QED BY <2>1, <2>3 DEF ValidationErrors, bad
  <1>4. LinesOfKind(r, "unreadable") = {}
    BY <1>2, <1>3 DEF ValidationThrows
  <1> QED BY <1>3, <1>4 DEF Clean

LEMMA SameLines ==
    ASSUME NEW s \in Run, request'[s] = request[s]
    PROVE  /\ Clean(s)' = Clean(s)
           /\ \A i : Line(s, i)' = Line(s, i)
  BY DEF Clean, LinesOfKind, Line, Lines

(* Only Accept writes the request.                                         *)
LEMMA KeepsRequest ==
    ASSUME NEW r \in Run, Act(r), pc[r] # "idle"
    PROVE  request' = request
  BY DEF Act, Accept, Step, Prepare, ProcessChunks, Conclude, CreateProcess,
         StartProcess, ReadFileName, TruncateVehicles, VacuumDatabase,
         DownloadFileFromStorage, ValidateFile, HandleValidationErrors,
         BeginTransaction, ReadRecord, EndOfFile, ApplyRules, SaveManufacturers,
         InsertVehicle, EndOfChunk, CommitTransaction, RollbackTransaction,
         FinishProcess, FailProcess, Respond, SaveProcess, AbortWaiter,
         DatabaseFault, Crash, DeleteProcess, Goto, local

(* ValidateFile is the only way to where rows are stored.                  *)
LEMMA OnlyThroughValidator ==
    ASSUME IInv, NEW r \in Run, Act(r), ~ValidateFile(r),
           pc'[r] \in {"begin"} \cup Chunking \/ txn'[r] = "committed"
    PROVE  pc[r] \in {"begin"} \cup Chunking \/ txn[r] = "committed"
  <1>1. CASE pc'[r] \in {"begin"} \cup Chunking
    BY <1>1 DEF IInv, TypeInv, TypeOK, Act, Accept, Step, Prepare, ProcessChunks,
         Conclude, CreateProcess,
         StartProcess, ReadFileName, TruncateVehicles, VacuumDatabase,
         DownloadFileFromStorage, HandleValidationErrors,
         BeginTransaction, ReadRecord, EndOfFile, ApplyRules, SaveManufacturers,
         InsertVehicle, EndOfChunk, CommitTransaction, RollbackTransaction,
         FinishProcess, FailProcess, Respond, SaveProcess, AbortWaiter,
         DatabaseFault, Crash, DeleteProcess, Goto, Raise, Chunking
  <1>2. CASE txn'[r] = "committed"
    <2>1. CASE CommitTransaction(r)
      BY <2>1 DEF CommitTransaction, Chunking
    <2>2. CASE ~CommitTransaction(r)
      BY <1>2, <2>2, SamePublished DEF IInv, Published
    <2> QED BY <2>1, <2>2
  <1> QED BY <1>1, <1>2

LEMMA CheckedStep == IInv /\ Checked /\ [Next]_vars => Checked'
  <1> SUFFICES ASSUME IInv, Checked, [Next]_vars, NEW s \in Run
               PROVE  CleanAt(s)'
    BY DEF Checked
  <1>1. CleanAt(s)
    BY DEF Checked
  <1>2. CASE Quiet
    <2>1. UNCHANGED <<request, pc, txn>>
      BY <1>2 DEF Quiet, local, transaction
    <2> QED BY <1>1, <2>1, SameLines DEF CleanAt
  <1>3. ASSUME NEW r \in Run, Act(r) PROVE CleanAt(s)'
    <2>1. CASE s # r
      BY <1>1, <1>3, <2>1, OnlyOwn, SameLines DEF CleanAt, Same, IInv, TypeInv
    <2>2. CASE s = r /\ ValidateFile(r)
      <3>1. HasFile(r) /\ request' = request /\ pc[r] = "validate"
        BY <2>2 DEF ValidateFile, IInv, TypeInv, Requests, RequestAt, local
      <3>2. txn[r] = "none" /\ (txn'[r] = "none" \/ txn'[r] = "rolledback")
        BY <2>2, <3>1 DEF ValidateFile, Raise, Abandon, transaction, IInv, Control,
                          TransactionAt, Before, TypeInv, TypeOK
      <3>3. pc'[r] \in {"begin"} \cup Chunking =>
               ValidationErrors(r) = {} /\ ~ValidationThrows(r)
        BY <2>2 DEF ValidateFile, Raise, IInv, TypeInv, TypeOK, Chunking
      <3> QED BY <2>2, <3>1, <3>2, <3>3, ValidatorIsSound, SameLines DEF CleanAt
    <2>3. CASE s = r /\ ~ValidateFile(r)
      <3>1. SUFFICES ASSUME pc'[r] \in {"begin"} \cup Chunking \/ txn'[r] = "committed"
                     PROVE  Clean(r)'
        BY <2>3 DEF CleanAt
      <3>2. pc[r] \in {"begin"} \cup Chunking \/ txn[r] = "committed"
        BY <1>3, <2>3, <3>1, OnlyThroughValidator
      <3>3. pc[r] # "idle"
        BY <3>2 DEF IInv, Control, TransactionAt, Chunking
      <3> QED BY <1>1, <1>3, <2>3, <3>2, <3>3, KeepsRequest, SameLines DEF CleanAt
    <2> QED BY <2>1, <2>2, <2>3
  <1> QED BY <1>2, <1>3, QuietSteps DEF Next, Act

LEMMA CheckedAlways == Spec => []Checked
  <1>1. Init => Checked
    BY DEF Init, Checked, CleanAt, Chunking
  <1> QED BY Invariance, CheckedStep, <1>1, PTL DEF Spec

(* No row of a file with a line the validator should refuse is ever stored,*)
(* although CsvValidatorService stops reading at its error cap.            *)
THEOREM StoredFilesAreValid == Spec => []OnlyValidFilesStored
  <1>1. Checked => OnlyValidFilesStored
    BY DEF Checked, CleanAt, Clean, OnlyValidFilesStored
  <1> QED BY CheckedAlways, <1>1, PTL
-----------------------------------------------------------------------------
(* The manufacturers.  A name once stored stays, or is remembered as taken *)
(* away: so what an execution saw when it looked its makers up still holds *)
(* when it inserts and commits.                                            *)

LEMMA NamesStay ==
    ASSUME NEW r \in Run, Act(r)
    PROVE  /\ Names(manufacturers) \subseteq Names(manufacturers)'
           /\ formerNames' = formerNames
  <1>1. manufacturers \subseteq manufacturers' /\ formerNames' = formerNames
    BY DEF Act, Accept, Step, Prepare, ProcessChunks, Conclude, CreateProcess,
         StartProcess, ReadFileName, TruncateVehicles, VacuumDatabase,
         DownloadFileFromStorage, ValidateFile, HandleValidationErrors,
         BeginTransaction, ReadRecord, EndOfFile, ApplyRules, SaveManufacturers,
         InsertVehicle, EndOfChunk, CommitTransaction, RollbackTransaction,
         FinishProcess, FailProcess, Respond, SaveProcess, AbortWaiter,
         DatabaseFault, Crash, DeleteProcess, database
  <1> QED BY <1>1 DEF Names

LEMMA HeardStays ==
    ASSUME NEW r \in Run, Act(r), NEW s \in Run, newMakers'[s] = newMakers[s]
    PROVE  HeardOf(s) \subseteq HeardOf(s)'
  <1>1. VisibleNames(s) = Names(manufacturers) \cup Names(newMakers[s])
    BY DEF VisibleNames, Names
  <1>2. VisibleNames(s)' = Names(manufacturers)' \cup Names(newMakers[s])
    BY DEF VisibleNames, Names
  <1> QED BY <1>1, <1>2, NamesStay DEF HeardOf

(* What the organisations API takes away.                                  *)
LEMMA NamesAreRemembered ==
    ASSUME OrganisationsApi
    PROVE  Names(manufacturers) \cup formerNames
               \subseteq Names(manufacturers)' \cup formerNames'
  <1> SUFFICES ASSUME NEW m \in manufacturers, m.name \notin formerNames'
               PROVE  m \in manufacturers' /\ formerNames \subseteq formerNames'
    BY DEF Names, OrganisationsApi, CreateManufacturer, DeleteManufacturer,
           UpdateManufacturer
  <1> QED
    BY DEF OrganisationsApi, CreateManufacturer, DeleteManufacturer, UpdateManufacturer

(* The makers of the execution that takes the step.                        *)
LEMMA OwnMakers ==
    ASSUME IInv, NEW r \in Run, MakersAt(r), Act(r)
    PROVE  MakersAt(r)'
  <1> USE DEF IInv, TypeInv, TypeOK
  <1>1. ASSUME newVehicles'[r] = {}, pc'[r] \notin {"save", "insert"}
        PROVE  MakersAt(r)'
    BY <1>1 DEF MakersAt
  <1>2. ASSUME UNCHANGED <<newVehicles, newMakers>>, pc'[r] \notin {"save", "insert"}
        PROVE  MakersAt(r)'
    <2>1. HeardOf(r) \subseteq HeardOf(r)'
      BY <1>2, HeardStays
    <2> QED BY <1>2, <2>1 DEF MakersAt
  <1>3. CASE Accept(r)
    BY <1>2, <1>3 DEF Accept, Goto, transaction
  <1>4. CASE Prepare(r)
    <2>1. pc'[r] \notin {"save", "insert"}
      BY <1>4 DEF Prepare, CreateProcess, StartProcess, ReadFileName, TruncateVehicles,
                  VacuumDatabase, DownloadFileFromStorage, ValidateFile,
                  HandleValidationErrors, SaveProcess, Raise, Goto
    <2>2. newVehicles'[r] = {} \/ UNCHANGED <<newVehicles, newMakers>>
      BY <1>4 DEF Prepare, CreateProcess, StartProcess, ReadFileName, TruncateVehicles,
                  VacuumDatabase, DownloadFileFromStorage, ValidateFile,
                  HandleValidationErrors, SaveProcess, Raise, Abandon, transaction
    <2> QED BY <1>1, <1>2, <2>1, <2>2
  <1>5. CASE BeginTransaction(r) \/ ReadRecord(r) \/ EndOfFile(r) \/ EndOfChunk(r)
    BY <1>2, <1>5 DEF BeginTransaction, ReadRecord, EndOfFile, EndOfChunk, Goto, transaction
  <1>6. CASE ApplyRules(r)
    <2>1. /\ UNCHANGED <<request, stack, manufacturers, formerNames, newVehicles, newMakers>>
          /\ temporary'[r] = temporary[r] \cup MakersToAdd(r)
          /\ pc'[r] = "save"
      BY <1>6 DEF ApplyRules, Goto, database, transaction
    <2>2. ASSUME NEW i \in stack[r], Line(r, i).mh \notin VisibleNames(r)
          PROVE  Line(r, i).mh \in Names(MakersToAdd(r))
      <3> DEFINE m == [name |-> Line(r, i).mh, by |-> r, born |-> Line(r, i).mh]
      <3>1. m \in MakersToAdd(r)
        BY <2>2 DEF MakersToAdd
      <3> QED BY <3>1 DEF Names
    <2>3. HeardOf(r)' = HeardOf(r)
      BY <2>1 DEF HeardOf, VisibleNames, Names
    <2>4. \A i \in stack'[r] : Line(r, i)'.mh \in ToBeKnown(r)'
      BY <2>1, <2>2, <2>3, SameLines DEF ToBeKnown, HeardOf, Names
    <2> QED BY <2>1, <2>3, <2>4 DEF MakersAt
  <1>7. CASE SaveManufacturers(r)
    <2>1. CASE pc'[r] = "rollback"
      BY <1>2, <1>7, <2>1 DEF SaveManufacturers
    <2>2. CASE pc'[r] # "rollback"
      <3>1. /\ UNCHANGED <<request, manufacturers, formerNames, newVehicles>>
            /\ newMakers'[r] = newMakers[r] \cup temporary[r]
            /\ pending'[r] = stack[r]
            /\ pc[r] = "save" /\ pc'[r] = "insert"
        BY <1>7, <2>2 DEF SaveManufacturers, database
      <3>2. HeardOf(r)' = ToBeKnown(r)
        BY <3>1 DEF HeardOf, VisibleNames, ToBeKnown, Names
      <3> QED BY <3>1, <3>2, SameLines DEF MakersAt, ToBeKnown
    <2> QED BY <2>1, <2>2
  <1>8. CASE InsertVehicle(r)
    <2>1. CASE pc'[r] = "rollback"
      BY <1>2, <1>8, <2>1 DEF InsertVehicle
    <2>2. CASE pc'[r] # "rollback"
      <3>1. /\ UNCHANGED <<request, manufacturers, formerNames, newMakers>>
            /\ pc[r] = "insert" /\ pc'[r] = "insert"
        BY <1>8, <2>2 DEF InsertVehicle, database
      <3>2. PICK i \in pending[r] :
              /\ newVehicles'[r] = newVehicles[r] \cup {Row(r, i)}
              /\ pending'[r] = pending[r] \ {i}
        BY <1>8, <2>2 DEF InsertVehicle
      <3>3. HeardOf(r)' = HeardOf(r)
        BY <3>1 DEF HeardOf, VisibleNames, Names
      <3>4. Row(r, i).mh \in HeardOf(r)
        BY <3>1 DEF MakersAt, Row
      <3> QED BY <3>1, <3>2, <3>3, <3>4, SameLines DEF MakersAt
    <2> QED BY <2>1, <2>2
  <1>9. CASE CommitTransaction(r)
    BY <1>1, <1>9 DEF CommitTransaction
  <1>10. CASE RollbackTransaction(r) \/ Crash(r)
    BY <1>1, <1>10 DEF RollbackTransaction, Crash, Raise, Abandon
  <1>11. CASE Conclude(r) \/ AbortWaiter(r) \/ DatabaseFault(r)
    <2>1. pc'[r] \notin {"save", "insert"}
      BY <1>11 DEF Conclude, FinishProcess, FailProcess, Respond, SaveProcess,
                   AbortWaiter, DatabaseFault, Raise, Goto
    <2>2. newVehicles'[r] = {} \/ UNCHANGED <<newVehicles, newMakers>>
      BY <1>11 DEF Conclude, FinishProcess, FailProcess, Respond, SaveProcess,
                   AbortWaiter, DatabaseFault, Raise, Abandon, transaction
    <2> QED BY <1>1, <1>2, <2>1, <2>2
  <1>12. CASE DeleteProcess(r)
    <2>1. UNCHANGED <<pc, request, stack, pending, temporary, manufacturers,
                      formerNames, newVehicles, newMakers>>
      BY <1>12 DEF DeleteProcess, local, transaction
    <2>2. HeardOf(r)' = HeardOf(r) /\ ToBeKnown(r)' = ToBeKnown(r)
      BY <2>1 DEF HeardOf, VisibleNames, ToBeKnown, Names
    <2> QED BY <2>1, <2>2, SameLines DEF MakersAt
  <1> QED
    BY <1>3, <1>4, <1>5, <1>6, <1>7, <1>8, <1>9, <1>10, <1>11, <1>12
    DEF Act, Step, ProcessChunks

(* The makers of the others.                                               *)
LEMMA OthersMakers ==
    ASSUME IInv, NEW r \in Run, NEW s \in Run \ {r}, MakersAt(s), Act(r)
    PROVE  MakersAt(s)'
  <1>1. Same(s)
    BY OnlyOwn DEF IInv, TypeInv
  <1>2. temporary'[s] = temporary[s]
    BY DEF IInv, TypeInv, TypeOK, Act, Accept, Step, Prepare, ProcessChunks, Conclude,
         CreateProcess,
         StartProcess, ReadFileName, TruncateVehicles, VacuumDatabase,
         DownloadFileFromStorage, ValidateFile, HandleValidationErrors,
         BeginTransaction, ReadRecord, EndOfFile, ApplyRules, SaveManufacturers,
         InsertVehicle, EndOfChunk, CommitTransaction, RollbackTransaction,
         FinishProcess, FailProcess, Respond, SaveProcess, AbortWaiter,
         DatabaseFault, Crash, DeleteProcess, local
  <1>3. HeardOf(s) \subseteq HeardOf(s)'
    BY <1>1, HeardStays DEF Same
  <1>4. ToBeKnown(s) \subseteq ToBeKnown(s)'
    BY <1>2, <1>3 DEF ToBeKnown, Names
  <1>5. \A i : Line(s, i)' = Line(s, i)
    BY <1>1, SameLines DEF Same
  <1> QED BY <1>1, <1>3, <1>4, <1>5 DEF Same, MakersAt

(* A step of the organisations API takes away no name without a trace.     *)
LEMMA KnownApi ==
    ASSUME Known, OrganisationsApi
    PROVE  Known'
  <1>1. UNCHANGED <<vehicles, pc, request, stack, pending, temporary, newVehicles, newMakers>>
    BY DEF OrganisationsApi, local, transaction
  <1>2. \A s \in Run : HeardOf(s) \subseteq HeardOf(s)' /\ ToBeKnown(s) \subseteq ToBeKnown(s)'
    BY <1>1, NamesAreRemembered DEF HeardOf, ToBeKnown, VisibleNames, Names
  <1>3. \A s \in Run : \A i : Line(s, i)' = Line(s, i)
    BY <1>1, SameLines
  <1>4. VehiclesHaveManufacturer'
    BY <1>1, NamesAreRemembered DEF Known, VehiclesHaveManufacturer
  <1> QED BY <1>1, <1>2, <1>3, <1>4 DEF Known, MakersAt

LEMMA KnownStep == IInv /\ Known /\ [Next]_vars => Known'
  <1> SUFFICES ASSUME IInv, Known, [Next]_vars PROVE Known'
    OBVIOUS
  <1>1. CASE UNCHANGED vars
    BY <1>1 DEF Known, VehiclesHaveManufacturer, MakersAt, ToBeKnown, HeardOf, VisibleNames, Names,
                Line, Lines, vars, database, local, transaction
  <1>2. ASSUME NEW r \in Run, Act(r) PROVE Known'
    <2>1. ASSUME NEW s \in Run PROVE MakersAt(s)'
      BY <1>2, OwnMakers, OthersMakers DEF Known
    <2>2. VehiclesHaveManufacturer'
      <3>1. CASE vehicles' = vehicles \/ vehicles' = {}
        BY <1>2, <3>1, NamesStay DEF Known, VehiclesHaveManufacturer
      <3>2. CASE CommitTransaction(r) /\ vehicles' = vehicles \cup newVehicles[r]
        <4>1. HeardOf(r) = Names(manufacturers)' \cup formerNames'
          BY <3>2 DEF CommitTransaction, HeardOf, VisibleNames, Names
        <4>2. \A v \in newVehicles[r] : v.mh \in Names(manufacturers)' \cup formerNames'
          BY <4>1 DEF Known, MakersAt
        <4>3. \A v \in vehicles : v.mh \in Names(manufacturers)' \cup formerNames'
          BY <1>2, NamesStay DEF Known, VehiclesHaveManufacturer
        <4> QED BY <3>2, <4>2, <4>3 DEF VehiclesHaveManufacturer
      <3> QED BY <1>2, <3>1, <3>2, TableStep DEF IInv
    <2> QED BY <2>1, <2>2 DEF Known
  <1> QED BY <1>1, <1>2, KnownApi DEF Next, Act

LEMMA KnownAlways == Spec => []Known
  <1>1. Init => Known
    BY DatabaseAssumption DEF Init, Known, VehiclesHaveManufacturer, MakersAt, Names
  <1> QED BY Invariance, KnownStep, <1>1, PTL DEF Spec

(* Every stored vehicle names a manufacturer that is stored too, or whose  *)
(* name the organisations API deleted or replaced, however the executions  *)
(* that look names up, those that add them and that API interleave.        *)
THEOREM StoredVehiclesAreKnown == Spec => []VehiclesHaveManufacturer
  <1>1. Known => VehiclesHaveManufacturer
    BY DEF Known
  <1> QED BY KnownAlways, <1>1, PTL
-----------------------------------------------------------------------------
(* One execution at a time.  From its TRUNCATE to its COMMIT the table is  *)
(* empty, since no other execution is there to write to it.                *)

Alone == \A r, s \in Run : pc[r] \in Active /\ pc[s] \in Active => r = s

Emptied ==
    \A r \in Run :
        pc[r] \in (Before \ {"clear"}) \cup Chunking => vehicles = {}

OneAtATime == Serial => Alone /\ Emptied /\ TableHoldsOneFile

(* An execution becomes active only when it is accepted.                   *)
LEMMA ActiveStep ==
    ASSUME TypeInv, NEW r \in Run, Act(r), ~Accept(r), pc'[r] \in Active
    PROVE  pc[r] \in Active
  BY DEF TypeInv, TypeOK, Act, Step, Prepare, ProcessChunks, Conclude, CreateProcess,
         StartProcess, ReadFileName, TruncateVehicles, VacuumDatabase,
         DownloadFileFromStorage, ValidateFile, HandleValidationErrors,
         BeginTransaction, ReadRecord, EndOfFile, ApplyRules, SaveManufacturers,
         InsertVehicle, EndOfChunk, CommitTransaction, RollbackTransaction,
         FinishProcess, FailProcess, Respond, SaveProcess, AbortWaiter,
         DatabaseFault, Crash, DeleteProcess, Goto, Raise, Active, Before,
         Processing, Chunking, Ended

LEMMA AloneStep ==
    ASSUME TypeInv, Serial, Alone, NEW r \in Run, Act(r)
    PROVE  Alone'
  <1>1. \A s \in Run \ {r} : pc'[s] = pc[s]
    BY OnlyOwn DEF TypeInv, Same
  <1>2. CASE Accept(r)
    <2>1. \A s \in Run : pc[s] \notin Active
      BY <1>2 DEF Accept
    <2> QED BY <1>1, <2>1 DEF Alone
  <1>3. CASE ~Accept(r)
    BY <1>1, <1>3, ActiveStep DEF Alone
  <1> QED BY <1>2, <1>3

(* Only TruncateVehicles leads behind the TRUNCATE.                        *)
LEMMA EmptiedStep ==
    ASSUME TypeInv, Serial, Alone, Alone', Emptied, NEW r \in Run, Act(r)
    PROVE  Emptied'
  <1> DEFINE Behind == (Before \ {"clear"}) \cup Chunking
  <1>1. SUFFICES ASSUME NEW s \in Run, pc'[s] \in Behind PROVE vehicles' = {}
    BY DEF Emptied
  <1>2. CASE TruncateVehicles(r)
    BY <1>2 DEF TruncateVehicles
  <1>3. CASE ~TruncateVehicles(r)
    <2>1. CASE s # r
      <3>1. pc[s] \in Behind /\ pc'[s] \in Active /\ vehicles = {}
        BY <1>1, <2>1, OnlyOwn DEF TypeInv, Same, Emptied, Active, Processing
      <3>2. pc'[r] \notin Active /\ pc[r] \notin Active
        BY <2>1, <3>1 DEF Alone, Active, Processing
      <3>3. ~CommitTransaction(r)
        BY <3>2 DEF CommitTransaction, Active, Processing, Chunking
      <3> QED BY <1>3, <3>1, <3>3, TableStep
    <2>2. CASE s = r
      <3>1. pc[r] \in Behind
        BY <1>1, <1>3, <2>2
        DEF TypeInv, TypeOK, Act, Accept, Step, Prepare, ProcessChunks, Conclude,
         CreateProcess,
         StartProcess, ReadFileName, VacuumDatabase,
         DownloadFileFromStorage, ValidateFile, HandleValidationErrors,
         BeginTransaction, ReadRecord, EndOfFile, ApplyRules, SaveManufacturers,
         InsertVehicle, EndOfChunk, CommitTransaction, RollbackTransaction,
         FinishProcess, FailProcess, Respond, SaveProcess, AbortWaiter,
         DatabaseFault, Crash, DeleteProcess, Goto, Raise, Before, Chunking
      <3>2. ~CommitTransaction(r)
        BY <1>1, <2>2 DEF CommitTransaction, TypeInv, TypeOK, Before, Chunking
      <3> QED BY <1>3, <3>1, <3>2, TableStep DEF Emptied
    <2> QED BY <2>1, <2>2
  <1> QED BY <1>2, <1>3

LEMMA OneAtATimeStep == IInv /\ OneAtATime /\ [Next]_vars => OneAtATime'
  <1> SUFFICES ASSUME IInv, OneAtATime, [Next]_vars, Serial
               PROVE  (Alone /\ Emptied /\ TableHoldsOneFile)'
    BY DEF OneAtATime
  <1> TypeInv /\ Control /\ Alone /\ Emptied /\ TableHoldsOneFile
    BY DEF IInv, OneAtATime
  <1>1. CASE Quiet
    BY <1>1 DEF Alone, Emptied, TableHoldsOneFile, Quiet
  <1>2. ASSUME NEW r \in Run, Act(r)
        PROVE  (Alone /\ Emptied /\ TableHoldsOneFile)'
    <2>1. Alone' /\ Emptied'
      BY <1>2, AloneStep, EmptiedStep
    <2>2. TableHoldsOneFile'
      <3>1. CASE vehicles' = vehicles \/ vehicles' = {}
        BY <3>1 DEF TableHoldsOneFile
      <3>2. CASE CommitTransaction(r) /\ vehicles' = vehicles \cup newVehicles[r]
        <4>1. vehicles = {}
          BY <3>2 DEF CommitTransaction, Emptied, Chunking
        <4>2. newVehicles[r] = RowsOf(r)
          BY <3>2, CommitsWholeFile DEF CommitTransaction
        <4> QED BY <3>2, <4>1, <4>2 DEF TableHoldsOneFile, RowsOf, Row
      <3> QED BY <1>2, <3>1, <3>2, TableStep
    <2> QED BY <2>1, <2>2
  <1> QED BY <1>1, <1>2, QuietSteps DEF Next, Act

LEMMA OneAtATimeAlways == Spec => []OneAtATime
  <1>1. Init => OneAtATime
    BY DatabaseAssumption
    DEF Init, OneAtATime, Alone, Emptied, TableHoldsOneFile, Active, Before,
        Processing, Chunking
  <1> QED BY Invariance, OneAtATimeStep, <1>1, PTL DEF Spec

(* With one execution at a time the table never mixes two files, nor old   *)
(* vehicles with new ones: no import writes between the TRUNCATE and the   *)
(* COMMIT of another.                                                      *)
THEOREM OneFileAtATime == Spec => []TableHoldsOneFile
  <1>1. OneAtATime => TableHoldsOneFile
    BY DEF OneAtATime, TableHoldsOneFile
  <1> QED BY OneAtATimeAlways, <1>1, PTL
-----------------------------------------------------------------------------
(* The names of manufacturers, while only imports write them.  From the    *)
(* look-up to the COMMIT the makers an execution made for itself have names*)
(* that are not stored, since no other execution is there to store them.   *)

OnlyImports == "organisations" \notin Disturbance

FreshAt(r) ==
    /\ pc[r] \in {"idle", "create", "start"} \cup Before => temporary[r] = {}
    /\ pc[r] \in Chunking => \A m \in temporary[r] \cup newMakers[r] :
          m.by = r /\ m.born = m.name /\ m.name \notin Names(manufacturers)

OldNamesDiffer == \A m, n \in OldMakers : m.name = n.name => m = n

OneOfEach ==
    Serial /\ OnlyImports =>
        /\ formerNames = {}
        /\ OldNamesDiffer => OneManufacturerPerName
        /\ \A r \in Run : FreshAt(r)

(* Only a COMMIT writes the manufacturers.                                 *)
LEMMA MakersEffect ==
    ASSUME NEW r \in Run, Act(r), ~CommitTransaction(r)
    PROVE  manufacturers' = manufacturers
  BY DEF Act, Accept, Step, Prepare, ProcessChunks, Conclude, CreateProcess,
         StartProcess, ReadFileName, TruncateVehicles, VacuumDatabase,
         DownloadFileFromStorage, ValidateFile, HandleValidationErrors,
         BeginTransaction, ReadRecord, EndOfFile, ApplyRules, SaveManufacturers,
         InsertVehicle, EndOfChunk, RollbackTransaction,
         FinishProcess, FailProcess, Respond, SaveProcess, AbortWaiter,
         DatabaseFault, Crash, DeleteProcess, database

(* Only ApplyRules adds to the list of new manufacturers.                  *)
LEMMA ListEffect ==
    ASSUME NEW r \in Run, Act(r), ~ApplyRules(r)
    PROVE  temporary' = temporary
  BY DEF Act, Accept, Step, Prepare, ProcessChunks, Conclude, CreateProcess,
         StartProcess, ReadFileName, TruncateVehicles, VacuumDatabase,
         DownloadFileFromStorage, ValidateFile, HandleValidationErrors,
         BeginTransaction, ReadRecord, EndOfFile, SaveManufacturers,
         InsertVehicle, EndOfChunk, CommitTransaction, RollbackTransaction,
         FinishProcess, FailProcess, Respond, SaveProcess, AbortWaiter,
         DatabaseFault, Crash, DeleteProcess, local

(* The makers of the execution that takes the step ...                     *)
LEMMA OwnFresh ==
    ASSUME IInv, NEW r \in Run, FreshAt(r), Act(r)
    PROVE  FreshAt(r)'
  <1> USE DEF IInv, TypeInv, TypeOK
  <1> DEFINE Early == {"idle", "create", "start"} \cup Before
  <1>1. CASE ApplyRules(r)
    <2>1. /\ pc[r] = "apply" /\ pc'[r] = "save"
          /\ UNCHANGED <<manufacturers, newMakers>>
          /\ temporary'[r] = temporary[r] \cup MakersToAdd(r)
      BY <1>1 DEF ApplyRules, Goto, database, transaction
    <2>2. \A m \in MakersToAdd(r) :
             m.by = r /\ m.born = m.name /\ m.name \notin Names(manufacturers)
      BY DEF MakersToAdd, VisibleNames, Names
    <2> QED BY <2>1, <2>2 DEF FreshAt, Chunking, Before, Names
  <1>2. CASE SaveManufacturers(r)
    <2>1. /\ pc[r] = "save" /\ pc'[r] \in {"insert", "rollback"}
          /\ UNCHANGED <<manufacturers, temporary>>
          /\ newMakers'[r] \subseteq newMakers[r] \cup temporary[r]
      BY <1>2 DEF SaveManufacturers, database
    <2> QED BY <2>1 DEF FreshAt, Chunking, Before, Names
  <1>3. CASE CommitTransaction(r)
    BY <1>3 DEF CommitTransaction, FreshAt, Chunking, Before
  <1>4. CASE BeginTransaction(r)
    <2>1. /\ pc[r] = "begin" /\ pc'[r] = "read"
          /\ UNCHANGED <<temporary, newMakers>>
      BY <1>4 DEF BeginTransaction, Goto, local
    <2>2. temporary[r] = {} /\ newMakers[r] = {}
      BY <2>1 DEF FreshAt, Control, TransactionAt, Before
    <2> QED BY <2>1, <2>2 DEF FreshAt, Chunking, Before
  <1>5. CASE ~ApplyRules(r) /\ ~SaveManufacturers(r) /\ ~CommitTransaction(r)
             /\ ~BeginTransaction(r)
    <2>1. UNCHANGED <<manufacturers, temporary>>
      BY <1>5, MakersEffect, ListEffect
    <2>2. newMakers'[r] \subseteq newMakers[r]
      BY <1>5 DEF Act, Accept, Step, Prepare, ProcessChunks, Conclude, CreateProcess,
         StartProcess, ReadFileName, TruncateVehicles, VacuumDatabase,
         DownloadFileFromStorage, ValidateFile, HandleValidationErrors,
         ReadRecord, EndOfFile, InsertVehicle, EndOfChunk, RollbackTransaction,
         FinishProcess, FailProcess, Respond, SaveProcess, AbortWaiter,
         DatabaseFault, Crash, DeleteProcess, Raise, Abandon, transaction
    <2>3. /\ pc'[r] \in Early => pc[r] \in Early
          /\ pc'[r] \in Chunking => pc[r] \in Chunking
      BY <1>5 DEF Act, Accept, Step, Prepare, ProcessChunks, Conclude, CreateProcess,
         StartProcess, ReadFileName, TruncateVehicles, VacuumDatabase,
         DownloadFileFromStorage, ValidateFile, HandleValidationErrors,
         ReadRecord, EndOfFile, InsertVehicle, EndOfChunk, RollbackTransaction,
         FinishProcess, FailProcess, Respond, SaveProcess, AbortWaiter,
         DatabaseFault, Crash, DeleteProcess, Goto, Raise, Before, Chunking
    <2> QED BY <2>1, <2>2, <2>3 DEF FreshAt, Names
  <1> QED BY <1>1, <1>2, <1>3, <1>4, <1>5

(* ... and those of the others, which are not there when it commits.       *)
LEMMA OthersFresh ==
    ASSUME IInv, Alone, NEW r \in Run, NEW s \in Run \ {r}, FreshAt(s), Act(r)
    PROVE  FreshAt(s)'
  <1>1. Same(s)
    BY OnlyOwn DEF IInv, TypeInv
  <1>2. temporary'[s] = temporary[s]
    BY ListEffect DEF ApplyRules, IInv, TypeInv, TypeOK
  <1>3. pc[s] \in Chunking => manufacturers' = manufacturers
    <2>1. SUFFICES ASSUME pc[s] \in Chunking PROVE ~CommitTransaction(r)
      BY MakersEffect
    <2> QED BY <2>1 DEF Alone, CommitTransaction, Active, Processing, Chunking
  <1> QED BY <1>1, <1>2, <1>3 DEF Same, FreshAt, Names

LEMMA OneOfEachStep ==
    IInv /\ OneAtATime /\ OneOfEach /\ [Next]_vars => OneOfEach'
  <1> SUFFICES ASSUME IInv, OneAtATime, OneOfEach, [Next]_vars, Serial, OnlyImports
               PROVE  /\ formerNames' = {}
                      /\ OldNamesDiffer => OneManufacturerPerName'
                      /\ \A s \in Run : FreshAt(s)'
    BY DEF OneOfEach
  <1>1. CASE UNCHANGED vars
    BY <1>1 DEF OneOfEach, OneManufacturerPerName, FreshAt, Names, vars, database,
                local, transaction
  <1>2. ASSUME NEW r \in Run, Act(r)
        PROVE  /\ formerNames' = {}
               /\ OldNamesDiffer => OneManufacturerPerName'
               /\ \A s \in Run : FreshAt(s)'
    <2>1. ASSUME NEW s \in Run PROVE FreshAt(s)'
      BY <1>2, OwnFresh, OthersFresh DEF OneAtATime, OneOfEach
    <2>2. formerNames' = {}
      BY <1>2, NamesStay DEF OneOfEach
    <2>3. ASSUME OldNamesDiffer PROVE OneManufacturerPerName'
      <3>1. CASE ~CommitTransaction(r)
        BY <1>2, <2>3, <3>1, MakersEffect DEF OneOfEach, OneManufacturerPerName
      <3>2. CASE CommitTransaction(r)
        <4>1. manufacturers' = manufacturers \cup newMakers[r] /\ pc[r] = "commit"
          BY <3>2 DEF CommitTransaction
        <4>2. \A m \in newMakers[r] :
                 /\ m \in Manufacturer /\ m.by = r /\ m.born = m.name
                 /\ m.name \notin Names(manufacturers)
          BY <4>1 DEF OneOfEach, FreshAt, Chunking, IInv, TypeInv, TypeOK
        <4>3. \A m, n \in newMakers[r] : m.name = n.name => m = n
          BY <4>2 DEF Manufacturer
        <4>4. \A m \in manufacturers, n \in newMakers[r] : m.name # n.name
          BY <4>2 DEF Names
        <4> QED BY <2>3, <4>1, <4>3, <4>4 DEF OneOfEach, OneManufacturerPerName
      <3> QED BY <3>1, <3>2
    <2> QED BY <2>1, <2>2, <2>3
  <1> QED BY <1>1, <1>2 DEF Next, Act, OrganisationsApi, OnlyImports

LEMMA OneOfEachAlways == Spec => []OneOfEach
  <1>1. Init => OneOfEach
    BY DEF Init, OneOfEach, OldNamesDiffer, OneManufacturerPerName, FreshAt, Before, Chunking
  <1> QED BY Invariance, OneAtATimeAlways, OneOfEachStep, <1>1, PTL DEF Spec

(* With one execution at a time, and no other writer of the table, names   *)
(* that differed before the first import always differ, although nothing   *)
(* but the look-up of the names keeps them apart.                          *)
THEOREM NamesAreUnique ==
    ASSUME "organisations" \notin Disturbance,
           \A m, n \in OldMakers : m.name = n.name => m = n
    PROVE  Spec => []OneManufacturerPerName
  <1>1. OneOfEach => OneManufacturerPerName
    BY DEF OneOfEach, OneManufacturerPerName, OnlyImports, OldNamesDiffer
  <1> QED BY OneOfEachAlways, <1>1, PTL
-----------------------------------------------------------------------------
(* The report.  A chunk is counted when it is stored: between chunks the   *)
(* counters stand at a whole number of full chunks, or at the whole file.  *)

LEMMA Products ==
    ASSUME NEW l \in Nat \ {0}, NEW p \in Int, NEW q \in Int, p < q
    PROVE  p * l + l <= q * l
  <1>1. (p + 1) * l <= q * l
    OBVIOUS
  <1> QED BY <1>1

(* The quotient that FinishedReportIsExact compares the counter with.      *)
LEMMA NumberOfChunks ==
    ASSUME NEW l \in Nat \ {0}, NEW b \in Nat, NEW n \in Nat,
           b * l < n + l, n <= b * l
    PROVE  (n + l - 1) \div l = b
  <1> DEFINE q == (n + l - 1) \div l
  <1>1. q \in Int /\ q * l <= n + l - 1 /\ n + l - 1 < q * l + l
    OBVIOUS
  <1> HIDE DEF q
  <1>2. ~(q < b)
    BY <1>1, Products
  <1>3. ~(b < q)
    BY <1>1, Products
  <1> QED BY <1>1, <1>2, <1>3 DEF q

LEMMA ChunksAre ==
    ASSUME NEW r, NEW b \in Nat,
           ChunkLength(r) \in Nat \ {0}, Len(Lines(r)) \in Nat,
           b * ChunkLength(r) < Len(Lines(r)) + ChunkLength(r),
           Len(Lines(r)) <= b * ChunkLength(r)
    PROVE  Chunks(r) = b
  BY NumberOfChunks DEF Chunks

LEMMA LinesBetween ==
    ASSUME NEW a \in Nat, NEW b \in Nat, a <= b
    PROVE  /\ Cardinality((a + 1)..b) = b - a
           /\ (a + 1)..b = {} => a = b
  <1>1. a + 1 \in Int
    OBVIOUS
  <1>2. Cardinality((a + 1)..b) = IF a + 1 > b THEN 0 ELSE b - (a + 1) + 1
    BY <1>1, FS_Interval
  <1>3. a < b => a + 1 \in (a + 1)..b
    OBVIOUS
  <1> QED BY <1>2, <1>3

Whole(r) == recordCounter[r] = Len(Lines(r)) /\ bufferCounter[r] = Chunks(r)
Full(r) == recordCounter[r] = bufferCounter[r] * ChunkLength(r)

CountersAt(r) ==
    /\ pc[r] \in {"idle", "create", "start"} \cup Before =>
          recordCounter[r] = 0 /\ bufferCounter[r] = 0
    /\ pc[r] \in Chunking =>
          recordCounter[r] <= pos[r] /\ stack[r] = (recordCounter[r] + 1)..pos[r]
    /\ pc[r] = "read" =>
          \/ Full(r) /\ pos[r] < recordCounter[r] + ChunkLength(r)
          \/ Whole(r) /\ pos[r] = Len(Lines(r))
    /\ pc[r] \in {"apply", "save", "insert"} =>
          /\ Full(r)
          /\ recordCounter[r] < pos[r] /\ pos[r] <= recordCounter[r] + ChunkLength(r)
          /\ pos[r] = recordCounter[r] + ChunkLength(r) \/ pos[r] = Len(Lines(r))
    /\ pc[r] \in {"commit", "finish"} => Whole(r)

(* The lines that are inserted have different VINs and can be stored.      *)
Different(r, I) ==
    /\ \A i, j \in I : Line(r, i).vin = Line(r, j).vin => i = j
    /\ \A i \in I : Line(r, i).kind # "unstorable"

DifferentAt(r) ==
    /\ pc[r] \in Chunking => Different(r, (1..pos[r]) \ Unsaved(r))
    /\ pc[r] = "finish" => Different(r, 1..Len(Lines(r)))

ReportedAt(r) == process[r] = "Finished" =>
    /\ result[r].count = Len(Lines(r))
    /\ result[r].count = Cardinality(RowsOf(r))
    /\ result[r].buffers = Chunks(r)

Reports == \A r \in Run : CountersAt(r) /\ DifferentAt(r) /\ ReportedAt(r)

(* What these speak of, for an execution that has passed the validator.    *)
LEMMA ChunkingHas ==
    ASSUME TypeInv, NEW r \in Run, pc[r] \in Chunking
    PROVE  /\ HasFile(r) /\ request[r] \in Request
           /\ ChunkLength(r) \in Nat \ {0}
           /\ Len(Lines(r)) \in Nat
           /\ pos[r] \in Nat /\ recordCounter[r] \in Nat /\ bufferCounter[r] \in Nat
           /\ pos[r] <= Len(Lines(r))
  <1>1. HasFile(r) /\ request[r] \in Request
    BY DEF TypeInv, Requests, RequestAt, Active, Processing
  <1>2. request[r].chunkSize \in Int
    BY <1>1, FileAssumption DEF Request
  <1>3. ChunkLength(r) \in Nat \ {0}
    BY <1>2 DEF ChunkLength
  <1>4. Len(Lines(r)) \in Nat
    BY <1>1, LinesAreRecords
  <1> QED BY <1>1, <1>3, <1>4 DEF TypeInv, TypeOK, Buffers, LinesAt

LEMMA SameFile ==
    ASSUME NEW s, UNCHANGED request[s]
    PROVE  /\ Lines(s)' = Lines(s) /\ Chunks(s)' = Chunks(s)
           /\ ChunkLength(s)' = ChunkLength(s) /\ RowsOf(s)' = RowsOf(s)
           /\ \A i : Line(s, i)' = Line(s, i)
  BY DEF Lines, Chunks, ChunkLength, RowsOf, HasFile, Row, Line

LEMMA OwnCounters ==
    ASSUME IInv, NEW r \in Run, CountersAt(r), Act(r)
    PROVE  CountersAt(r)'
  <1> USE DEF IInv, TypeInv, TypeOK
  <1> DEFINE Early == {"idle", "create", "start"} \cup Before
             n == Len(Lines(r))
             l == ChunkLength(r)
             Kept == UNCHANGED <<request, pos, stack, recordCounter, bufferCounter>>
  <1>1. ASSUME pc'[r] \notin Early \cup Chunking \cup {"finish"} PROVE CountersAt(r)'
    BY <1>1 DEF CountersAt, Chunking
  <1>2. ASSUME pc'[r] \in Early, pc[r] \in Early, UNCHANGED <<recordCounter, bufferCounter>>
        PROVE  CountersAt(r)'
    BY <1>2 DEF CountersAt, Before, Chunking
  <1>3. ASSUME Kept PROVE n' = n /\ l' = l /\ Chunks(r)' = Chunks(r)
    BY <1>3, SameFile
  <1>4. CASE Accept(r)
    BY <1>1, <1>2, <1>4 DEF Accept, Goto, Before, Chunking
  <1>5. CASE Prepare(r)
    <2>1. /\ UNCHANGED <<recordCounter, bufferCounter>>
          /\ pc[r] \in Early
          /\ pc'[r] \in Early \cup {"reply", "error"}
      BY <1>5 DEF Prepare, CreateProcess, StartProcess, ReadFileName, TruncateVehicles,
                  VacuumDatabase, DownloadFileFromStorage, ValidateFile,
                  HandleValidationErrors, SaveProcess, Raise, Goto, local, Before
    <2> QED BY <1>1, <1>2, <2>1 DEF Chunking, Before
  <1>6. CASE BeginTransaction(r)
    <2>1. /\ Kept /\ pc[r] = "begin" /\ pc'[r] = "read"
          /\ pos[r] = 0 /\ stack[r] = {} /\ recordCounter[r] = 0 /\ bufferCounter[r] = 0
      BY <1>6 DEF BeginTransaction, Goto, local, Before, CountersAt, Buffers, LinesAt
    <2>2. l' \in Nat \ {0}
      <3>1. request[r].chunkSize \in Int
        BY <2>1, FileAssumption DEF Requests, RequestAt, Request, Active, Before
      <3> QED BY <1>3, <2>1, <3>1 DEF ChunkLength
    <2> QED BY <2>1, <2>2 DEF CountersAt, Full, Chunking, Before
  <1>7. CASE ReadRecord(r)
    <2> DEFINE pushed == stack[r] \cup {pos[r] + 1}
    <2>1. /\ UNCHANGED <<request, recordCounter, bufferCounter>>
          /\ pos[r] < n /\ pos'[r] = pos[r] + 1
          /\ stack'[r] = pushed
          /\ pc[r] = "read"
          /\ pc'[r] = IF Cardinality(pushed) >= request[r].chunkSize THEN "apply" ELSE "read"
      BY <1>7 DEF ReadRecord, ChunkFull
    <2>2. /\ l \in Nat \ {0} /\ n \in Nat /\ request[r].chunkSize \in Int
          /\ pos[r] \in Nat /\ recordCounter[r] \in Nat /\ bufferCounter[r] \in Nat
      BY <2>1, ChunkingHas, FileAssumption DEF Chunking, Request
    <2>3. Full(r) /\ pos[r] < recordCounter[r] + l /\ recordCounter[r] <= pos[r]
      BY <2>1, <2>2 DEF CountersAt, Chunking
    <2>4. pushed = (recordCounter[r] + 1)..(pos[r] + 1)
      BY <2>1, <2>2, <2>3 DEF CountersAt, Chunking
    <2>5. Cardinality(pushed) = pos[r] + 1 - recordCounter[r]
      <3>1. pos[r] + 1 \in Nat /\ recordCounter[r] <= pos[r] + 1
        BY <2>2, <2>3
      <3>2. Cardinality((recordCounter[r] + 1)..(pos[r] + 1)) = pos[r] + 1 - recordCounter[r]
        BY <2>2, <3>1, LinesBetween
      <3> QED BY <2>4, <3>2
    <2>6. n' = n /\ l' = l /\ Full(r)'
      BY <2>1, <2>3, SameFile DEF Full
    <2>7. CASE Cardinality(pushed) >= request[r].chunkSize
      <3>1. pos'[r] = recordCounter[r] + l
        <4>1. pos[r] + 1 - recordCounter[r] >= request[r].chunkSize
          BY <2>5, <2>7
        <4>2. pos[r] + 1 >= recordCounter[r] + l
          BY <2>2, <2>3, <4>1 DEF ChunkLength
        <4> HIDE DEF l
        <4> QED BY <2>1, <2>2, <2>3, <4>2
      <3> QED BY <2>1, <2>2, <2>3, <2>4, <2>6, <2>7, <3>1 DEF CountersAt, Chunking, Before
    <2>8. CASE ~(Cardinality(pushed) >= request[r].chunkSize)
      <3>1. pos'[r] < recordCounter[r] + l
        <4>1. ~(pos[r] + 1 - recordCounter[r] >= request[r].chunkSize)
          BY <2>5, <2>8
        <4> QED BY <2>1, <2>2, <2>3, <4>1 DEF ChunkLength
      <3> QED BY <2>1, <2>2, <2>3, <2>4, <2>6, <2>8, <3>1 DEF CountersAt, Chunking, Before
    <2> QED BY <2>7, <2>8
  <1>8. CASE EndOfFile(r)
    <2>1. /\ Kept /\ pos[r] = n /\ pc[r] = "read"
          /\ pc'[r] = IF stack[r] = {} THEN "commit" ELSE "apply"
      BY <1>8 DEF EndOfFile, local
    <2>2. /\ l \in Nat \ {0} /\ n \in Nat
          /\ recordCounter[r] \in Nat /\ bufferCounter[r] \in Nat
          /\ recordCounter[r] <= n /\ stack[r] = (recordCounter[r] + 1)..n
      BY <2>1, ChunkingHas DEF CountersAt, Chunking
    <2>3. CASE stack[r] = {}
      <3>1. recordCounter[r] = n
        BY <2>2, <2>3, LinesBetween
      <3>2. ASSUME Full(r) PROVE bufferCounter[r] = Chunks(r)
        <4>1. n = bufferCounter[r] * l
          BY <3>1, <3>2 DEF Full
        <4>2. n < n + l /\ n <= n
          BY <2>2
        <4> QED BY <2>2, <4>1, <4>2, ChunksAre
      <3>3. Whole(r)
        BY <2>1, <3>1, <3>2 DEF CountersAt, Whole
      <3>4. Whole(r)'
        BY <1>3, <2>1, <3>3 DEF Whole
      <3> QED BY <2>1, <2>2, <2>3, <3>4 DEF CountersAt, Chunking, Before
    <2>4. CASE stack[r] # {}
      <3>1. recordCounter[r] < n
        BY <2>2, <2>4
      <3>2. Full(r) /\ n < recordCounter[r] + l
        BY <2>1, <2>2, <3>1 DEF CountersAt, Whole
      <3>3. Full(r)' /\ l' = l /\ n' = n
        BY <1>3, <2>1, <3>2 DEF Full
      <3> QED BY <2>1, <2>2, <2>4, <3>1, <3>2, <3>3 DEF CountersAt, Chunking, Before
    <2> QED BY <2>3, <2>4
  <1>9. CASE ApplyRules(r) \/ SaveManufacturers(r) \/ InsertVehicle(r)
    <2>1. /\ Kept /\ pc[r] \in {"apply", "save", "insert"}
          /\ pc'[r] \in {"save", "insert", "rollback"}
      BY <1>9 DEF ApplyRules, SaveManufacturers, InsertVehicle, Goto
    <2>2. Full(r)' = Full(r)
      BY <1>3, <2>1 DEF Full
    <2>3. CASE pc'[r] = "rollback"
      BY <1>1, <2>3 DEF Before, Chunking
    <2>4. CASE pc'[r] # "rollback"
      BY <1>3, <2>1, <2>2, <2>4 DEF CountersAt, Chunking, Before
    <2> QED BY <2>3, <2>4
  <1>10. CASE EndOfChunk(r)
    <2>1. /\ UNCHANGED <<request, pos>>
          /\ recordCounter'[r] = recordCounter[r] + Cardinality(stack[r])
          /\ bufferCounter'[r] = bufferCounter[r] + 1
          /\ stack'[r] = {}
          /\ pc[r] = "insert" /\ pc'[r] = "read"
      BY <1>10 DEF EndOfChunk, CountChunk, Goto
    <2>2. /\ l \in Nat \ {0} /\ n \in Nat /\ pos[r] \in Nat
          /\ recordCounter[r] \in Nat /\ bufferCounter[r] \in Nat
      BY <2>1, ChunkingHas DEF Chunking
    <2>3. /\ Full(r)
          /\ recordCounter[r] < pos[r] /\ pos[r] <= recordCounter[r] + l
          /\ pos[r] = recordCounter[r] + l \/ pos[r] = n
          /\ stack[r] = (recordCounter[r] + 1)..pos[r]
      BY <2>1 DEF CountersAt, Chunking
    <2>4. recordCounter'[r] = pos[r]
      <3>1. Cardinality(stack[r]) = pos[r] - recordCounter[r]
        BY <2>2, <2>3, FS_Interval
      <3> QED BY <2>1, <2>2, <3>1
    <2>5. n' = n /\ l' = l /\ Chunks(r)' = Chunks(r)
      BY <2>1, SameFile
    <2>6. bufferCounter[r] * l + l = bufferCounter'[r] * l
      BY <2>1, <2>2
    <2>7. CASE pos[r] = recordCounter[r] + l
      <3>1. Full(r)'
        BY <2>3, <2>4, <2>5, <2>6, <2>7 DEF Full
      <3> QED BY <2>1, <2>2, <2>4, <2>5, <3>1 DEF CountersAt, Chunking, Before
    <2>8. CASE pos[r] = n
      <3>1. bufferCounter'[r] = Chunks(r)
        <4>1. bufferCounter'[r] \in Nat
          BY <2>1, <2>2
        <4>2. recordCounter[r] + l = bufferCounter'[r] * l
          BY <2>3, <2>6 DEF Full
        <4>3. recordCounter[r] + l < n + l /\ n <= recordCounter[r] + l
          BY <2>2, <2>3, <2>8
        <4> QED BY <2>2, <4>1, <4>2, <4>3, ChunksAre
      <3>2. Whole(r)'
        BY <2>4, <2>5, <2>8, <3>1 DEF Whole
      <3> QED BY <2>1, <2>2, <2>4, <2>5, <2>8, <3>2 DEF CountersAt, Chunking, Before
    <2> QED BY <2>3, <2>7, <2>8
  <1>11. CASE CommitTransaction(r)
    <2>1. /\ Kept /\ pc[r] = "commit" /\ pc'[r] \in {"finish", "rollback"}
      BY <1>11 DEF CommitTransaction, local
    <2>2. Whole(r)'
      BY <1>3, <2>1 DEF CountersAt, Whole
    <2> QED BY <2>1, <2>2 DEF CountersAt, Chunking, Before
  <1>12. CASE RollbackTransaction(r) \/ Conclude(r) \/ AbortWaiter(r)
              \/ DatabaseFault(r) \/ Crash(r)
    <2>1. pc'[r] \in {"fail", "error", "reply", "ok", "rollback", "crashed"}
      BY <1>12 DEF RollbackTransaction, Conclude, FinishProcess, FailProcess, Respond,
                   SaveProcess, AbortWaiter, DatabaseFault, Crash, Raise, Goto
    <2> QED BY <1>1, <2>1 DEF Before, Chunking
  <1>13. CASE DeleteProcess(r)
    <2>1. Kept /\ UNCHANGED pc
      BY <1>13 DEF DeleteProcess, local
    <2>2. Full(r)' = Full(r) /\ Whole(r)' = Whole(r)
      BY <1>3, <2>1 DEF Full, Whole
    <2> QED BY <1>3, <2>1, <2>2 DEF CountersAt
  <1> QED
    BY <1>4, <1>5, <1>6, <1>7, <1>8, <1>9, <1>10, <1>11, <1>12, <1>13
    DEF Act, Step, ProcessChunks

LEMMA OwnDifferent ==
    ASSUME IInv, NEW r \in Run, DifferentAt(r), Act(r)
    PROVE  DifferentAt(r)'
  <1> USE DEF IInv, TypeInv, TypeOK
  <1> DEFINE Saved == (1..pos[r]) \ Unsaved(r)
  <1>1. ASSUME pc'[r] \notin Chunking \cup {"finish"} PROVE DifferentAt(r)'
    BY <1>1 DEF DifferentAt
  <1>2. ASSUME UNCHANGED request, Saved' = Saved, pc[r] \in Chunking, pc'[r] \in Chunking
        PROVE  DifferentAt(r)'
    <2>1. \A i : Line(r, i)' = Line(r, i)
      BY <1>2, SameFile
    <2> QED BY <1>2, <2>1 DEF DifferentAt, Different, Chunking
  <1>3. CASE BeginTransaction(r)
    <2>1. pos'[r] = 0 /\ pc'[r] = "read"
      BY <1>3 DEF BeginTransaction, Goto, Buffers, LinesAt, Before, local
    <2>2. (1..pos'[r]) = {}
      BY <2>1
    <2> QED BY <2>1, <2>2 DEF DifferentAt, Different
  <1>4. CASE ReadRecord(r)
    <2>1. /\ UNCHANGED request
          /\ pos'[r] = pos[r] + 1
          /\ stack'[r] = stack[r] \cup {pos[r] + 1}
          /\ pc[r] = "read" /\ pc'[r] \in {"apply", "read"}
      BY <1>4 DEF ReadRecord
    <2>2. (1..pos[r]) \ stack[r] = (1..pos'[r]) \ stack'[r]
      BY <2>1 DEF Buffers, LinesAt, Chunking
    <2> QED BY <1>2, <2>1, <2>2 DEF Unsaved, Chunking
  <1>5. CASE EndOfFile(r) \/ ApplyRules(r)
    <2>1. /\ UNCHANGED <<request, pos, stack>>
          /\ pc[r] \in {"read", "apply"} /\ pc'[r] \in {"commit", "apply", "save"}
      BY <1>5 DEF EndOfFile, ApplyRules, Goto, local
    <2> QED BY <1>2, <2>1 DEF Unsaved, Chunking
  <1>6. CASE SaveManufacturers(r)
    <2>1. CASE pc'[r] = "rollback"
      BY <1>1, <2>1 DEF Chunking
    <2>2. CASE pc'[r] # "rollback"
      <3>1. /\ UNCHANGED <<request, pos>> /\ pending'[r] = stack[r]
            /\ pc[r] = "save" /\ pc'[r] = "insert"
        BY <1>6, <2>2 DEF SaveManufacturers
      <3> QED BY <1>2, <3>1 DEF Unsaved, Chunking
    <2> QED BY <2>1, <2>2
  <1>7. CASE InsertVehicle(r)
    <2>1. CASE pc'[r] = "rollback"
      BY <1>1, <2>1 DEF Chunking
    <2>2. CASE pc'[r] # "rollback"
      <3>1. /\ UNCHANGED <<request, pos>>
            /\ pc[r] = "insert" /\ pc'[r] = "insert"
        BY <1>7, <2>2 DEF InsertVehicle
      <3>2. PICK i \in pending[r] : pending'[r] = pending[r] \ {i} /\ ~Refused(r, i)
        BY <1>7, <2>2 DEF InsertVehicle
      <3>3. newVehicles[r] = {Row(r, j) : j \in (1..pos[r]) \ pending[r]}
        BY <3>1 DEF Control, RowsAt, Unsaved, Chunking
      <3>4. \A j \in (1..pos[r]) \ pending[r] : Line(r, j).vin # Line(r, i).vin
        <4>1. SUFFICES ASSUME NEW j \in (1..pos[r]) \ pending[r]
                       PROVE  Line(r, j).vin # Line(r, i).vin
          OBVIOUS
        <4>2. Row(r, j) \in newVehicles[r] /\ Row(r, j).vin = Line(r, j).vin
          BY <3>3 DEF Row
        <4>3. Line(r, j).vin \in Vins(vehicles \cup newVehicles[r])
          BY <4>2 DEF Vins
        <4> QED BY <3>2, <4>3 DEF Refused
      <3>5. Different(r, (1..pos[r]) \ pending[r])
        BY <3>1 DEF DifferentAt, Unsaved, Chunking
      <3>6. Different(r, (1..pos[r]) \ pending'[r])
        BY <3>2, <3>4, <3>5 DEF Different, Refused
      <3>7. \A j : Line(r, j)' = Line(r, j)
        BY <3>1, SameFile
      <3> QED BY <3>1, <3>6, <3>7 DEF DifferentAt, Different, Unsaved
    <2> QED BY <2>1, <2>2
  <1>8. CASE EndOfChunk(r)
    <2>1. /\ UNCHANGED <<request, pos>>
          /\ pending[r] = {} /\ stack'[r] = {}
          /\ pc[r] = "insert" /\ pc'[r] = "read"
      BY <1>8 DEF EndOfChunk, Goto
    <2> QED BY <1>2, <2>1 DEF Unsaved, Chunking
  <1>9. CASE CommitTransaction(r)
    <2>1. UNCHANGED request /\ pc[r] = "commit" /\ pc'[r] \in {"finish", "rollback"}
      BY <1>9 DEF CommitTransaction, local
    <2>2. stack[r] = {} /\ pos[r] = Len(Lines(r))
      BY <2>1 DEF Buffers, LinesAt
    <2>3. Different(r, 1..Len(Lines(r)))
      BY <2>1, <2>2 DEF DifferentAt, Unsaved, Chunking
    <2>4. Different(r, 1..Len(Lines(r)))'
      BY <2>1, <2>3, SameFile DEF Different
    <2> QED BY <2>1, <2>4 DEF DifferentAt, Chunking
  <1>10. CASE DeleteProcess(r)
    <2>1. UNCHANGED <<pc, request, pos, stack, pending>>
      BY <1>10 DEF DeleteProcess, local
    <2>2. Saved' = Saved /\ Lines(r)' = Lines(r) /\ \A i : Line(r, i)' = Line(r, i)
      BY <2>1, SameFile DEF Unsaved
    <2> QED BY <2>1, <2>2 DEF DifferentAt, Different
  <1>11. CASE Accept(r) \/ Prepare(r) \/ RollbackTransaction(r) \/ Conclude(r)
              \/ AbortWaiter(r) \/ DatabaseFault(r) \/ Crash(r)
    <2>1. pc'[r] \notin Chunking \cup {"finish"}
      BY <1>11 DEF Accept, Prepare, CreateProcess, StartProcess, ReadFileName,
                   TruncateVehicles, VacuumDatabase, DownloadFileFromStorage, ValidateFile,
                   HandleValidationErrors, RollbackTransaction, Conclude, FinishProcess,
                   FailProcess, Respond, SaveProcess, AbortWaiter, DatabaseFault, Crash,
                   Raise, Goto, Chunking
    <2> QED BY <1>1, <2>1
  <1> QED
    BY <1>3, <1>4, <1>5, <1>6, <1>7, <1>8, <1>9, <1>10, <1>11
    DEF Act, Step, ProcessChunks

(* As many rows as lines, when no VIN occurs twice.                        *)
LEMMA AllRowsDiffer ==
    ASSUME NEW r \in Run, HasFile(r), Different(r, 1..Len(Lines(r)))
    PROVE  Cardinality(RowsOf(r)) = Len(Lines(r))
  <1> DEFINE n == Len(Lines(r))
             f == [i \in 1..n |-> Row(r, i)]
  <1>1. n \in Nat
    BY LinesAreRecords
  <1>2. RowsOf(r) = {Row(r, i) : i \in 1..n}
    BY DEF RowsOf
  <1>3. \A i, j \in 1..n : Row(r, i) = Row(r, j) => i = j
    BY DEF Different, Row
  <1>4. f \in Bijection(1..n, RowsOf(r))
    <2>1. f \in [1..n -> RowsOf(r)]
      BY <1>2
    <2>2. \A i, j \in 1..n : f[i] = f[j] => i = j
      BY <1>3
    <2>3. \A v \in RowsOf(r) : \E i \in 1..n : f[i] = v
      BY <1>2
    <2> HIDE DEF f
    <2> QED BY <2>1, <2>2, <2>3 DEF Bijection, Injection, Surjection, IsInjective
  <1>5. ExistsBijection(1..n, RowsOf(r))
    BY <1>4 DEF ExistsBijection
  <1>6. IsFiniteSet(1..n) /\ Cardinality(1..n) = n
    BY <1>1, FS_Interval
  <1> QED BY <1>5, <1>6, FS_Bijection

LEMMA OwnReported ==
    ASSUME IInv, NEW r \in Run, CountersAt(r), DifferentAt(r), ReportedAt(r), Act(r)
    PROVE  ReportedAt(r)'
  <1> USE DEF IInv, TypeInv, TypeOK
  <1>1. SUFFICES ASSUME process'[r] = "Finished" PROVE ReportedAt(r)'
    BY DEF ReportedAt
  <1>2. CASE FinishProcess(r)
    <2>1. /\ pc[r] = "finish" /\ UNCHANGED request
          /\ process'[r] = "Finished" => result'[r] = ProcessingResult(r)
      BY <1>1, <1>2 DEF FinishProcess, SaveProcess, local
    <2>2. HasFile(r) /\ Whole(r) /\ Different(r, 1..Len(Lines(r)))
      BY <2>1 DEF CountersAt, DifferentAt, Requests, RequestAt, Processing
    <2>3. /\ result'[r].count = Len(Lines(r))
          /\ result'[r].count = Cardinality(RowsOf(r))
          /\ result'[r].buffers = Chunks(r)
      BY <1>1, <2>1, <2>2, AllRowsDiffer DEF ProcessingResult, Whole
    <2> QED BY <2>1, <2>3, SameFile DEF ReportedAt
  <1>3. CASE ~FinishProcess(r)
    <2>1. process[r] = "Finished" /\ result'[r] = result[r]
      BY <1>1, <1>3 DEF Act, Accept, Step, Prepare, ProcessChunks, Conclude,
         CreateProcess, StartProcess, ReadFileName, TruncateVehicles, VacuumDatabase,
         DownloadFileFromStorage, ValidateFile, HandleValidationErrors,
         BeginTransaction, ReadRecord, EndOfFile, ApplyRules, SaveManufacturers,
         InsertVehicle, EndOfChunk, CommitTransaction, RollbackTransaction,
         FailProcess, Respond, SaveProcess, AbortWaiter, DatabaseFault, Crash,
         DeleteProcess, database
    <2>2. pc[r] # "idle"
      BY <2>1 DEF Control, ProcessAt
    <2>3. UNCHANGED request
      BY <2>2, KeepsRequest
    <2> QED BY <2>1, <2>3, SameFile DEF ReportedAt
  <1> QED BY <1>2, <1>3

LEMMA OthersReport ==
    ASSUME IInv, NEW r \in Run, NEW s \in Run \ {r}, Act(r),
           CountersAt(s), DifferentAt(s), ReportedAt(s)
    PROVE  (CountersAt(s) /\ DifferentAt(s) /\ ReportedAt(s))'
  <1>1. Same(s)
    BY OnlyOwn DEF IInv, TypeInv
  <1>2. /\ result'[s] = result[s]
        /\ recordCounter'[s] = recordCounter[s] /\ bufferCounter'[s] = bufferCounter[s]
    BY DEF IInv, TypeInv, TypeOK, Act, Accept, Step, Prepare, ProcessChunks, Conclude,
         CreateProcess,
         StartProcess, ReadFileName, TruncateVehicles, VacuumDatabase,
         DownloadFileFromStorage, ValidateFile, HandleValidationErrors,
         BeginTransaction, ReadRecord, EndOfFile, ApplyRules, SaveManufacturers,
         InsertVehicle, EndOfChunk, CommitTransaction, RollbackTransaction,
         FinishProcess, FailProcess, Respond, SaveProcess, AbortWaiter,
         DatabaseFault, Crash, DeleteProcess, database, local
  <1>3. /\ Lines(s)' = Lines(s) /\ Chunks(s)' = Chunks(s)
        /\ ChunkLength(s)' = ChunkLength(s) /\ RowsOf(s)' = RowsOf(s)
        /\ \A i : Line(s, i)' = Line(s, i)
    BY <1>1, SameFile DEF Same
  <1>4. Full(s)' = Full(s) /\ Whole(s)' = Whole(s) /\ Unsaved(s)' = Unsaved(s)
    BY <1>1, <1>2, <1>3 DEF Full, Whole, Unsaved, Same
  <1>5. CountersAt(s)'
    BY <1>1, <1>2, <1>3, <1>4 DEF CountersAt, Same
  <1>6. DifferentAt(s)'
    BY <1>1, <1>3, <1>4 DEF DifferentAt, Different, Same
  <1>7. ReportedAt(s)'
    BY <1>1, <1>2, <1>3 DEF ReportedAt, Same
  <1> QED BY <1>5, <1>6, <1>7

LEMMA ReportsStep == IInv /\ Reports /\ [Next]_vars => Reports'
  <1> SUFFICES ASSUME IInv, Reports, [Next]_vars, NEW s \in Run
               PROVE  (CountersAt(s) /\ DifferentAt(s) /\ ReportedAt(s))'
    BY DEF Reports
  <1>1. CountersAt(s) /\ DifferentAt(s) /\ ReportedAt(s)
    BY DEF Reports
  <1>2. CASE Quiet
    <2>1. UNCHANGED <<pc, process, result, local>>
      BY <1>2 DEF Quiet
    <2>2. /\ Lines(s)' = Lines(s) /\ Chunks(s)' = Chunks(s)
          /\ ChunkLength(s)' = ChunkLength(s) /\ RowsOf(s)' = RowsOf(s)
          /\ \A i : Line(s, i)' = Line(s, i)
      BY <2>1, SameFile DEF local
    <2>3. Full(s)' = Full(s) /\ Whole(s)' = Whole(s) /\ Unsaved(s)' = Unsaved(s)
      BY <2>1, <2>2 DEF Full, Whole, Unsaved, local
    <2>4. CountersAt(s)'
      BY <1>1, <2>1, <2>2, <2>3 DEF CountersAt, local
    <2>5. DifferentAt(s)' /\ ReportedAt(s)'
      BY <1>1, <2>1, <2>2, <2>3 DEF DifferentAt, Different, ReportedAt, local
    <2> QED BY <2>4, <2>5
  <1>3. ASSUME NEW r \in Run, Act(r)
        PROVE  (CountersAt(s) /\ DifferentAt(s) /\ ReportedAt(s))'
    BY <1>1, <1>3, OwnCounters, OwnDifferent, OwnReported, OthersReport
  <1> QED BY <1>2, <1>3, QuietSteps DEF Next, Act

LEMMA ReportsAlways == Spec => []Reports
  <1>1. Init => Reports
    BY DEF Init, Reports, CountersAt, DifferentAt, ReportedAt, Chunking
  <1> QED BY Invariance, ReportsStep, <1>1, PTL DEF Spec

(* A Finished process reports every line of its file, all of them stored   *)
(* as different rows, and as many chunks as the file has, whatever the     *)
(* chunk size and whatever other executions do.                            *)
THEOREM ReportIsExact == Spec => []FinishedReportIsExact
  <1>1. Reports => FinishedReportIsExact
    BY DEF Reports, ReportedAt, FinishedReportIsExact
  <1> QED BY ReportsAlways, <1>1, PTL
-----------------------------------------------------------------------------
(* The outcome.  With one execution at a time nothing but the file decides *)
(* it, when the calls to the database do not fail: an import is rolled back*)
(* for a line that is refused or for a list of manufacturers that is saved *)
(* twice, and commits only if neither was there.                           *)

OutcomeFacts == IInv /\ Checked /\ Known /\ OneAtATime /\ OneOfEach /\ Reports

(* Only an execution that is active has an open transaction, and only one  *)
(* that has committed has manufacturers.                                   *)
OpenAt(r) == txn[r] = "open" => pc[r] \in Chunking \cup {"rollback"}
OursAt(r) == txn[r] # "committed" => \A m \in manufacturers : m.by # r

(* The list of manufacturers is saved as it stands with every chunk, which *)
(* the database accepts only while it has saved none of them: so far only  *)
(* makers that are not from r were needed, but for the last chunk saved.   *)
KnownUpTo(r, k) ==
    \A i \in 1..k : Line(r, i).mh \in Names({m \in manufacturers : m.by # r})

MadeFrom(r, k) == \A m \in newMakers[r] : \E i \in 1..k : m.name = Line(r, i).mh

SavedAt(r) ==
    /\ pc[r] \in Chunking \ {"save"} => newMakers[r] = temporary[r]
    /\ pc[r] = "save" => newMakers[r] \subseteq temporary[r]
    /\ pc[r] \in {"read", "apply", "save"} =>
          /\ MadeFrom(r, recordCounter[r])
          /\ newMakers[r] = {} => KnownUpTo(r, recordCounter[r])
    /\ pc[r] = "save" => \A m \in temporary[r] : \E i \in 1..pos[r] : m.name = Line(r, i).mh
    /\ pc[r] = "insert" =>
          /\ MadeFrom(r, pos[r])
          /\ newMakers[r] = {} => KnownUpTo(r, pos[r])
          /\ KnownUpTo(r, recordCounter[r])
    /\ pc[r] \in {"read", "commit", "finish"} =>
          KnownUpTo(r, (bufferCounter[r] - 1) * ChunkLength(r))

(* Why an import fails.                                                    *)
CauseAt(r) ==
    /\ pc[r] = "reject" => Defective(r)
    /\ pc[r] = "fail" \/ (pc[r] = "rollback" /\ txn[r] = "open") =>
          Defective(r) \/ NewMakerBeforeLastChunk(r)

OutcomeInv ==
    Serial /\ OnlyImports => \A r \in Run :
        /\ OpenAt(r) /\ OursAt(r) /\ SavedAt(r)
        /\ "database" \notin Disturbance => CauseAt(r)

LEMMA SameCause ==
    ASSUME NEW s, UNCHANGED <<request[s], manufacturers>>
    PROVE  /\ Defective(s)' = Defective(s)
           /\ NewMakerBeforeLastChunk(s)' = NewMakerBeforeLastChunk(s)
           /\ \A k : KnownUpTo(s, k)' = KnownUpTo(s, k)
  BY DEF Defective, NewMakerBeforeLastChunk, KnownUpTo, Names, Line, Lines, ChunkLength

(* The last chunk begins behind the lines that NewMakerBeforeLastChunk is  *)
(* about.                                                                  *)
LEMMA LastChunk ==
    ASSUME NEW r, ChunkLength(r) \in Nat \ {0}, Len(Lines(r)) \in Nat
    PROVE  LET n == Len(Lines(r))
               l == ChunkLength(r)
               q == (n - 1) \div l
           IN  /\ Chunks(r) - 1 = q
               /\ \A b \in Nat : b * l < n => b * l <= q * l
  <1> DEFINE n == Len(Lines(r))
             l == ChunkLength(r)
             q == (n - 1) \div l
  <1>1. q \in Int /\ q * l <= n - 1 /\ n - 1 < q * l + l
    OBVIOUS
  <1>2. n \in Nat /\ l \in Nat \ {0} /\ Chunks(r) = (n + l - 1) \div l
    BY DEF Chunks
  <1> HIDE DEF n, l, q
  <1>3. (q + 1) * l = q * l + l
    BY <1>1, <1>2
  <1>4. q + 1 \in Nat
    <2>1. SUFFICES ASSUME q + 1 < 0 PROVE FALSE
      BY <1>1
    <2>2. (q + 1) * l + l <= 0 * l
      BY <1>1, <1>2, <2>1, Products
    <2> QED BY <1>1, <1>2, <1>3, <2>2
  <1>5. (q + 1) * l < n + l /\ n <= (q + 1) * l
    BY <1>1, <1>2, <1>3
  <1>6. Chunks(r) = q + 1
    BY <1>2, <1>4, <1>5, NumberOfChunks
  <1>7. ASSUME NEW b \in Nat, b * l < n PROVE b * l <= q * l
    <2>1. ~(q < b)
      <3>1. q < b => q * l + l <= b * l
        BY <1>1, <1>2, Products
      <3>2. b * l \in Int /\ q * l \in Int
        BY <1>1, <1>2
      <3> QED BY <1>1, <1>2, <1>7, <3>1, <3>2
    <2>2. b < q => b * l + l <= q * l
      BY <1>1, <1>2, Products
    <2>3. b * l \in Int /\ q * l \in Int
      BY <1>1, <1>2
    <2> QED BY <1>1, <1>2, <2>1, <2>2, <2>3
  <1> QED BY <1>1, <1>6, <1>7 DEF n, l, q

LEMMA OwnOpen ==
    ASSUME TypeInv, NEW r \in Run, OpenAt(r), Act(r)
    PROVE  OpenAt(r)'
  BY DEF TypeInv, TypeOK, OpenAt, Act, Accept, Step, Prepare, ProcessChunks, Conclude,
         CreateProcess,
         StartProcess, ReadFileName, TruncateVehicles, VacuumDatabase,
         DownloadFileFromStorage, ValidateFile, HandleValidationErrors,
         BeginTransaction, ReadRecord, EndOfFile, ApplyRules, SaveManufacturers,
         InsertVehicle, EndOfChunk, CommitTransaction, RollbackTransaction,
         FinishProcess, FailProcess, Respond, SaveProcess, AbortWaiter,
         DatabaseFault, Crash, DeleteProcess, Goto, Raise, Abandon, transaction, Chunking

(* A maker that is committed is of the execution that commits.             *)
LEMMA CommitsOwnMakers ==
    ASSUME Serial, OnlyImports, OutcomeFacts, NEW r \in Run, CommitTransaction(r)
    PROVE  /\ manufacturers' = manufacturers \cup newMakers[r]
           /\ \A m \in newMakers[r] : m.by = r
  BY DEF CommitTransaction, OutcomeFacts, OneOfEach, FreshAt, Chunking

LEMMA OursStep ==
    ASSUME Serial, OnlyImports, OutcomeFacts, NEW r \in Run, NEW s \in Run, OursAt(s), Act(r)
    PROVE  OursAt(s)'
  <1>1. SUFFICES ASSUME txn'[s] # "committed" PROVE \A m \in manufacturers' : m.by # s
    BY DEF OursAt
  <1>2. txn[s] # "committed"
    BY <1>1, CommittedStays DEF OutcomeFacts, IInv
  <1>3. CASE ~CommitTransaction(r)
    BY <1>2, <1>3, MakersEffect DEF OursAt
  <1>4. CASE CommitTransaction(r)
    <2>1. r # s
      BY <1>1, <1>4 DEF CommitTransaction, OutcomeFacts, IInv, TypeInv, TypeOK
    <2> QED BY <1>2, <1>4, <2>1, CommitsOwnMakers DEF OursAt
  <1> QED BY <1>3, <1>4

(* What was said of the makers known to r stays true when r commits.       *)
LEMMA OwnKnown ==
    ASSUME Serial, OnlyImports, OutcomeFacts, NEW r \in Run, Act(r), UNCHANGED request[r]
    PROVE  \A k : KnownUpTo(r, k) => KnownUpTo(r, k)'
  <1>1. {m \in manufacturers : m.by # r} \subseteq {m \in manufacturers' : m.by # r}
    BY CommitsOwnMakers, MakersEffect
  <1>2. \A i : Line(r, i)' = Line(r, i)
    BY SameFile
  <1> QED BY <1>1, <1>2 DEF KnownUpTo, Names

LEMMA SavedStays ==
    ASSUME NEW s, SavedAt(s),
           UNCHANGED <<request[s], pc[s], pos[s], temporary[s], newMakers[s],
                       recordCounter[s], bufferCounter[s], manufacturers>>
    PROVE  SavedAt(s)'
  <1>1. Lines(s)' = Lines(s) /\ ChunkLength(s)' = ChunkLength(s) /\ \A i : Line(s, i)' = Line(s, i)
    BY SameFile
  <1>2. /\ MadeFrom(s, recordCounter[s])' = MadeFrom(s, recordCounter[s])
        /\ MadeFrom(s, pos[s])' = MadeFrom(s, pos[s])
    BY <1>1 DEF MadeFrom
  <1>3. /\ KnownUpTo(s, recordCounter[s])' = KnownUpTo(s, recordCounter[s])
        /\ KnownUpTo(s, pos[s])' = KnownUpTo(s, pos[s])
    BY <1>1 DEF KnownUpTo, Names
  <1>4. KnownUpTo(s, (bufferCounter[s] - 1) * ChunkLength(s))'
            = KnownUpTo(s, (bufferCounter[s] - 1) * ChunkLength(s))
    BY <1>1 DEF KnownUpTo, Names
  <1>5. (\A m \in temporary[s] : \E i \in 1..pos[s] : m.name = Line(s, i).mh)'
            <=> \A m \in temporary[s] : \E i \in 1..pos[s] : m.name = Line(s, i).mh
    BY <1>1
  <1> QED BY <1>2, <1>3, <1>4, <1>5 DEF SavedAt

LEMMA OwnSaved ==
    ASSUME Serial, OnlyImports, OutcomeFacts, NEW r \in Run, OpenAt(r), OursAt(r), SavedAt(r), Act(r)
    PROVE  SavedAt(r)'
  <1> USE DEF OutcomeFacts, IInv, TypeInv, TypeOK
  <1> DEFINE Counts == UNCHANGED <<recordCounter, bufferCounter>>
  <1>1. ASSUME pc'[r] \notin Chunking \cup {"finish"} PROVE SavedAt(r)'
    BY <1>1 DEF SavedAt, Chunking
  <1>2. ASSUME UNCHANGED request
        PROVE  /\ \A i : Line(r, i)' = Line(r, i)
               /\ \A k : KnownUpTo(r, k) => KnownUpTo(r, k)'
               /\ ChunkLength(r)' = ChunkLength(r)
    BY <1>2, SameFile, OwnKnown
  <1>3. CASE BeginTransaction(r)
    <2>1. /\ UNCHANGED <<request, temporary, newMakers, recordCounter, bufferCounter>>
          /\ pc[r] = "begin" /\ pc'[r] = "read"
      BY <1>3 DEF BeginTransaction, Goto, local
    <2>2. /\ temporary[r] = {} /\ newMakers[r] = {}
          /\ recordCounter[r] = 0 /\ bufferCounter[r] = 0
      BY <2>1 DEF OneOfEach, FreshAt, Control, TransactionAt, Reports, CountersAt, Before
    <2>3. ChunkLength(r) \in Nat \ {0}
      <3>1. request[r].chunkSize \in Int
        BY <2>1, FileAssumption DEF Requests, RequestAt, Request, Active, Before
      <3> QED BY <3>1 DEF ChunkLength
    <2>4. 1..((0 - 1) * ChunkLength(r)) = {} /\ 1..0 = {}
      BY <2>3
    <2>5. KnownUpTo(r, (0 - 1) * ChunkLength(r)) /\ KnownUpTo(r, 0)
      BY <2>4 DEF KnownUpTo
    <2>6. KnownUpTo(r, (0 - 1) * ChunkLength(r))' /\ KnownUpTo(r, 0)'
      BY <1>2, <2>1, <2>5 DEF KnownUpTo
    <2> QED BY <2>1, <2>2, <2>6 DEF SavedAt, MadeFrom, Chunking
  <1>4. CASE ReadRecord(r) \/ EndOfFile(r)
    <2>1. /\ UNCHANGED <<request, temporary, newMakers, recordCounter, bufferCounter>>
          /\ pc[r] = "read" /\ pc'[r] \in {"read", "apply", "commit"}
      BY <1>4 DEF ReadRecord, EndOfFile, local, transaction
    <2>2. MadeFrom(r, recordCounter[r])'
      BY <1>2, <2>1 DEF SavedAt, MadeFrom
    <2>3. /\ newMakers[r] = {} => KnownUpTo(r, recordCounter[r])'
          /\ KnownUpTo(r, (bufferCounter[r] - 1) * ChunkLength(r))'
      BY <1>2, <2>1 DEF SavedAt, KnownUpTo
    <2> QED BY <2>1, <2>2, <2>3 DEF SavedAt, Chunking
  <1>5. CASE ApplyRules(r)
    <2>1. /\ UNCHANGED <<request, pos, stack, newMakers, recordCounter, bufferCounter>>
          /\ temporary'[r] = temporary[r] \cup MakersToAdd(r)
          /\ pc[r] = "apply" /\ pc'[r] = "save"
      BY <1>5 DEF ApplyRules, Goto, transaction
    <2>2. newMakers[r] = temporary[r] /\ MadeFrom(r, recordCounter[r])
      BY <2>1 DEF SavedAt, Chunking
    <2>3. ASSUME NEW m \in temporary'[r] PROVE \E i \in 1..pos[r] : m.name = Line(r, i).mh
      <3>1. CASE m \in temporary[r]
        <4>1. PICK i \in 1..recordCounter[r] : m.name = Line(r, i).mh
          BY <2>2, <3>1 DEF MadeFrom
        <4>2. i \in 1..pos[r]
          BY <2>1 DEF Reports, CountersAt, Chunking
        <4> QED BY <4>1, <4>2
      <3>2. CASE m \in MakersToAdd(r)
        <4>1. PICK i \in stack[r] : m.name = Line(r, i).mh
          BY <3>2 DEF MakersToAdd
        <4>2. i \in 1..pos[r]
          BY <2>1 DEF Buffers, LinesAt, Chunking
        <4> QED BY <4>1, <4>2
      <3> QED BY <2>1, <3>1, <3>2
    <2>4. MadeFrom(r, recordCounter[r])'
      BY <1>2, <2>1, <2>2 DEF MadeFrom
    <2>5. newMakers[r] = {} => KnownUpTo(r, recordCounter[r])'
      BY <1>2, <2>1 DEF SavedAt, KnownUpTo
    <2> QED BY <1>2, <2>1, <2>2, <2>3, <2>4, <2>5 DEF SavedAt, Chunking
  <1>6. CASE SaveManufacturers(r)
    <2>1. CASE pc'[r] = "rollback"
      BY <1>1, <2>1 DEF Chunking
    <2>2. CASE pc'[r] # "rollback"
      <3>1. /\ UNCHANGED <<request, pos, stack, temporary, recordCounter, bufferCounter>>
            /\ pc[r] = "save" /\ pc'[r] = "insert"
            /\ temporary[r] \cap newMakers[r] = {}
            /\ newMakers'[r] = newMakers[r] \cup temporary[r]
        BY <1>6, <2>2 DEF SaveManufacturers
      <3>2. newMakers[r] = {} /\ newMakers'[r] = temporary'[r]
        BY <3>1 DEF SavedAt
      <3>3. KnownUpTo(r, recordCounter[r])
        BY <3>1, <3>2 DEF SavedAt
      <3>4. ASSUME temporary[r] = {} PROVE KnownUpTo(r, pos[r])
        <4>1. txn[r] = "open"
          BY <3>1 DEF Control, TransactionAt, Chunking
        <4>2. Names(manufacturers) = Names({m \in manufacturers : m.by # r})
          BY <4>1 DEF OursAt, Names
        <4>3. \A i \in stack[r] : Line(r, i).mh \in Names(manufacturers)
          BY <3>1, <3>2, <3>4 DEF Known, MakersAt, ToBeKnown, HeardOf, VisibleNames, Names,
                                  OneOfEach
        <4>4. \A i \in 1..pos[r] : i \in 1..recordCounter[r] \/ i \in stack[r]
          BY <3>1 DEF Reports, CountersAt, Chunking
        <4> QED BY <3>3, <4>2, <4>3, <4>4 DEF KnownUpTo
      <3>5. MadeFrom(r, pos[r])'
        BY <1>2, <3>1, <3>2 DEF SavedAt, MadeFrom
      <3>6. /\ newMakers'[r] = {} => KnownUpTo(r, pos[r])'
            /\ KnownUpTo(r, recordCounter[r])'
        BY <1>2, <3>1, <3>2, <3>3, <3>4 DEF KnownUpTo
      <3> QED BY <3>1, <3>2, <3>5, <3>6 DEF SavedAt, Chunking
    <2> QED BY <2>1, <2>2
  <1>7. CASE InsertVehicle(r)
    <2>1. CASE pc'[r] = "rollback"
      BY <1>1, <2>1 DEF Chunking
    <2>2. CASE pc'[r] # "rollback"
      <3>1. /\ UNCHANGED <<request, pos, temporary, newMakers, recordCounter>>
            /\ pc[r] = "insert" /\ pc'[r] = "insert"
        BY <1>7, <2>2 DEF InsertVehicle
      <3>2. MadeFrom(r, pos[r])'
        BY <1>2, <3>1 DEF SavedAt, MadeFrom
      <3>3. /\ newMakers[r] = {} => KnownUpTo(r, pos[r])'
            /\ KnownUpTo(r, recordCounter[r])'
        BY <1>2, <3>1 DEF SavedAt, KnownUpTo
      <3> QED BY <3>1, <3>2, <3>3 DEF SavedAt, Chunking
    <2> QED BY <2>1, <2>2
  <1>8. CASE EndOfChunk(r)
    <2>1. /\ UNCHANGED <<request, pos, temporary, newMakers>>
          /\ bufferCounter'[r] = bufferCounter[r] + 1
          /\ stack'[r] = {}
          /\ pc[r] = "insert" /\ pc'[r] = "read"
      BY <1>8 DEF EndOfChunk, Goto, transaction
    <2>2. CountersAt(r)'
      BY OwnCounters DEF Reports
    <2>3. /\ recordCounter'[r] \in Nat /\ pos[r] \in Nat
          /\ recordCounter'[r] <= pos[r] /\ (recordCounter'[r] + 1)..pos[r] = {}
      <3>1. recordCounter'[r] \in Nat
        BY TypeStep DEF Next, Act
      <3> QED BY <2>1, <2>2, <3>1 DEF CountersAt, Chunking
    <2>4. recordCounter'[r] = pos[r]
      BY <2>3, LinesBetween
    <2>5. recordCounter[r] = (bufferCounter'[r] - 1) * ChunkLength(r)
      <3>1. Full(r) /\ bufferCounter'[r] - 1 = bufferCounter[r]
        BY <2>1 DEF Reports, CountersAt
      <3> QED BY <3>1 DEF Full
    <2>6. newMakers[r] = temporary[r] /\ MadeFrom(r, recordCounter[r])'
      BY <1>2, <2>1, <2>4 DEF SavedAt, MadeFrom, Chunking
    <2>7. /\ newMakers[r] = {} => KnownUpTo(r, pos[r])'
          /\ KnownUpTo(r, recordCounter[r]) /\ UNCHANGED request
      BY <1>2, <2>1 DEF SavedAt, KnownUpTo
    <2>8. newMakers'[r] = {} => KnownUpTo(r, recordCounter[r])'
      BY <2>1, <2>4, <2>7 DEF KnownUpTo
    <2>9. KnownUpTo(r, (bufferCounter[r] - 1) * ChunkLength(r))'
      <3>1. KnownUpTo(r, (bufferCounter'[r] - 1) * ChunkLength(r))
        BY <2>5, <2>7
      <3> QED BY <1>2, <2>7, <3>1 DEF KnownUpTo
    <2> QED BY <2>1, <2>6, <2>8, <2>9 DEF SavedAt, Chunking
  <1>9. CASE CommitTransaction(r)
    <2>1. /\ UNCHANGED <<request, bufferCounter>>
          /\ pc[r] = "commit" /\ pc'[r] \in {"finish", "rollback"}
      BY <1>9 DEF CommitTransaction, local
    <2>2. KnownUpTo(r, (bufferCounter[r] - 1) * ChunkLength(r))
      BY <2>1 DEF SavedAt
    <2>3. KnownUpTo(r, (bufferCounter[r] - 1) * ChunkLength(r))'
      BY <1>2, <2>1, <2>2 DEF KnownUpTo
    <2> QED BY <2>1, <2>3 DEF SavedAt, Chunking
  <1>10. CASE DeleteProcess(r)
    <2>1. UNCHANGED <<pc, request, pos, temporary, newMakers, recordCounter, bufferCounter,
                      manufacturers>>
      BY <1>10 DEF DeleteProcess, local, transaction
    <2> QED BY <2>1, SavedStays
  <1>11. CASE Accept(r) \/ Prepare(r) \/ RollbackTransaction(r) \/ Conclude(r)
              \/ AbortWaiter(r) \/ DatabaseFault(r) \/ Crash(r)
    <2>1. pc'[r] \notin Chunking \cup {"finish"}
      BY <1>11 DEF Accept, Prepare, CreateProcess, StartProcess, ReadFileName,
                   TruncateVehicles, VacuumDatabase, DownloadFileFromStorage, ValidateFile,
                   HandleValidationErrors, RollbackTransaction, Conclude, FinishProcess,
                   FailProcess, Respond, SaveProcess, AbortWaiter, DatabaseFault, Crash,
                   Raise, Goto, Chunking
    <2> QED BY <1>1, <2>1
  <1> QED
    BY <1>3, <1>4, <1>5, <1>6, <1>7, <1>8, <1>9, <1>10, <1>11
    DEF Act, Step, ProcessChunks

LEMMA OthersSaved ==
    ASSUME Serial, OnlyImports, OutcomeFacts, NEW r \in Run, NEW s \in Run \ {r}, SavedAt(s), Act(r)
    PROVE  SavedAt(s)'
  <1>1. Same(s)
    BY OnlyOwn DEF OutcomeFacts, IInv, TypeInv
  <1>2. /\ temporary'[s] = temporary[s]
        /\ recordCounter'[s] = recordCounter[s] /\ bufferCounter'[s] = bufferCounter[s]
    BY DEF OutcomeFacts, IInv, TypeInv, TypeOK, Act, Accept, Step, Prepare, ProcessChunks,
         Conclude, CreateProcess,
         StartProcess, ReadFileName, TruncateVehicles, VacuumDatabase,
         DownloadFileFromStorage, ValidateFile, HandleValidationErrors,
         BeginTransaction, ReadRecord, EndOfFile, ApplyRules, SaveManufacturers,
         InsertVehicle, EndOfChunk, CommitTransaction, RollbackTransaction,
         FinishProcess, FailProcess, Respond, SaveProcess, AbortWaiter,
         DatabaseFault, Crash, DeleteProcess, local
  <1>3. CASE pc[s] \in Active
    <2>1. ~CommitTransaction(r)
      BY <1>3 DEF OutcomeFacts, OneAtATime, Alone, CommitTransaction, Active, Processing,
                  Chunking
    <2>2. manufacturers' = manufacturers
      BY <2>1, MakersEffect
    <2> QED BY <1>1, <1>2, <2>2, SavedStays DEF Same
  <1>4. CASE pc[s] \notin Active
    BY <1>1, <1>4 DEF Same, SavedAt, Active, Processing, Chunking
  <1> QED BY <1>3, <1>4

(* The list of manufacturers is refused when a maker of an earlier chunk   *)
(* is on it.                                                               *)
LEMMA RefusedList ==
    ASSUME Serial, OnlyImports, OutcomeFacts, NEW r \in Run, SavedAt(r), pc[r] = "save",
           temporary[r] \cap newMakers[r] # {}
    PROVE  NewMakerBeforeLastChunk(r)
  <1> DEFINE n == Len(Lines(r))
             l == ChunkLength(r)
             q == (n - 1) \div l
  <1>1. /\ l \in Nat \ {0} /\ n \in Nat /\ bufferCounter[r] \in Nat /\ recordCounter[r] \in Nat
        /\ pos[r] \in Nat /\ pos[r] <= n
    BY ChunkingHas DEF OutcomeFacts, IInv, Chunking
  <1>2. recordCounter[r] = bufferCounter[r] * l /\ recordCounter[r] < pos[r]
    BY DEF OutcomeFacts, Reports, CountersAt, Full
  <1>3. PICK m \in newMakers[r] : TRUE
    OBVIOUS
  <1>4. m.name \notin Names({x \in manufacturers : x.by # r})
    BY <1>3 DEF OutcomeFacts, OneOfEach, FreshAt, Chunking, Names
  <1>5. PICK i \in 1..recordCounter[r] : m.name = Line(r, i).mh
    BY <1>3 DEF SavedAt, MadeFrom
  <1>6. recordCounter[r] <= q * l
    <2>1. bufferCounter[r] * l < n
      BY <1>1, <1>2
    <2> QED BY <1>1, <1>2, <2>1, LastChunk
  <1>7. i \in 1..(q * l)
    <2>1. q * l \in Int
      BY <1>1
    <2> HIDE DEF q
    <2> QED BY <1>1, <1>5, <1>6, <2>1
  <1> QED BY <1>4, <1>5, <1>7 DEF NewMakerBeforeLastChunk

(* A vehicle is refused for a VIN of an earlier line, or a value.          *)
LEMMA RefusedVehicle ==
    ASSUME Serial, OnlyImports, OutcomeFacts, NEW r \in Run, pc[r] = "insert",
           NEW i \in pending[r], Refused(r, i)
    PROVE  Defective(r)
  <1>1. /\ Len(Lines(r)) \in Nat /\ pos[r] \in Nat /\ pos[r] <= Len(Lines(r))
        /\ pending[r] \subseteq 1..pos[r]
    BY ChunkingHas DEF OutcomeFacts, IInv, TypeInv, Buffers, LinesAt, Chunking
  <1>2. CASE Line(r, i).kind = "unstorable"
    BY <1>1, <1>2 DEF Defective
  <1>3. CASE Line(r, i).vin \in Vins(vehicles \cup newVehicles[r])
    <2>1. vehicles = {}
      BY DEF OutcomeFacts, OneAtATime, Emptied, Chunking
    <2>2. newVehicles[r] = {Row(r, j) : j \in (1..pos[r]) \ pending[r]}
      BY DEF OutcomeFacts, IInv, Control, RowsAt, Unsaved, Chunking
    <2>3. PICK j \in (1..pos[r]) \ pending[r] : Line(r, i).vin = Line(r, j).vin
      BY <1>3, <2>1, <2>2 DEF Vins, Row
    <2>4. i \in 1..Len(Lines(r)) /\ j \in 1..Len(Lines(r)) /\ i # j
      BY <1>1
    <2> QED BY <2>3, <2>4 DEF Defective
  <1> QED BY <1>2, <1>3 DEF Refused

(* Nobody else holds a VIN.                                                *)
LEMMA NobodyHolds ==
    ASSUME Serial, OnlyImports, OutcomeFacts, \A s \in Run : OpenAt(s), NEW r \in Run, pc[r] = "insert"
    PROVE  ~Waits(r)
  <1>1. SUFFICES ASSUME NEW s \in Run \ {r}, newVehicles[s] # {} PROVE FALSE
    BY DEF Waits, VinHeld, Vins
  <1>2. txn[s] = "open"
    BY <1>1 DEF OutcomeFacts, IInv, Control, TransactionAt
  <1>3. pc[s] \in Active /\ pc[r] \in Active
    BY <1>2 DEF OpenAt, Active, Processing, Chunking
  <1> QED BY <1>3 DEF OutcomeFacts, OneAtATime, Alone

LEMMA OwnCause ==
    ASSUME Serial, OnlyImports, "database" \notin Disturbance, OutcomeFacts, \A s \in Run : OpenAt(s),
           NEW r \in Run, SavedAt(r), CauseAt(r), Act(r)
    PROVE  CauseAt(r)'
  <1> USE DEF OutcomeFacts, IInv, TypeInv, TypeOK
  <1> DEFINE Why == Defective(r) \/ NewMakerBeforeLastChunk(r)
  <1>1. ASSUME pc'[r] \notin {"reject", "fail", "rollback"} PROVE CauseAt(r)'
    BY <1>1 DEF CauseAt
  <1>2. ASSUME UNCHANGED <<request, manufacturers>>
        PROVE  Defective(r)' = Defective(r) /\ Why' = Why
    BY <1>2, SameCause
  <1>3. CASE ValidateFile(r)
    <2>1. /\ HasFile(r) /\ UNCHANGED <<request, manufacturers>>
          /\ pc'[r] \in {"error", "begin", "reject"}
          /\ pc'[r] = "reject" => ValidationErrors(r) # {}
      BY <1>3 DEF ValidateFile, Raise, Requests, RequestAt, database, local
    <2>2. ASSUME NEW i \in ValidationErrors(r) PROVE Defective(r)
      BY <2>2 DEF ValidationErrors, LinesOfKind, Defective
    <2> QED BY <1>2, <2>1, <2>2 DEF CauseAt
  <1>4. CASE SaveManufacturers(r)
    <2>1. UNCHANGED <<request, manufacturers>> /\ pc[r] = "save"
      BY <1>4 DEF SaveManufacturers, database
    <2>2. CASE temporary[r] \cap newMakers[r] = {}
      BY <1>1, <1>4, <2>2 DEF SaveManufacturers
    <2>3. CASE temporary[r] \cap newMakers[r] # {}
      <3>1. Why' /\ pc'[r] = "rollback"
        BY <1>2, <1>4, <2>1, <2>3, RefusedList DEF SaveManufacturers
      <3> QED BY <3>1 DEF CauseAt
    <2> QED BY <2>2, <2>3
  <1>5. CASE InsertVehicle(r)
    <2>1. UNCHANGED <<request, manufacturers>> /\ pc[r] = "insert"
      BY <1>5 DEF InsertVehicle, database
    <2>2. PICK i \in pending[r] :
            IF Refused(r, i) THEN pc' = [pc EXCEPT ![r] = "rollback"] ELSE UNCHANGED pc
      BY <1>5 DEF InsertVehicle
    <2>3. CASE Refused(r, i)
      <3>1. Why' /\ pc'[r] = "rollback"
        BY <1>2, <2>1, <2>2, <2>3, RefusedVehicle
      <3> QED BY <3>1 DEF CauseAt
    <2>4. CASE ~Refused(r, i)
      BY <1>1, <2>1, <2>2, <2>4
    <2> QED BY <2>3, <2>4
  <1>6. CASE CommitTransaction(r)
    <2>1. txn'[r] = "committed" /\ pc'[r] \in {"finish", "rollback"}
      BY <1>6 DEF CommitTransaction
    <2> QED BY <2>1 DEF CauseAt
  <1>7. CASE RollbackTransaction(r)
    <2>1. UNCHANGED <<request, manufacturers>> /\ pc[r] = "rollback"
      BY <1>7 DEF RollbackTransaction, database, local
    <2>2. CASE txn[r] = "open"
      <3>1. Why' /\ pc'[r] = "fail"
        BY <1>2, <1>7, <2>1, <2>2 DEF RollbackTransaction, CauseAt
      <3> QED BY <3>1 DEF CauseAt
    <2>3. CASE txn[r] # "open"
      BY <1>1, <1>7, <2>3 DEF RollbackTransaction, Raise
    <2> QED BY <2>2, <2>3
  <1>8. CASE AbortWaiter(r)
    <2>1. Waits(r) /\ pc[r] \in {"clear", "insert"}
      BY <1>8 DEF AbortWaiter
    <2>2. pc[r] = "clear"
      BY <2>1, NobodyHolds
    <2> QED BY <1>1, <1>8, <2>2 DEF AbortWaiter, Raise
  <1>9. CASE DeleteProcess(r)
    <2>1. UNCHANGED <<pc, txn, request, manufacturers>>
      BY <1>9 DEF DeleteProcess, local, transaction
    <2> QED BY <1>2, <2>1 DEF CauseAt
  <1>10. CASE Prepare(r) /\ ~ValidateFile(r)
    BY <1>1, <1>10 DEF Prepare, CreateProcess, StartProcess, ReadFileName, TruncateVehicles,
                  VacuumDatabase, DownloadFileFromStorage, HandleValidationErrors,
                  SaveProcess, Raise, Goto
  <1>11. CASE BeginTransaction(r) \/ ReadRecord(r) \/ EndOfFile(r) \/ ApplyRules(r)
              \/ EndOfChunk(r)
    BY <1>1, <1>11 DEF BeginTransaction, ReadRecord, EndOfFile, ApplyRules, EndOfChunk, Goto
  <1>12. CASE Accept(r) \/ Conclude(r) \/ Crash(r)
    BY <1>1, <1>12 DEF Accept, Conclude, FinishProcess, FailProcess, Respond, SaveProcess,
                  Crash, Raise, Goto
  <1> QED
    BY <1>3, <1>4, <1>5, <1>6, <1>7, <1>8, <1>9, <1>10, <1>11, <1>12
    DEF Act, Step, ProcessChunks, DatabaseFault

LEMMA OthersCause ==
    ASSUME Serial, OnlyImports, OutcomeFacts, NEW r \in Run, NEW s \in Run \ {r}, CauseAt(s), Act(r)
    PROVE  CauseAt(s)'
  <1>1. Same(s)
    BY OnlyOwn DEF OutcomeFacts, IInv, TypeInv
  <1>2. CASE pc[s] \in Active
    <2>1. ~CommitTransaction(r)
      BY <1>2 DEF OutcomeFacts, OneAtATime, Alone, CommitTransaction, Active, Processing,
                  Chunking
    <2>2. manufacturers' = manufacturers
      BY <2>1, MakersEffect
    <2> QED BY <1>1, <2>2, SameCause DEF Same, CauseAt
  <1>3. CASE pc[s] \notin Active
    BY <1>1, <1>3 DEF Same, CauseAt, Active, Before, Processing
  <1> QED BY <1>2, <1>3

LEMMA OutcomeStep == OutcomeFacts /\ OutcomeInv /\ [Next]_vars => OutcomeInv'
  <1> SUFFICES ASSUME OutcomeFacts, OutcomeInv, [Next]_vars, Serial, OnlyImports, NEW s \in Run
               PROVE  /\ (OpenAt(s) /\ OursAt(s) /\ SavedAt(s))'
                      /\ "database" \notin Disturbance => CauseAt(s)'
    BY DEF OutcomeInv
  <1>1. /\ \A x \in Run : OpenAt(x) /\ OursAt(x) /\ SavedAt(x)
        /\ "database" \notin Disturbance => CauseAt(s)
    BY DEF OutcomeInv
  <1>2. CASE UNCHANGED vars
    <2>1. UNCHANGED <<pc, txn, manufacturers, local, newMakers>>
      BY <1>2 DEF vars, database, transaction
    <2>2. SavedAt(s)'
      BY <1>1, <2>1, SavedStays DEF local
    <2>3. "database" \notin Disturbance => CauseAt(s)'
      BY <1>1, <2>1, SameCause DEF CauseAt, local
    <2> QED BY <1>1, <2>1, <2>2, <2>3 DEF OpenAt, OursAt
  <1>3. ASSUME NEW r \in Run, Act(r)
        PROVE  /\ (OpenAt(s) /\ OursAt(s) /\ SavedAt(s))'
               /\ "database" \notin Disturbance => CauseAt(s)'
    <2>1. OursAt(s)'
      BY <1>1, <1>3, OursStep
    <2>2. CASE s = r
      BY <1>1, <1>3, <2>1, <2>2, OwnOpen, OwnSaved, OwnCause DEF OutcomeFacts, IInv
    <2>3. CASE s # r
      <3>1. OpenAt(s)'
        BY <1>1, <1>3, <2>3, OnlyOwn DEF OutcomeFacts, IInv, TypeInv, Same, OpenAt
      <3> QED BY <1>1, <1>3, <2>1, <2>3, <3>1, OthersSaved, OthersCause
    <2> QED BY <2>2, <2>3
  <1> QED BY <1>2, <1>3 DEF Next, Act, OrganisationsApi, OnlyImports

LEMMA OutcomeAlways == Spec => [](OutcomeFacts /\ OutcomeInv)
  <1>1. Init => OutcomeInv
    BY DatabaseAssumption
    DEF Init, OutcomeInv, OpenAt, OursAt, SavedAt, CauseAt, Chunking
  <1>2. Spec => []OutcomeFacts
    BY Invariance, CheckedAlways, KnownAlways, OneAtATimeAlways, OneOfEachAlways,
       ReportsAlways, PTL DEF OutcomeFacts
  <1> QED BY <1>1, <1>2, OutcomeStep, PTL DEF Spec

(* What an import that is about to be Finished has got through.            *)
LEMMA NothingWasWrong ==
    ASSUME Serial, OnlyImports, OutcomeFacts, OutcomeInv, NEW r \in Run, pc[r] = "finish"
    PROVE  ~Defective(r) /\ ~NewMakerBeforeLastChunk(r)
  <1>1. HasFile(r) /\ request[r] \in Request /\ txn[r] = "committed"
    BY DEF OutcomeFacts, IInv, TypeInv, Requests, RequestAt, Control, TransactionAt, Active,
           Processing
  <1>2. Len(Lines(r)) \in Nat /\ \A i \in 1..Len(Lines(r)) : Line(r, i) \in Record
    BY <1>1, LinesAreRecords
  <1>3. Different(r, 1..Len(Lines(r))) /\ Clean(r)
    BY <1>1 DEF OutcomeFacts, Checked, CleanAt, Reports, DifferentAt
  <1>4. \A i \in 1..Len(Lines(r)) : Line(r, i).kind = "good"
    <2>1. \A i \in 1..Len(Lines(r)) :
            Line(r, i).kind \in Kinds /\ Line(r, i).kind \notin {"badVin", "unreadable", "unstorable"}
      BY <1>2, <1>3 DEF Record, Clean, LinesOfKind, Different
    <2> QED BY <2>1 DEF Kinds
  <1>5. ~Defective(r)
    BY <1>3, <1>4 DEF Defective, Different
  <1>6. ChunkLength(r) \in Nat \ {0}
    <2>1. request[r].chunkSize \in Int
      BY <1>1, FileAssumption DEF Request
    <2> QED BY <2>1 DEF ChunkLength
  <1>7. Chunks(r) - 1 = (Len(Lines(r)) - 1) \div ChunkLength(r)
    BY <1>2, <1>6, LastChunk
  <1>8. KnownUpTo(r, (bufferCounter[r] - 1) * ChunkLength(r)) /\ bufferCounter[r] = Chunks(r)
    BY DEF OutcomeInv, SavedAt, OutcomeFacts, Reports, CountersAt, Whole
  <1>9. ~NewMakerBeforeLastChunk(r)
    BY <1>7, <1>8 DEF KnownUpTo, NewMakerBeforeLastChunk
  <1> QED BY <1>5, <1>9

(* Only three calls settle a process.                                      *)
LEMMA SettlingCalls ==
    ASSUME IInv, NEW r \in Run, Act(r), Settles(r)
    PROVE  \/ pc[r] = "finish" /\ process'[r] = "Finished"
           \/ pc[r] \in {"fail", "reject"} /\ process'[r] = "Failed"
  BY DEF IInv, TypeInv, TypeOK, Settles, Act, Accept, Step, Prepare, ProcessChunks,
         Conclude, CreateProcess, StartProcess, ReadFileName, TruncateVehicles,
         VacuumDatabase, DownloadFileFromStorage, ValidateFile, HandleValidationErrors,
         BeginTransaction, ReadRecord, EndOfFile, ApplyRules, SaveManufacturers,
         InsertVehicle, EndOfChunk, CommitTransaction, RollbackTransaction,
         FinishProcess, FailProcess, Respond, SaveProcess, AbortWaiter,
         DatabaseFault, Crash, DeleteProcess, database

(* With one execution at a time, no other writer of the manufacturers, and *)
(* while the calls to the database do not fail, the file decides how an    *)
(* import that settles ends: a defect anywhere in it makes it Failed, and  *)
(* without one it is Finished, unless a new maker stands before the last   *)
(* chunk; whatever the chunk size and the files that were imported before, *)
(* and also when instances die, acknowledgements are lost or processes are *)
(* deleted.                                                                *)
THEOREM FileDecidesOutcome ==
    ASSUME Serial, Disturbance \cap {"database", "organisations"} = {}
    PROVE  Spec => OutcomeMatchesFile
  <1> DEFINE Decided(r) == Settles(r) =>
                 /\ Defective(r) => process'[r] = "Failed"
                 /\ ~Defective(r) /\ ~NewMakerBeforeLastChunk(r) =>
                       process'[r] = "Finished"
  <1>0. OnlyImports /\ "database" \notin Disturbance
    BY DEF OnlyImports
  <1>1. ASSUME OutcomeFacts, OutcomeInv, [Next]_vars
        PROVE  [\A r \in Run : Decided(r)]_vars
    <2> SUFFICES ASSUME Next, NEW r \in Run, Settles(r)
                 PROVE  /\ Defective(r) => process'[r] = "Failed"
                        /\ ~Defective(r) /\ ~NewMakerBeforeLastChunk(r) =>
                              process'[r] = "Finished"
      BY <1>1
    <2>1. PICK s \in Run : Act(s)
      BY <1>0 DEF Next, Act, OrganisationsApi, OnlyImports
    <2>2. s = r
      <3>1. s # r => process'[r] = process[r]
        BY <1>1, <2>1, OnlyOwn DEF OutcomeFacts, IInv, TypeInv, Same
      <3> QED BY <3>1 DEF Settles
    <2>3. \/ pc[r] = "finish" /\ process'[r] = "Finished"
          \/ pc[r] \in {"fail", "reject"} /\ process'[r] = "Failed"
      BY <1>1, <2>1, <2>2, SettlingCalls DEF OutcomeFacts
    <2>4. CASE pc[r] = "finish"
      BY <1>0, <1>1, <2>3, <2>4, NothingWasWrong
    <2>5. CASE pc[r] \in {"fail", "reject"}
      BY <1>0, <1>1, <2>3, <2>5 DEF OutcomeInv, CauseAt
    <2> QED BY <2>3, <2>4, <2>5
  <1> QED BY <1>1, OutcomeAlways, PTL DEF Spec, OutcomeMatchesFile
=============================================================================
