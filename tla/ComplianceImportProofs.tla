----------------------- MODULE ComplianceImportProofs -----------------------
(***************************************************************************)
(* Proofs about ComplianceImport, for any executions, files, chunk sizes   *)
(* and disturbances.                                                       *)
(***************************************************************************)
EXTENDS ComplianceImport, FiniteSetTheorems, TLAPS

(* What the program text of one execution guarantees at each of its calls: *)
(* the state of its process row ...                                        *)
ProcessAt(r) ==
    /\ pc[r] \in {"idle", "create"} => process[r] = "Absent"
    /\ pc[r] = "start" => process[r] \in {"Waiting", "Deleted"}
    /\ pc[r] \in Before \cup Processing => process[r] \in {"Running", "Deleted"}

(* ... its request ...                                                     *)
RequestAt(r) ==
    /\ pc[r] \in Active => request[r] \in Request
    /\ pc[r] \in {"validate", "reject", "begin"} \cup Processing => HasFile(r)

(* ... its transaction ...                                                 *)
TransactionAt(r) ==
    /\ pc[r] \in {"idle", "create", "start"} \cup Before => txn[r] = "none"
    /\ pc[r] \in Chunking => txn[r] = "open"
    /\ pc[r] = "finish" => txn[r] = "committed"
    /\ pc[r] = "fail" => txn[r] = "rolledback"
    /\ txn[r] # "open" => newVehicles[r] = {} /\ newMakers[r] = {}
    /\ process[r] = "Finished" => txn[r] = "committed"
    /\ process[r] = "Failed" => txn[r] # "committed"

(* ... the lines it has read and those of them still on the stack ...      *)
LinesAt(r) ==
    /\ pc[r] \in {"idle", "create", "start"} \cup Before =>
          pos[r] = 0 /\ stack[r] = {}
    /\ pc[r] \in Chunking => pos[r] <= Len(Lines(r)) /\ stack[r] \subseteq 1..pos[r]
    /\ pc[r] = "insert" => pending[r] \subseteq stack[r]
    /\ pc[r] = "commit" => stack[r] = {} /\ pos[r] = Len(Lines(r))

(* ... and its rows: each line read is inserted, or still to be inserted.  *)
Unsaved(r) == IF pc[r] = "insert" THEN pending[r] ELSE stack[r]

RowsAt(r) ==
    pc[r] \in Chunking =>
        newVehicles[r] = {Row(r, i) : i \in (1..pos[r]) \ Unsaved(r)}

Requests == \A r \in Run : RequestAt(r)
Buffers == \A r \in Run : LinesAt(r)
TypeInv == TypeOK /\ Requests /\ Buffers

Control == \A r \in Run : ProcessAt(r) /\ TransactionAt(r) /\ RowsAt(r)
IInv == TypeInv /\ Control /\ AllOrNothing

-----------------------------------------------------------------------------
(* A line of a file in the bucket is a record.                             *)
LEMMA LinesAreRecords ==
    ASSUME NEW r \in Run, HasFile(r)
    PROVE  /\ Lines(r) \in Seq(Record)
           /\ \A i \in 1..Len(Lines(r)) : Line(r, i) \in Record
           /\ \A i \in 1..Len(Lines(r)) : Row(r, i) \in Vehicle
  <1>1. Lines(r) \in Seq(Record)
    BY FileAssumption DEF HasFile, Lines
  <1>2. \A i \in 1..Len(Lines(r)) : Line(r, i) \in Record
    BY <1>1 DEF Line
  <1>3. \A i \in 1..Len(Lines(r)) : Row(r, i) \in Vehicle
    BY <1>2 DEF Row, Record, Vehicle
  <1> QED BY <1>1, <1>2, <1>3

LEMMA RowsAreVehicles == \A r \in Run : RowsOf(r) \subseteq Vehicle
  BY LinesAreRecords DEF RowsOf

-----------------------------------------------------------------------------
(* Type correctness.  The counts in a Result document are numbers because  *)
(* the stack and the error list are finite, and the rows have their type   *)
(* because the lines on the stack are lines of a file: hence RequestAt and *)
(* LinesAt.                                                                *)

LEMMA TypeInit == Init => TypeInv
  BY DatabaseAssumption, FS_EmptySet
  DEF Init, TypeInv, TypeOK, Requests, RequestAt, Buffers, LinesAt, Labels, Active, Before,
      Processing, Chunking, Vehicle, Manufacturer

(* Leaving by an exception keeps the types.                                *)
LEMMA RaiseType ==
    ASSUME TypeOK, NEW r \in Run, Raise(r)
    PROVE  /\ pc' \in [Run -> Labels]
           /\ txn' \in [Run -> {"none", "open", "committed", "rolledback"}]
           /\ newVehicles' \in [Run -> SUBSET Vehicle]
           /\ newMakers' \in [Run -> SUBSET Manufacturer]
  BY DEF Raise, Abandon, TypeOK, Labels, Ended

LEMMA SaveProcessType ==
    ASSUME TypeInv, NEW r \in Run,
           NEW from, NEW state \in {"Waiting", "Running", "Finished", "Failed"},
           NEW doc \in Result \cup {NoResult}, NEW to \in Labels,
           SaveProcess(r, from, state, doc, to)
    PROVE  TypeOK'
  <1>1. CASE UNCHANGED transaction /\ pc' = [pc EXCEPT ![r] = to]
    BY <1>1 DEF SaveProcess, TypeInv, TypeOK, transaction, local
  <1>2. CASE Raise(r)
    BY <1>2, RaiseType DEF SaveProcess, TypeInv, TypeOK, local
  <1> QED BY <1>1, <1>2 DEF SaveProcess

LEMMA ValidationErrorsFinite ==
    ASSUME NEW r \in Run, HasFile(r)
    PROVE  Cardinality(ValidationErrors(r)) \in Nat
  <1>1. ValidationErrors(r) \subseteq 1..Len(Lines(r))
    BY DEF ValidationErrors, LinesOfKind
  <1>2. Len(Lines(r)) \in Nat
    BY LinesAreRecords
  <1>3. IsFiniteSet(1..Len(Lines(r)))
    BY <1>2, FS_Interval
  <1>4. IsFiniteSet(ValidationErrors(r))
    BY <1>1, <1>3, FS_Subset
  <1> QED BY <1>4, FS_CardinalityType

(* The organisations API writes nothing but the manufacturers, and neither *)
(* does a step in which nothing happens.                                   *)
Quiet == UNCHANGED <<process, result, vehicles, pc, local, transaction>>

LEMMA QuietSteps == OrganisationsApi \/ UNCHANGED vars => Quiet
  BY DEF OrganisationsApi, Quiet, vars, database

LEMMA RequestStep == TypeInv /\ [Next]_vars => Requests'
  <1> SUFFICES ASSUME TypeInv, [Next]_vars, NEW s \in Run
               PROVE  RequestAt(s)'
    BY DEF Requests
  <1> USE DEF TypeInv, TypeOK, Requests, RequestAt, HasFile, Active, Before,
              Processing, Chunking
  <1>1. CASE Quiet
    BY <1>1 DEF Quiet, local
  <1>2. ASSUME NEW r \in Run, Accept(r) PROVE RequestAt(s)'
    BY <1>2 DEF Accept, Goto
  <1>3. ASSUME NEW r \in Run, Prepare(r) PROVE RequestAt(s)'
    <2>1. CASE CreateProcess(r) \/ StartProcess(r) \/ HandleValidationErrors(r)
      BY <1>3, <2>1 DEF CreateProcess, StartProcess, HandleValidationErrors,
                        SaveProcess, Raise, local
    <2>2. CASE ReadFileName(r) \/ TruncateVehicles(r) \/ VacuumDatabase(r)
      BY <1>3, <2>2 DEF ReadFileName, TruncateVehicles, VacuumDatabase, Raise, Goto, local
    <2>3. CASE DownloadFileFromStorage(r)
      BY <1>3, <2>3, EnvironmentAssumption DEF DownloadFileFromStorage, Raise, local
    <2>4. CASE ValidateFile(r)
      BY <1>3, <2>4 DEF ValidateFile, Raise, local
    <2> QED BY <1>3, <2>1, <2>2, <2>3, <2>4 DEF Prepare
  <1>4. ASSUME NEW r \in Run, ProcessChunks(r) PROVE RequestAt(s)'
    <2>1. CASE BeginTransaction(r) \/ ReadRecord(r) \/ EndOfFile(r) \/ ApplyRules(r)
      BY <1>4, <2>1 DEF BeginTransaction, ReadRecord, EndOfFile, ApplyRules, Goto, local
    <2>2. CASE SaveManufacturers(r) \/ InsertVehicle(r) \/ EndOfChunk(r)
      BY <1>4, <2>2 DEF SaveManufacturers, InsertVehicle, EndOfChunk, Goto
    <2>3. CASE CommitTransaction(r) \/ RollbackTransaction(r)
      BY <1>4, <2>3 DEF CommitTransaction, RollbackTransaction, Raise, local
    <2> QED BY <1>4, <2>1, <2>2, <2>3 DEF ProcessChunks
  <1>5. ASSUME NEW r \in Run, Conclude(r) PROVE RequestAt(s)'
    BY <1>5 DEF Conclude, FinishProcess, FailProcess, Respond, SaveProcess, Raise,
                Goto, local
  <1>6. ASSUME NEW r \in Run, AbortWaiter(r) \/ DatabaseFault(r) PROVE RequestAt(s)'
    BY <1>6 DEF AbortWaiter, DatabaseFault, Raise, local
  <1>7. ASSUME NEW r \in Run, Crash(r) \/ DeleteProcess(r) PROVE RequestAt(s)'
    BY <1>7 DEF Crash, DeleteProcess, local
  <1> QED BY <1>1, <1>2, <1>3, <1>4, <1>5, <1>6, <1>7, QuietSteps DEF Next, Step

LEMMA TypeStep == TypeInv /\ [Next]_vars => TypeOK'
  <1> SUFFICES ASSUME TypeInv, [Next]_vars PROVE TypeOK'
    OBVIOUS
  <1> USE DEF TypeInv
  <1>1. CASE UNCHANGED vars
    BY <1>1 DEF TypeOK, vars, database, local, transaction
  <1>2. ASSUME NEW r \in Run, Accept(r) PROVE TypeOK'
    BY <1>2 DEF Accept, Goto, TypeOK, Labels, Active, Ended, database, transaction
  <1>3. ASSUME NEW r \in Run, Prepare(r) PROVE TypeOK'
    <2>1. CASE CreateProcess(r) \/ StartProcess(r)
      BY <1>3, <2>1, SaveProcessType
      DEF CreateProcess, StartProcess, Labels, Active, Before
    <2>2. CASE HandleValidationErrors(r)
      <3> DEFINE doc == [count |-> 0, buffers |-> 0,
                         errors |-> Cardinality(ValidationErrors(r))]
      <3>1. HasFile(r)
        BY <2>2 DEF HandleValidationErrors, SaveProcess, Requests, RequestAt
      <3>2. doc \in Result
        BY <3>1, ValidationErrorsFinite DEF Result
      <3>3. SaveProcess(r, "reject", "Failed", doc, "reply")
        BY <2>2 DEF HandleValidationErrors
      <3> HIDE DEF doc
      <3> QED BY <3>2, <3>3, SaveProcessType DEF Labels, Active
    <2>3. CASE ReadFileName(r)
      BY <2>3, RaiseType DEF ReadFileName, TypeOK, database, local
    <2>4. CASE TruncateVehicles(r) \/ VacuumDatabase(r)
      BY <2>4 DEF TruncateVehicles, VacuumDatabase, Goto, TypeOK, database, local,
                  transaction, Labels, Active, Before
    <2>5. CASE DownloadFileFromStorage(r)
      BY <2>5, RaiseType DEF DownloadFileFromStorage, TypeOK, database, local,
                             transaction, Labels, Active, Before
    <2>6. CASE ValidateFile(r)
      BY <2>6, RaiseType DEF ValidateFile, TypeOK, database, local,
                             transaction, Labels, Active, Before
    <2> QED BY <1>3, <2>1, <2>2, <2>3, <2>4, <2>5, <2>6 DEF Prepare
  <1>4. ASSUME NEW r \in Run, ProcessChunks(r) PROVE TypeOK'
    <2> USE DEF Labels, Active, Before, Processing, Chunking
    <2>1. CASE BeginTransaction(r) \/ EndOfFile(r)
      BY <2>1 DEF BeginTransaction, EndOfFile, Goto, TypeOK, database, local, transaction
    <2>2. CASE ReadRecord(r)
      <3>1. IsFiniteSet(stack[r] \cup {pos[r] + 1})
        BY FS_AddElement DEF TypeOK
      <3>2. pos[r] + 1 \in Nat /\ stack[r] \cup {pos[r] + 1} \in SUBSET Nat
        BY DEF TypeOK
      <3> QED BY <2>2, <3>1, <3>2 DEF ReadRecord, TypeOK, database, transaction
    <2>3. CASE ApplyRules(r)
      <3>1. MakersToAdd(r) \subseteq Manufacturer
        <4>1. HasFile(r) /\ pc[r] = "apply"
          BY <2>3 DEF ApplyRules, Goto, Requests, RequestAt
        <4>2. \A i \in stack[r] : i \in 1..Len(Lines(r))
          BY <4>1, LinesAreRecords DEF TypeOK, Buffers, LinesAt
        <4>3. \A i \in stack[r] : Line(r, i).mh \in Maker
          BY <4>1, <4>2, LinesAreRecords DEF Record
        <4> QED BY <4>3 DEF MakersToAdd, Manufacturer
      <3> QED BY <2>3, <3>1 DEF ApplyRules, Goto, TypeOK, database, transaction
    <2>4. CASE SaveManufacturers(r)
      BY <2>4 DEF SaveManufacturers, TypeOK, database
    <2>5. CASE InsertVehicle(r)
      <3>1. HasFile(r) /\ pc[r] = "insert"
        BY <2>5 DEF InsertVehicle, Requests, RequestAt
      <3>2. \A i \in pending[r] : i \in 1..Len(Lines(r))
        BY <3>1, LinesAreRecords DEF TypeOK, Buffers, LinesAt
      <3>3. \A i \in pending[r] : Row(r, i) \in Vehicle
        BY <3>1, <3>2, LinesAreRecords
      <3> QED BY <2>5, <3>3 DEF InsertVehicle, TypeOK, database
    <2>6. CASE EndOfChunk(r)
      BY <2>6, FS_CardinalityType, FS_EmptySet
      DEF EndOfChunk, CountChunk, Goto, TypeOK, database, transaction
    <2>7. CASE CommitTransaction(r)
      BY <2>7 DEF CommitTransaction, TypeOK, local
    <2>8. CASE RollbackTransaction(r)
      BY <2>8, RaiseType DEF RollbackTransaction, Abandon, TypeOK, database, local
    <2> QED BY <1>4, <2>1, <2>2, <2>3, <2>4, <2>5, <2>6, <2>7, <2>8 DEF ProcessChunks
  <1>5. ASSUME NEW r \in Run, Conclude(r) PROVE TypeOK'
    <2>1. ProcessingResult(r) \in Result
      BY DEF ProcessingResult, Result, TypeOK
    <2>2. CASE FinishProcess(r) \/ FailProcess(r)
      BY <2>1, <2>2, SaveProcessType DEF FinishProcess, FailProcess, Labels, Active
    <2>3. CASE Respond(r)
      BY <2>3 DEF Respond, Goto, TypeOK, database, local, transaction, Labels, Ended
    <2> QED BY <1>5, <2>2, <2>3 DEF Conclude
  <1>6. ASSUME NEW r \in Run, AbortWaiter(r) \/ DatabaseFault(r) PROVE TypeOK'
    BY <1>6, RaiseType DEF AbortWaiter, DatabaseFault, TypeOK, database, local,
                           transaction, Labels, Active, Processing
  <1>7. ASSUME NEW r \in Run, Crash(r) \/ DeleteProcess(r) PROVE TypeOK'
    BY <1>7 DEF Crash, DeleteProcess, Abandon, TypeOK, database, local, transaction,
                Labels, Ended
  <1>8. CASE OrganisationsApi
    <2>1. UNCHANGED <<process, result, vehicles, pc, local, transaction>>
      BY <1>8 DEF OrganisationsApi
    <2>2. manufacturers' \subseteq Manufacturer /\ formerNames' \subseteq Maker
      BY <1>8, EnvironmentAssumption
         DEF OrganisationsApi, CreateManufacturer, DeleteManufacturer,
             UpdateManufacturer, TypeOK, Manufacturer
    <2> QED BY <2>1, <2>2 DEF TypeOK, local, transaction
  <1> QED BY <1>1, <1>2, <1>3, <1>4, <1>5, <1>6, <1>7, <1>8 DEF Next, Step

LEMMA BufferStep == TypeInv /\ [Next]_vars => Buffers'
  <1> SUFFICES ASSUME TypeInv, [Next]_vars, NEW s \in Run
               PROVE  LinesAt(s)'
    BY DEF Buffers
  <1> USE DEF TypeInv, TypeOK, Buffers, LinesAt, Active, Before, Processing, Chunking,
              Lines
  <1>1. CASE Quiet
    BY <1>1 DEF Quiet, local
  <1>2. ASSUME NEW r \in Run, Accept(r) PROVE LinesAt(s)'
    BY <1>2 DEF Accept, Goto
  <1>3. ASSUME NEW r \in Run, Prepare(r) PROVE LinesAt(s)'
    <2>1. CASE CreateProcess(r) \/ StartProcess(r) \/ HandleValidationErrors(r)
      BY <1>3, <2>1 DEF CreateProcess, StartProcess, HandleValidationErrors,
                        SaveProcess, Raise, local
    <2>2. CASE ReadFileName(r) \/ TruncateVehicles(r) \/ VacuumDatabase(r)
      BY <1>3, <2>2 DEF ReadFileName, TruncateVehicles, VacuumDatabase, Raise, Goto, local
    <2>3. CASE DownloadFileFromStorage(r)
      BY <1>3, <2>3 DEF DownloadFileFromStorage, Raise, local
    <2>4. CASE ValidateFile(r)
      BY <1>3, <2>4 DEF ValidateFile, Raise, local
    <2> QED BY <1>3, <2>1, <2>2, <2>3, <2>4 DEF Prepare
  <1>4. ASSUME NEW r \in Run, ProcessChunks(r) PROVE LinesAt(s)'
    <2>0. pc[r] \in Chunking \cup {"begin"} => Len(Lines(r)) \in Nat
      BY LinesAreRecords DEF Requests, RequestAt
    <2>1. CASE BeginTransaction(r)
      BY <2>0, <2>1 DEF BeginTransaction, Goto, local
    <2>2. CASE ReadRecord(r)
      BY <2>0, <2>2 DEF ReadRecord
    <2>3. CASE EndOfFile(r) \/ ApplyRules(r)
      BY <2>3 DEF EndOfFile, ApplyRules, Goto, local
    <2>4. CASE SaveManufacturers(r)
      BY <2>4 DEF SaveManufacturers
    <2>5. CASE InsertVehicle(r)
      <3>1. /\ UNCHANGED <<request, pos, stack>>
            /\ pending'[s] \subseteq pending[s]
            /\ pc'[s] \in {pc[s], "rollback"}
        BY <2>5 DEF InsertVehicle
      <3> QED BY <3>1
    <2>6. CASE EndOfChunk(r)
      <3>1. UNCHANGED <<request, pos, pending>>
        BY <2>6 DEF EndOfChunk
      <3>2. CASE s # r
        BY <2>6, <3>1, <3>2 DEF EndOfChunk, Goto
      <3>3. CASE s = r
        BY <2>6, <3>1, <3>3 DEF EndOfChunk, Goto
      <3> QED BY <3>2, <3>3
    <2>7. CASE CommitTransaction(r)
      BY <2>7 DEF CommitTransaction, local
    <2>8. CASE RollbackTransaction(r)
      BY <2>8 DEF RollbackTransaction, Raise, local
    <2> QED BY <1>4, <2>1, <2>2, <2>3, <2>4, <2>5, <2>6, <2>7, <2>8 DEF ProcessChunks
  <1>5. ASSUME NEW r \in Run, Conclude(r) PROVE LinesAt(s)'
    <2>1. UNCHANGED local /\ pc'[s] \in {pc[s], "reply", "ok", "error"}
      BY <1>5 DEF Conclude, FinishProcess, FailProcess, Respond, SaveProcess, Raise,
                  Goto, local
    <2> QED BY <2>1 DEF local
  <1>6. ASSUME NEW r \in Run, AbortWaiter(r) \/ DatabaseFault(r) PROVE LinesAt(s)'
    BY <1>6 DEF AbortWaiter, DatabaseFault, Raise, local
  <1>7. ASSUME NEW r \in Run, Crash(r) \/ DeleteProcess(r) PROVE LinesAt(s)'
    BY <1>7 DEF Crash, DeleteProcess, local
  <1> QED BY <1>1, <1>2, <1>3, <1>4, <1>5, <1>6, <1>7, QuietSteps DEF Next, Step

LEMMA TypeInvariance == Spec => []TypeInv
  <1>1. TypeInv /\ [Next]_vars => TypeInv'
    BY RequestStep, TypeStep, BufferStep DEF TypeInv
  <1> QED BY TypeInit, <1>1, PTL DEF Spec

(* The variables keep their types, in every behaviour of the import.       *)
THEOREM TypeCorrect == Spec => []TypeOK
  <1>1. TypeInv => TypeOK
    BY DEF TypeInv
  <1> QED BY TypeInvariance, <1>1, PTL

-----------------------------------------------------------------------------
(* The inductive invariant.  A step is the step of one execution and leaves*)
(* the part of the state that belongs to every other execution alone.      *)

Act(r) == Accept(r) \/ Step(r) \/ DatabaseFault(r) \/ Crash(r) \/ DeleteProcess(r)

Same(s) ==
    /\ process'[s] = process[s] /\ pc'[s] = pc[s] /\ request'[s] = request[s]
    /\ pos'[s] = pos[s] /\ stack'[s] = stack[s] /\ pending'[s] = pending[s]
    /\ txn'[s] = txn[s]
    /\ newVehicles'[s] = newVehicles[s] /\ newMakers'[s] = newMakers[s]

LEMMA OnlyOwn ==
    ASSUME TypeOK, NEW r \in Run, NEW s \in Run \ {r}, Act(r)
    PROVE  Same(s)
  <1> USE DEF TypeOK, Same
  <1>1. CASE Accept(r)
    BY <1>1 DEF Accept, Goto, database, transaction
  <1>2. CASE Prepare(r)
    <2>1. CASE CreateProcess(r) \/ StartProcess(r) \/ HandleValidationErrors(r)
      BY <2>1 DEF CreateProcess, StartProcess, HandleValidationErrors, SaveProcess,
                  Raise, Abandon, local, transaction
    <2>2. CASE ReadFileName(r) \/ TruncateVehicles(r) \/ VacuumDatabase(r)
      BY <2>2 DEF ReadFileName, TruncateVehicles, VacuumDatabase, Goto, Raise, Abandon,
                  database, local, transaction
    <2>3. CASE DownloadFileFromStorage(r)
      BY <2>3 DEF DownloadFileFromStorage, Raise, Abandon, database, local, transaction
    <2>4. CASE ValidateFile(r)
      BY <2>4 DEF ValidateFile, Raise, Abandon, database, local, transaction
    <2> QED BY <1>2, <2>1, <2>2, <2>3, <2>4 DEF Prepare
  <1>3. CASE ProcessChunks(r)
    <2>1. CASE BeginTransaction(r) \/ ReadRecord(r) \/ EndOfFile(r) \/ ApplyRules(r)
      BY <2>1 DEF BeginTransaction, ReadRecord, EndOfFile, ApplyRules, Goto,
                  database, local, transaction
    <2>2. CASE SaveManufacturers(r)
      BY <2>2 DEF SaveManufacturers, database
    <2>3. CASE InsertVehicle(r)
      BY <2>3 DEF InsertVehicle, database
    <2>4. CASE EndOfChunk(r)
      BY <2>4 DEF EndOfChunk, Goto, database, transaction
    <2>5. CASE CommitTransaction(r)
      BY <2>5 DEF CommitTransaction, local
    <2>6. CASE RollbackTransaction(r)
      BY <2>6 DEF RollbackTransaction, Raise, Abandon, database, local
    <2> QED BY <1>3, <2>1, <2>2, <2>3, <2>4, <2>5, <2>6 DEF ProcessChunks
  <1>4. CASE Conclude(r)
    BY <1>4 DEF Conclude, FinishProcess, FailProcess, Respond, SaveProcess, Raise,
                Abandon, Goto, database, local, transaction
  <1>5. CASE AbortWaiter(r) \/ DatabaseFault(r)
    BY <1>5 DEF AbortWaiter, DatabaseFault, Raise, Abandon, database, local, transaction
  <1>6. CASE Crash(r) \/ DeleteProcess(r)
    BY <1>6 DEF Crash, DeleteProcess, Abandon, database, local, transaction
  <1> QED BY <1>1, <1>2, <1>3, <1>4, <1>5, <1>6 DEF Act, Step

(* Where the execution that takes the step stands after it.                *)
LEMMA OwnControl ==
    ASSUME TypeInv, Control, NEW r \in Run, Act(r)
    PROVE  ProcessAt(r)' /\ TransactionAt(r)'
  <1> ProcessAt(r) /\ TransactionAt(r)
    BY DEF Control
  <1> USE DEF TypeInv, TypeOK, ProcessAt, TransactionAt, Active, Before, Processing,
              Chunking
  <1>1. CASE Accept(r)
    BY <1>1 DEF Accept, Goto, database, transaction
  <1>2. CASE CreateProcess(r)
    BY <1>2 DEF CreateProcess, SaveProcess, Raise, Abandon, transaction
  <1>3. CASE StartProcess(r)
    BY <1>3 DEF StartProcess, SaveProcess, Raise, Abandon, transaction
  <1>4. CASE ReadFileName(r)
    BY <1>4 DEF ReadFileName, Raise, Abandon, database
  <1>5. CASE TruncateVehicles(r)
    BY <1>5 DEF TruncateVehicles, Goto, transaction
  <1>6. CASE VacuumDatabase(r)
    BY <1>6 DEF VacuumDatabase, Goto, database, transaction
  <1>7. CASE DownloadFileFromStorage(r)
    BY <1>7 DEF DownloadFileFromStorage, Raise, Abandon, database, transaction
  <1>8. CASE ValidateFile(r)
    BY <1>8 DEF ValidateFile, Raise, Abandon, database, transaction
  <1>9. CASE HandleValidationErrors(r)
    BY <1>9 DEF HandleValidationErrors, SaveProcess, Raise, Abandon, transaction
  <1>10. CASE BeginTransaction(r)
    BY <1>10 DEF BeginTransaction, Goto, database
  <1>11. CASE ReadRecord(r) \/ EndOfFile(r) \/ ApplyRules(r) \/ EndOfChunk(r)
    BY <1>11 DEF ReadRecord, EndOfFile, ApplyRules, EndOfChunk, Goto, database, transaction
  <1>12. CASE SaveManufacturers(r)
    BY <1>12 DEF SaveManufacturers, database
  <1>13. CASE InsertVehicle(r)
    BY <1>13 DEF InsertVehicle, database
  <1>14. CASE CommitTransaction(r)
    BY <1>14 DEF CommitTransaction
  <1>15. CASE RollbackTransaction(r)
    BY <1>15 DEF RollbackTransaction, Raise, Abandon, database
  <1>16. CASE FinishProcess(r)
    BY <1>16 DEF FinishProcess, SaveProcess, Raise, Abandon, transaction
  <1>17. CASE FailProcess(r)
    BY <1>17 DEF FailProcess, SaveProcess, Raise, Abandon, transaction
  <1>18. CASE Respond(r)
    BY <1>18 DEF Respond, Goto, database, transaction
  <1>19. CASE AbortWaiter(r)
    BY <1>19 DEF AbortWaiter, Raise, Abandon, database, transaction
  <1>20. CASE DatabaseFault(r)
    BY <1>20 DEF DatabaseFault, Raise, Abandon, database, transaction
  <1>21. CASE Crash(r)
    BY <1>21 DEF Crash, Abandon, database
  <1>22. CASE DeleteProcess(r)
    BY <1>22 DEF DeleteProcess, transaction
  <1> QED
    BY <1>1, <1>2, <1>3, <1>4, <1>5, <1>6, <1>7, <1>8, <1>9, <1>10, <1>11, <1>12,
       <1>13, <1>14, <1>15, <1>16, <1>17, <1>18, <1>19, <1>20, <1>21, <1>22
    DEF Act, Step, Prepare, ProcessChunks, Conclude

(* The rows of its transaction are those of the lines read, less those not *)
(* inserted yet.                                                           *)
LEMMA OwnRows ==
    ASSUME TypeInv, Control, NEW r \in Run, Act(r)
    PROVE  RowsAt(r)'
  <1> ProcessAt(r) /\ TransactionAt(r) /\ RowsAt(r) /\ LinesAt(r) /\ RequestAt(r)
    BY DEF Control, TypeInv, Buffers, Requests
  <1> USE DEF TypeInv, TypeOK, Chunking
  <1>1. ASSUME pc'[r] \notin Chunking PROVE RowsAt(r)'
    BY <1>1 DEF RowsAt
  <1>2. ASSUME UNCHANGED request PROVE \A i : Row(r, i)' = Row(r, i)
    BY <1>2 DEF Row, Line, Lines
  <1>3. CASE Accept(r)
    BY <1>1, <1>3 DEF Accept, Goto
  <1>4. CASE Prepare(r)
    <2>1. pc'[r] \in {"start", "clear", "vacuum", "download", "validate", "begin",
                      "reject", "reply", "error"}
      BY <1>4 DEF Prepare, CreateProcess, StartProcess, ReadFileName, TruncateVehicles,
                  VacuumDatabase, DownloadFileFromStorage, ValidateFile,
                  HandleValidationErrors, SaveProcess, Raise, Goto
    <2> QED BY <1>1, <2>1
  <1>5. CASE BeginTransaction(r)
    <2>1. pos'[r] = 0 /\ stack'[r] = {} /\ newVehicles'[r] = {} /\ pc'[r] = "read"
      BY <1>5 DEF BeginTransaction, Goto, LinesAt, TransactionAt, Before, local
    <2> QED BY <2>1 DEF RowsAt, Unsaved
  <1>6. CASE ReadRecord(r)
    <2>1. /\ UNCHANGED <<request, newVehicles>>
          /\ pos'[r] = pos[r] + 1
          /\ stack'[r] = stack[r] \cup {pos[r] + 1}
          /\ pc[r] = "read" /\ pc'[r] \in {"apply", "read"}
      BY <1>6 DEF ReadRecord, transaction
    <2>2. (1..pos[r]) \ stack[r] = (1..pos'[r]) \ stack'[r]
      BY <2>1 DEF LinesAt
    <2>3. newVehicles[r] = {Row(r, i) : i \in (1..pos[r]) \ stack[r]}
      BY <2>1 DEF RowsAt, Unsaved
    <2>4. newVehicles'[r] = {Row(r, i)' : i \in (1..pos'[r]) \ stack'[r]}
      BY <1>2, <2>1, <2>2, <2>3
    <2> QED BY <2>1, <2>4 DEF RowsAt, Unsaved
  <1>7. CASE EndOfFile(r) \/ ApplyRules(r) \/ SaveManufacturers(r) \/ EndOfChunk(r)
    <2>1. /\ UNCHANGED <<request, pos, newVehicles>>
          /\ pc[r] \in Chunking
      BY <1>7 DEF EndOfFile, ApplyRules, SaveManufacturers, EndOfChunk, Goto, local,
                  transaction
    <2>2. pc'[r] \in Chunking => Unsaved(r)' = Unsaved(r)
      <3>1. CASE EndOfFile(r)
        BY <3>1 DEF EndOfFile, Unsaved, local
      <3>2. CASE ApplyRules(r)
        BY <3>2 DEF ApplyRules, Goto, Unsaved
      <3>3. CASE SaveManufacturers(r)
        BY <3>3 DEF SaveManufacturers, Unsaved
      <3>4. CASE EndOfChunk(r)
        BY <3>4 DEF EndOfChunk, Goto, Unsaved
      <3> QED BY <1>7, <3>1, <3>2, <3>3, <3>4
    <2>3. newVehicles[r] = {Row(r, i) : i \in (1..pos[r]) \ Unsaved(r)}
      BY <2>1 DEF RowsAt
    <2>4. pc'[r] \in Chunking =>
            newVehicles'[r] = {Row(r, i)' : i \in (1..pos'[r]) \ Unsaved(r)'}
      BY <1>2, <2>1, <2>2, <2>3
    <2> QED BY <2>4 DEF RowsAt
  <1>8. CASE InsertVehicle(r)
    <2>1. /\ UNCHANGED <<request, pos, stack>>
          /\ pc[r] = "insert" /\ pc'[r] \in {"insert", "rollback"}
      BY <1>8 DEF InsertVehicle
    <2>2. CASE pc'[r] = "insert"
      <3>1. PICK i \in pending[r] :
              /\ newVehicles'[r] = newVehicles[r] \cup {Row(r, i)}
              /\ pending'[r] = pending[r] \ {i}
        BY <1>8, <2>2 DEF InsertVehicle
      <3>2. i \in 1..pos[r]
        BY <2>1 DEF LinesAt
      <3>3. newVehicles[r] = {Row(r, j) : j \in (1..pos[r]) \ pending[r]}
        BY <2>1 DEF RowsAt, Unsaved
      <3>4. newVehicles'[r] = {Row(r, j) : j \in (1..pos[r]) \ pending'[r]}
        BY <3>1, <3>2, <3>3
      <3>5. newVehicles'[r] = {Row(r, j)' : j \in (1..pos'[r]) \ pending'[r]}
        BY <1>2, <2>1, <3>4
      <3> QED BY <2>2, <3>5 DEF RowsAt, Unsaved
    <2>3. CASE pc'[r] = "rollback"
      BY <1>1, <2>3
    <2> QED BY <2>1, <2>2, <2>3
  <1>9. CASE CommitTransaction(r) \/ RollbackTransaction(r)
    BY <1>1, <1>9 DEF CommitTransaction, RollbackTransaction, Raise
  <1>10. CASE Conclude(r)
    BY <1>1, <1>10 DEF Conclude, FinishProcess, FailProcess, Respond, SaveProcess,
                       Raise, Goto, Processing
  <1>11. CASE AbortWaiter(r) \/ DatabaseFault(r) \/ Crash(r)
    BY <1>1, <1>11 DEF AbortWaiter, DatabaseFault, Crash, Raise
  <1>12. CASE DeleteProcess(r)
    <2>1. UNCHANGED <<pc, request, pos, stack, pending, newVehicles>>
      BY <1>12 DEF DeleteProcess, local, transaction
    <2>2. Unsaved(r)' = Unsaved(r)
      BY <2>1 DEF Unsaved
    <2>3. pc[r] \in Chunking =>
            newVehicles'[r] = {Row(r, i)' : i \in (1..pos'[r]) \ Unsaved(r)'}
      BY <1>2, <2>1, <2>2 DEF RowsAt
    <2> QED BY <2>1, <2>3 DEF RowsAt
  <1> QED
    BY <1>3, <1>4, <1>5, <1>6, <1>7, <1>8, <1>9, <1>10, <1>11, <1>12
    DEF Act, Step, ProcessChunks

LEMMA ControlStep == TypeInv /\ Control /\ [Next]_vars => Control'
  <1> SUFFICES ASSUME TypeInv, Control, [Next]_vars, NEW s \in Run
               PROVE  (ProcessAt(s) /\ TransactionAt(s) /\ RowsAt(s))'
    BY DEF Control
  <1>1. ASSUME Same(s) PROVE (ProcessAt(s) /\ TransactionAt(s) /\ RowsAt(s))'
    <2>1. ProcessAt(s) /\ TransactionAt(s) /\ RowsAt(s)
      BY DEF Control
    <2>2. ProcessAt(s)' /\ TransactionAt(s)'
      BY <1>1, <2>1 DEF Same, ProcessAt, TransactionAt
    <2>3. /\ \A i : Row(s, i)' = Row(s, i)
          /\ Unsaved(s)' = Unsaved(s)
      BY <1>1 DEF Same, Row, Line, Lines, Unsaved
    <2>4. RowsAt(s)'
      BY <1>1, <2>1, <2>3 DEF Same, RowsAt
    <2> QED BY <2>2, <2>4
  <1>2. CASE Quiet
    BY <1>1, <1>2 DEF Same, Quiet, local, transaction
  <1>3. ASSUME NEW r \in Run, Act(r)
        PROVE  (ProcessAt(s) /\ TransactionAt(s) /\ RowsAt(s))'
    <2>1. CASE s = r
      BY <1>3, <2>1, OwnControl, OwnRows
    <2>2. CASE s # r
      BY <1>1, <1>3, <2>2, OnlyOwn DEF TypeInv
    <2> QED BY <2>1, <2>2
  <1> QED BY <1>2, <1>3, QuietSteps DEF Next, Act

-----------------------------------------------------------------------------
(* The table.  Only TRUNCATE and COMMIT write it, and a COMMIT adds to it  *)
(* the whole file.                                                         *)

Mine(r) == {v \in vehicles : v.by = r}

LEMMA CommitsWholeFile ==
    ASSUME TypeInv, Control, NEW r \in Run, pc[r] = "commit"
    PROVE  newVehicles[r] = RowsOf(r) /\ txn[r] = "open"
  <1>1. /\ stack[r] = {} /\ pos[r] = Len(Lines(r))
        /\ HasFile(r) /\ txn[r] = "open"
    BY DEF TypeInv, Buffers, LinesAt, Requests, RequestAt, Control, TransactionAt,
           Processing, Chunking
  <1>2. newVehicles[r] = {Row(r, i) : i \in (1..pos[r]) \ {}}
    BY <1>1 DEF Control, RowsAt, Unsaved, Chunking
  <1>3. (1..pos[r]) \ {} = 1..Len(Lines(r))
    BY <1>1
  <1> QED BY <1>1, <1>2, <1>3 DEF RowsOf

(* Which steps change what the table holds.                                *)
LEMMA TableStep ==
    ASSUME TypeInv, NEW r \in Run, Act(r)
    PROVE  \/ vehicles' = vehicles
           \/ TruncateVehicles(r) /\ vehicles' = {}
           \/ CommitTransaction(r) /\ vehicles' = vehicles \cup newVehicles[r]
  <1>1. CASE Accept(r)
    BY <1>1 DEF Accept, database
  <1>2. CASE Prepare(r)
    BY <1>2 DEF Prepare, CreateProcess, StartProcess, ReadFileName, TruncateVehicles,
                VacuumDatabase, DownloadFileFromStorage, ValidateFile,
                HandleValidationErrors, SaveProcess, database
  <1>3. CASE ProcessChunks(r)
    BY <1>3 DEF ProcessChunks, BeginTransaction, ReadRecord, EndOfFile, ApplyRules,
                SaveManufacturers, InsertVehicle, EndOfChunk, CommitTransaction,
                RollbackTransaction, database
  <1>4. CASE Conclude(r)
    BY <1>4 DEF Conclude, FinishProcess, FailProcess, Respond, SaveProcess, database
  <1>5. CASE AbortWaiter(r) \/ DatabaseFault(r) \/ Crash(r) \/ DeleteProcess(r)
    BY <1>5 DEF AbortWaiter, DatabaseFault, Crash, DeleteProcess, database
  <1> QED BY <1>1, <1>2, <1>3, <1>4, <1>5 DEF Act, Step

(* What a file maps to depends on the request alone.                       *)
LEMMA SameRows ==
    ASSUME NEW s \in Run, request'[s] = request[s]
    PROVE  RowsOf(s)' = RowsOf(s)
  <1>1. Lines(s)' = Lines(s) /\ HasFile(s)' = HasFile(s)
    BY DEF Lines, HasFile
  <1>2. \A i : Row(s, i)' = Row(s, i)
    BY <1>1 DEF Row, Line
  <1> QED BY <1>1, <1>2 DEF RowsOf

(* A committed execution stays so and keeps its request.                   *)
LEMMA CommittedStays ==
    ASSUME TypeInv, Control, NEW r \in Run, NEW s \in Run, Act(r),
           txn[s] = "committed"
    PROVE  txn'[s] = "committed" /\ RowsOf(s)' = RowsOf(s)
  <1>1. CASE s # r
    BY <1>1, OnlyOwn, SameRows DEF Same, TypeInv
  <1>2. CASE s = r
    <2>1. pc[r] \notin {"idle", "create", "start"} \cup Before \cup Chunking
      BY <1>2 DEF Control, TransactionAt
    <2>2. request' = request
      BY <2>1 DEF Act, Accept, Step, Prepare, ProcessChunks, Conclude, CreateProcess,
             StartProcess, ReadFileName, TruncateVehicles, VacuumDatabase,
             DownloadFileFromStorage, ValidateFile, HandleValidationErrors,
             BeginTransaction, ReadRecord, EndOfFile, ApplyRules, SaveManufacturers,
             InsertVehicle, EndOfChunk, CommitTransaction, RollbackTransaction,
             FinishProcess, FailProcess, Respond, SaveProcess, AbortWaiter,
             DatabaseFault, Crash, DeleteProcess, Goto, local
    <2>3. txn'[r] = "committed"
      BY <1>2, <2>1 DEF TypeInv, TypeOK, Act, Accept, Step, Prepare, ProcessChunks,
             Conclude, CreateProcess, StartProcess, ReadFileName, TruncateVehicles,
             VacuumDatabase, DownloadFileFromStorage, ValidateFile,
             HandleValidationErrors, BeginTransaction, ReadRecord, EndOfFile,
             ApplyRules, SaveManufacturers, InsertVehicle, EndOfChunk,
             CommitTransaction, RollbackTransaction, FinishProcess, FailProcess,
             Respond, SaveProcess, AbortWaiter, DatabaseFault, Crash, DeleteProcess,
             Goto, Raise, Abandon, Before, Chunking, transaction
    <2> QED BY <1>2, <2>2, <2>3, SameRows
  <1> QED BY <1>1, <1>2

LEMMA AllOrNothingStep ==
    TypeInv /\ Control /\ AllOrNothing /\ [Next]_vars => AllOrNothing'
  <1> SUFFICES ASSUME TypeInv, Control, AllOrNothing, [Next]_vars, NEW s \in Run,
                      Mine(s)' # {}
               PROVE  txn'[s] = "committed" /\ Mine(s)' = RowsOf(s)'
    BY DEF AllOrNothing, Mine
  <1>1. Mine(s) # {} => txn[s] = "committed" /\ Mine(s) = RowsOf(s)
    BY DEF AllOrNothing, Mine
  <1>2. CASE Quiet
    <2>1. UNCHANGED <<vehicles, request, txn>>
      BY <1>2 DEF Quiet, local, transaction
    <2>2. RowsOf(s)' = RowsOf(s)
      BY <2>1, SameRows
    <2> QED BY <1>1, <2>1, <2>2 DEF Mine
  <1>3. ASSUME NEW r \in Run, Act(r)
        PROVE  txn'[s] = "committed" /\ Mine(s)' = RowsOf(s)'
    <2>1. CASE vehicles' = vehicles
      BY <1>1, <1>3, <2>1, CommittedStays DEF Mine
    <2>2. CASE vehicles' = {}
      BY <2>2 DEF Mine
    <2>3. CASE CommitTransaction(r) /\ vehicles' = vehicles \cup newVehicles[r]
      <3>1. newVehicles[r] = RowsOf(r) /\ txn[r] = "open"
        BY <2>3, CommitsWholeFile DEF CommitTransaction
      <3>2. \A v \in newVehicles[r] : v.by = r
        BY <3>1 DEF RowsOf, Row
      <3>3. CASE s # r
        BY <1>1, <1>3, <2>3, <3>2, <3>3, CommittedStays DEF Mine
      <3>4. CASE s = r
        <4>1. Mine(r) = {}
          BY <1>1, <3>1, <3>4
        <4>2. Mine(r)' = newVehicles[r]
          BY <2>3, <3>2, <4>1 DEF Mine
        <4>3. RowsOf(r)' = RowsOf(r)
          BY <2>3, SameRows DEF CommitTransaction, local
        <4>4. txn'[r] = "committed"
          BY <2>3 DEF CommitTransaction, TypeInv, TypeOK
        <4> QED BY <3>1, <3>4, <4>2, <4>3, <4>4
      <3> QED BY <3>3, <3>4
    <2> QED BY <1>3, <2>1, <2>2, <2>3, TableStep
  <1> QED BY <1>2, <1>3, QuietSteps DEF Next, Act

LEMMA IInvInit == Init => IInv
  <1> SUFFICES ASSUME Init PROVE Control /\ AllOrNothing
    BY TypeInit DEF IInv
  <1>1. Control
    BY DEF Init, Control, ProcessAt, TransactionAt, RowsAt, Before, Processing, Chunking
  <1>2. AllOrNothing
    BY DatabaseAssumption DEF Init, AllOrNothing
  <1> QED BY <1>1, <1>2

LEMMA Invariance == Spec => []IInv
  <1>1. IInv /\ [Next]_vars => IInv'
    BY RequestStep, TypeStep, BufferStep, ControlStep, AllOrNothingStep
    DEF IInv, TypeInv
  <1> QED BY IInvInit, <1>1, PTL DEF Spec

(* What the Vehicles table holds of an execution is nothing, or the whole  *)
(* file it was asked to import, and only after its commit: for any number  *)
(* of executions side by side, any files and chunk sizes, whatever crashes,*)
(* faults and lost acknowledgements there are.                             *)
THEOREM ImportIsAtomic == Spec => []AllOrNothing
  <1>1. IInv => AllOrNothing
    BY DEF IInv
  <1> QED BY Invariance, <1>1, PTL

-----------------------------------------------------------------------------
(* Refinement.  Accept is Submit, CreateProcess Create, StartProcess Start,*)
(* FinishProcess Finish, HandleValidationErrors and FailProcess Fail,      *)
(* TruncateVehicles Clear, CommitTransaction Publish and DeleteProcess     *)
(* Delete; the other steps do not show.                                    *)

Offer == [r \in Run |-> RowsOf(r)]
Published == {r \in Run : txn[r] = "committed"}

LEMMA ContractInitially == Init => Contract!ContractInit
  <1> SUFFICES ASSUME Init PROVE Contract!ContractInit
    OBVIOUS
  <1>1. \A r \in Run : RowsOf(r) = {}
    BY DEF Init, RowsOf, HasFile
  <1>2. Offer = [r \in Run |-> {}]
    BY <1>1 DEF Offer
  <1>3. Published = {}
    BY DEF Init, Published
  <1>4. process = [r \in Run |-> "Absent"]
    BY DEF Init
  <1>5. vehicles \subseteq Vehicle
    BY DatabaseAssumption DEF Init, Vehicle
  <1> QED BY <1>2, <1>3, <1>4, <1>5 DEF Contract!ContractInit, Offer, Published

(* A step that leaves the requests alone leaves the offers alone.          *)
LEMMA SameOffer == ASSUME UNCHANGED request PROVE Offer' = Offer
  BY SameRows DEF Offer

(* Publishing or not: only CommitTransaction adds to Published.            *)
LEMMA SamePublished ==
    ASSUME TypeInv, Control, NEW r \in Run, Act(r), ~CommitTransaction(r)
    PROVE  Published' = Published
  <1>1. \A s \in Run \ {r} : txn'[s] = txn[s]
    BY OnlyOwn DEF TypeInv, Same
  <1>2. txn'[r] = "committed" <=> txn[r] = "committed"
    <2>1. CASE txn[r] = "committed"
      BY <2>1, CommittedStays
    <2>2. CASE txn[r] # "committed"
      BY <2>2 DEF TypeInv, TypeOK, Act, Accept, Step, Prepare, ProcessChunks,
             Conclude, CreateProcess, StartProcess, ReadFileName, TruncateVehicles,
             VacuumDatabase, DownloadFileFromStorage, ValidateFile,
             HandleValidationErrors, BeginTransaction, ReadRecord, EndOfFile,
             ApplyRules, SaveManufacturers, InsertVehicle, EndOfChunk,
             RollbackTransaction, FinishProcess, FailProcess,
             Respond, SaveProcess, AbortWaiter, DatabaseFault, Crash, DeleteProcess,
             Goto, Raise, Abandon, transaction
    <2> QED BY <2>1, <2>2
  <1> QED BY <1>1, <1>2 DEF Published

Shown == <<process, Offer, vehicles, Published>>

LEMMA SaveProcessShows ==
    ASSUME TypeInv, Control, NEW r \in Run, NEW from, NEW state, NEW doc, NEW to,
           SaveProcess(r, from, state, doc, to), Act(r), ~CommitTransaction(r)
    PROVE  \/ UNCHANGED Shown
           \/ /\ process[r] # "Deleted"
              /\ process' = [process EXCEPT ![r] = state]
              /\ UNCHANGED <<Offer, vehicles, Published>>
  <1>1. UNCHANGED <<Offer, vehicles, Published>>
    BY SameOffer, SamePublished DEF SaveProcess, local
  <1> QED BY <1>1 DEF SaveProcess, Shown

(* The same, of the state after a step.                                    *)
LEMMA RowsAreVehiclesNext == (\A r \in Run : RowsOf(r) \subseteq Vehicle)'
  BY RowsAreVehicles, PTL

LEMMA ContractStep ==
    ASSUME IInv, NEW r \in Run, Act(r)
    PROVE  Contract!ContractNext \/ UNCHANGED Shown
  <1> ProcessAt(r) /\ TransactionAt(r) /\ TypeInv /\ Control
    BY DEF IInv, Control
  <1> USE DEF ProcessAt, TransactionAt, Before, Processing, Chunking
  <1>1. CASE Accept(r)
    <2>1. UNCHANGED <<process, vehicles>> /\ process[r] = "Absent"
      BY <1>1 DEF Accept, Goto, database
    <2>2. Published' = Published
      BY <1>1, SamePublished DEF Accept, Goto, CommitTransaction
    <2>3. \A s \in Run \ {r} : RowsOf(s)' = RowsOf(s)
      BY OnlyOwn, SameRows DEF TypeInv, Same
    <2>4. RowsOf(r)' \subseteq Vehicle
      BY RowsAreVehiclesNext
    <2>5. Offer' = [Offer EXCEPT ![r] = Offer'[r]] /\ Offer'[r] \subseteq Vehicle
      BY <2>3, <2>4 DEF Offer
    <2>6. Contract!Submit(r)
      BY <2>1, <2>2, <2>5 DEF Contract!Submit, Offer, Published
    <2> QED BY <2>6 DEF Contract!ContractNext
  <1>2. CASE CreateProcess(r)
    <2>1. \/ UNCHANGED Shown
          \/ /\ process' = [process EXCEPT ![r] = "Waiting"]
             /\ UNCHANGED <<Offer, vehicles, Published>>
      BY <1>2, SaveProcessShows DEF CreateProcess, SaveProcess, CommitTransaction
    <2>2. process[r] = "Absent"
      BY <1>2 DEF CreateProcess, SaveProcess
    <2>3. UNCHANGED Shown \/ Contract!Create(r)
      BY <2>1, <2>2 DEF Contract!Create, Contract!SetStatus, Offer, Published
    <2> QED BY <2>3 DEF Contract!ContractNext
  <1>3. CASE StartProcess(r)
    <2>1. \/ UNCHANGED Shown
          \/ /\ process[r] # "Deleted"
             /\ process' = [process EXCEPT ![r] = "Running"]
             /\ UNCHANGED <<Offer, vehicles, Published>>
      BY <1>3, SaveProcessShows DEF StartProcess, SaveProcess, CommitTransaction
    <2>2. process[r] \in {"Waiting", "Deleted"}
      BY <1>3 DEF StartProcess, SaveProcess
    <2>3. UNCHANGED Shown \/ Contract!Start(r)
      BY <2>1, <2>2 DEF Contract!Start, Contract!SetStatus, Offer, Published
    <2> QED BY <2>3 DEF Contract!ContractNext
  <1>4. CASE HandleValidationErrors(r) \/ FailProcess(r)
    <2>1. \/ UNCHANGED Shown
          \/ /\ process[r] # "Deleted"
             /\ process' = [process EXCEPT ![r] = "Failed"]
             /\ UNCHANGED <<Offer, vehicles, Published>>
      BY <1>4, SaveProcessShows
      DEF HandleValidationErrors, FailProcess, SaveProcess, CommitTransaction
    <2>2. process[r] \in {"Running", "Deleted"} /\ r \notin Published
      BY <1>4 DEF HandleValidationErrors, FailProcess, SaveProcess, Published
    <2>3. UNCHANGED Shown \/ Contract!Fail(r)
      BY <2>1, <2>2 DEF Contract!Fail, Contract!SetStatus, Offer, Published
    <2> QED BY <2>3 DEF Contract!ContractNext
  <1>5. CASE FinishProcess(r)
    <2>1. \/ UNCHANGED Shown
          \/ /\ process[r] # "Deleted"
             /\ process' = [process EXCEPT ![r] = "Finished"]
             /\ UNCHANGED <<Offer, vehicles, Published>>
      BY <1>5, SaveProcessShows DEF FinishProcess, SaveProcess, CommitTransaction
    <2>2. process[r] \in {"Running", "Deleted"} /\ r \in Published
      BY <1>5 DEF FinishProcess, SaveProcess, Published
    <2>3. UNCHANGED Shown \/ Contract!Finish(r)
      BY <2>1, <2>2 DEF Contract!Finish, Contract!SetStatus, Offer, Published
    <2> QED BY <2>3 DEF Contract!ContractNext
  <1>6. CASE TruncateVehicles(r)
    <2>1. /\ process[r] \in {"Running", "Deleted"} /\ r \notin Published
          /\ vehicles' = {} /\ process' = process
      BY <1>6 DEF TruncateVehicles, Goto, Published
    <2>2. UNCHANGED <<Offer, Published>>
      BY <1>6, SameOffer, SamePublished
      DEF TruncateVehicles, Goto, CommitTransaction, local
    <2>3. Contract!Clear(r)
      BY <2>1, <2>2 DEF Contract!Clear, Contract!MayWrite, Offer, Published
    <2> QED BY <2>3 DEF Contract!ContractNext
  <1>7. CASE CommitTransaction(r)
    <2>1. /\ process[r] \in {"Running", "Deleted"} /\ r \notin Published
          /\ vehicles' = vehicles \cup Offer[r] /\ process' = process
      BY <1>7, CommitsWholeFile DEF CommitTransaction, Published, Offer
    <2>2. Offer' = Offer
      BY <1>7, SameOffer DEF CommitTransaction, local
    <2>3. Published' = Published \cup {r}
      BY <1>7 DEF CommitTransaction, Published, TypeInv, TypeOK
    <2>4. Contract!Publish(r)
      BY <2>1, <2>2, <2>3 DEF Contract!Publish, Contract!MayWrite, Offer, Published
    <2> QED BY <2>4 DEF Contract!ContractNext
  <1>8. CASE DeleteProcess(r)
    <2>1. UNCHANGED <<Offer, vehicles, Published>>
      BY <1>8, SameOffer DEF DeleteProcess, local, transaction, Published
    <2>2. Contract!Delete(r)
      BY <1>8, <2>1 DEF DeleteProcess, Contract!Delete, Contract!SetStatus, Offer, Published
    <2> QED BY <2>2 DEF Contract!ContractNext
  <1>9. ASSUME UNCHANGED <<process, vehicles, request>>, ~CommitTransaction(r)
         PROVE  UNCHANGED Shown
    BY <1>9, SameOffer, SamePublished DEF Shown
  <1>10. CASE \/ ReadFileName(r) \/ VacuumDatabase(r) \/ DownloadFileFromStorage(r)
              \/ ValidateFile(r)
    BY <1>9, <1>10 DEF ReadFileName, VacuumDatabase, DownloadFileFromStorage,
              ValidateFile, Goto, CommitTransaction, database, local
  <1>11. CASE ProcessChunks(r) /\ ~CommitTransaction(r)
    BY <1>9, <1>11 DEF ProcessChunks, BeginTransaction, ReadRecord, EndOfFile,
              ApplyRules, SaveManufacturers, InsertVehicle, EndOfChunk,
              RollbackTransaction, database, local
  <1>12. CASE Respond(r)
    BY <1>9, <1>12 DEF Respond, Goto, CommitTransaction, database, local
  <1>13. CASE AbortWaiter(r) \/ DatabaseFault(r) \/ Crash(r)
    <2>1. UNCHANGED <<process, vehicles, request>>
      BY <1>13 DEF AbortWaiter, DatabaseFault, Crash, database, local
    <2>2. CASE CommitTransaction(r)
      BY <1>7, <2>2
    <2>3. CASE ~CommitTransaction(r)
      BY <1>9, <2>1, <2>3
    <2> QED BY <2>2, <2>3
  <1> QED
    BY <1>1, <1>2, <1>3, <1>4, <1>5, <1>6, <1>7, <1>8, <1>10, <1>11, <1>12, <1>13
    DEF Act, Step, Prepare, ProcessChunks, Conclude

(* The import implements its contract, for every value of the constants.   *)
THEOREM ImportImplementsContract == Spec => ImplementsContract
  <1>1. IInv /\ [Next]_vars => [Contract!ContractNext]_<<process, Offer, vehicles, Published>>
    <2> SUFFICES ASSUME IInv, [Next]_vars
                 PROVE  Contract!ContractNext \/ UNCHANGED Shown
      BY DEF Shown
    <2>1. CASE Quiet
      BY <2>1, SameOffer DEF Quiet, local, transaction, Shown, Published
    <2>2. ASSUME NEW r \in Run, Act(r) PROVE Contract!ContractNext \/ UNCHANGED Shown
      BY <2>2, ContractStep
    <2> QED BY <2>1, <2>2, QuietSteps DEF Next, Act
  <1> QED BY ContractInitially, Invariance, <1>1, PTL
          DEF Spec, ImplementsContract, Contract!ContractSpec, Contract!contractVars,
              Offer, Published

-----------------------------------------------------------------------------
(* Effort.  TypeInv does not say that the lines read are lines of the file *)
(* once the chunks are done, nor that a chunk that is processed is not     *)
(* empty: an empty one would cost calls and read nothing.                  *)

EffortAt(r) ==
    /\ HasFile(r) => pos[r] <= Len(Lines(r))
    /\ pc[r] \in {"apply", "save"} => stack[r] # {}

(* Both hold of every execution, and the calls left are then a number.     *)
Efforts == \A r \in Run : EffortAt(r)
Bounded == \A r \in Run : CallsLeft(r) \in Nat

LEMMA RankIs ==
    /\ Rank["create"] = 12 /\ Rank["start"] = 11 /\ Rank["clear"] = 10
    /\ Rank["vacuum"] = 9 /\ Rank["download"] = 8 /\ Rank["validate"] = 7
    /\ Rank["begin"] = 6 /\ Rank["read"] = 5 /\ Rank["apply"] = 4
    /\ Rank["save"] = 3 /\ Rank["insert"] = 6 /\ Rank["commit"] = 4
    /\ Rank["rollback"] = 3 /\ Rank["finish"] = 2 /\ Rank["fail"] = 2
    /\ Rank["reject"] = 2 /\ Rank["reply"] = 1
  BY DEF Rank

LEMMA RankIsPositive == \A c \in Active : Rank[c] \in Nat \ {0}
  BY RankIs DEF Active, Before, Processing, Chunking

LEMMA FiniteStack ==
    ASSUME TypeInv, NEW r \in Run
    PROVE  /\ IsFiniteSet(stack[r]) /\ Cardinality(stack[r]) \in Nat
           /\ pc[r] = "insert" =>
                 IsFiniteSet(pending[r]) /\ Cardinality(pending[r]) \in Nat
  <1>1. IsFiniteSet(stack[r])
    BY DEF TypeInv, TypeOK
  <1>2. pc[r] = "insert" => pending[r] \subseteq stack[r]
    BY DEF TypeInv, Buffers, LinesAt
  <1> QED BY <1>1, <1>2, FS_Subset, FS_CardinalityType

LEMMA UnreadIsNat ==
    ASSUME TypeInv, NEW r \in Run, EffortAt(r)
    PROVE  Unread(r) \in Nat
  <1>1. HasFile(r) => Len(Lines(r)) \in Nat
    BY LinesAreRecords
  <1>2. pos[r] \in Nat
    BY DEF TypeInv, TypeOK
  <1> QED BY <1>1, <1>2 DEF Unread, EffortAt

LEMMA CallsLeftIsNat ==
    ASSUME TypeInv, NEW r \in Run, EffortAt(r)
    PROVE  Queued(r) \in Nat /\ CallsLeft(r) \in Nat
  <1>1. Queued(r) \in Nat
    BY FiniteStack DEF Queued
  <1> QED BY <1>1, UnreadIsNat, RankIsPositive DEF CallsLeft

(* A call that reads no line.                                              *)
LEMMA OneCallLess ==
    ASSUME TypeInv, NEW r \in Run, EffortAt(r), pc[r] \in Active,
           UNCHANGED <<request[r], pos[r]>>,
           pc'[r] \in Active =>
               Queued(r)' \in Nat /\ Rank[pc'[r]] + Queued(r)' < Rank[pc[r]] + Queued(r)
    PROVE  CallsLeft(r)' < CallsLeft(r)
  <1>1. Unread(r)' = Unread(r) /\ Unread(r) \in Nat
    BY UnreadIsNat DEF Unread, HasFile, Lines
  <1>2. Queued(r) \in Nat /\ Rank[pc[r]] \in Nat \ {0}
    BY CallsLeftIsNat, RankIsPositive
  <1>3. CallsLeft(r) = Rank[pc[r]] + 6 * Unread(r) + Queued(r)
    BY DEF CallsLeft
  <1>4. CASE pc'[r] \in Active
    <2>1. CallsLeft(r)' = Rank[pc'[r]] + 6 * Unread(r) + Queued(r)'
      BY <1>1, <1>4 DEF CallsLeft
    <2>2. Rank[pc'[r]] \in Nat
      BY <1>4, RankIsPositive
    <2> QED BY <1>1, <1>2, <1>3, <1>4, <2>1, <2>2
  <1>5. CASE pc'[r] \notin Active
    <2>1. CallsLeft(r)' = 0
      BY <1>5 DEF CallsLeft
    <2> QED BY <1>1, <1>2, <1>3, <2>1
  <1> QED BY <1>4, <1>5

(* Accept is the only action that reads a request, before it reads lines.  *)
LEMMA OwnEffort ==
    ASSUME TypeInv, NEW r \in Run, EffortAt(r), Act(r)
    PROVE  EffortAt(r)'
  <1> USE DEF TypeInv, TypeOK
  <1>1. ASSUME UNCHANGED <<request[r], pos[r]>>,
               pc'[r] \in {"apply", "save"} => stack'[r] # {}
        PROVE  EffortAt(r)'
    BY <1>1 DEF EffortAt, HasFile, Lines
  <1>2. CASE Accept(r)
    <2>1. pos'[r] = 0 /\ pc'[r] \in {"create", "error"}
      BY <1>2 DEF Accept, Goto, Buffers, LinesAt
    <2>2. 0 <= Len(Lines(r)') \/ ~HasFile(r)'
      BY FileAssumption DEF HasFile, Lines
    <2> QED BY <2>1, <2>2 DEF EffortAt
  <1>3. CASE Prepare(r)
    BY <1>1, <1>3 DEF Prepare, CreateProcess, StartProcess, ReadFileName,
         TruncateVehicles, VacuumDatabase, DownloadFileFromStorage, ValidateFile,
         HandleValidationErrors, SaveProcess, Raise, Goto, local
  <1>4. CASE BeginTransaction(r)
    BY <1>1, <1>4 DEF BeginTransaction, Goto, local
  <1>5. CASE ReadRecord(r)
    <2>1. /\ UNCHANGED request /\ pos[r] < Len(Lines(r)) /\ pos'[r] = pos[r] + 1
          /\ stack'[r] # {} /\ pc[r] = "read"
      BY <1>5 DEF ReadRecord
    <2>2. Len(Lines(r)) \in Nat
      BY <2>1, LinesAreRecords
      DEF Requests, RequestAt, Processing, Chunking
    <2>3. pos'[r] <= Len(Lines(r))
      BY <2>1, <2>2
    <2> QED BY <2>1, <2>3 DEF EffortAt, HasFile, Lines
  <1>6. CASE EndOfFile(r) \/ ApplyRules(r)
    BY <1>1, <1>6 DEF EndOfFile, ApplyRules, Goto, EffortAt, local
  <1>7. CASE SaveManufacturers(r) \/ InsertVehicle(r)
    BY <1>1, <1>7 DEF SaveManufacturers, InsertVehicle
  <1>8. CASE EndOfChunk(r)
    BY <1>1, <1>8 DEF EndOfChunk, Goto
  <1>9. CASE CommitTransaction(r) \/ RollbackTransaction(r)
    BY <1>1, <1>9 DEF CommitTransaction, RollbackTransaction, Raise, local
  <1>10. CASE Conclude(r)
    BY <1>1, <1>10 DEF Conclude, FinishProcess, FailProcess, Respond, SaveProcess,
                       Raise, Goto, local
  <1>11. CASE AbortWaiter(r) \/ DatabaseFault(r) \/ Crash(r) \/ DeleteProcess(r)
    BY <1>1, <1>11 DEF AbortWaiter, DatabaseFault, Crash, DeleteProcess, Raise,
                       EffortAt, local
  <1> QED
    BY <1>2, <1>3, <1>4, <1>5, <1>6, <1>7, <1>8, <1>9, <1>10, <1>11
    DEF Act, Step, ProcessChunks

LEMMA EffortStep == TypeInv /\ Efforts /\ [Next]_vars => Efforts'
  <1> SUFFICES ASSUME TypeInv, Efforts, [Next]_vars, NEW s \in Run
               PROVE  EffortAt(s)'
    BY DEF Efforts
  <1>1. EffortAt(s)
    BY DEF Efforts
  <1>2. CASE Quiet
    BY <1>1, <1>2 DEF Quiet, local, EffortAt, HasFile, Lines
  <1>3. ASSUME NEW r \in Run, Act(r) PROVE EffortAt(s)'
    <2>1. CASE s = r
      BY <1>1, <1>3, <2>1, OwnEffort
    <2>2. CASE s # r
      <3>1. Same(s)
        BY <1>3, <2>2, OnlyOwn DEF TypeInv
      <3> QED BY <1>1, <3>1 DEF Same, EffortAt, HasFile, Lines
    <2> QED BY <2>1, <2>2
  <1> QED BY <1>2, <1>3, QuietSteps DEF Next, Act

LEMMA EffortsAlways == Spec => [](TypeInv /\ Efforts)
  <1>1. Init => Efforts
    BY FileAssumption, DatabaseAssumption, EnvironmentAssumption
    DEF Init, Efforts, EffortAt, HasFile
  <1> QED BY TypeInvariance, EffortStep, <1>1, PTL DEF Spec

(* Each step of an accepted execution, but the deletion of its process, is *)
(* one call less.                                                          *)
LEMMA OwnWork ==
    ASSUME TypeInv, NEW r \in Run, EffortAt(r), pc[r] # "idle", Act(r)
    PROVE  \/ UNCHANGED <<pc[r], pos[r], stack[r], pending[r]>>
           \/ CallsLeft(r)' < CallsLeft(r)
  <1> DEFINE Still == UNCHANGED <<request[r], pos[r]>>
             Plain == Active \ {"read", "apply", "save", "insert"}
  <1> USE DEF TypeInv, TypeOK, Active, Before, Processing, Chunking, Ended
  <1>1. \A c \in Plain : (pc[r] = c => Queued(r) = 0) /\ (pc'[r] = c => Queued(r)' = 0)
    BY DEF Queued
  <1>2. ASSUME Still, pc[r] \in Plain,
               pc'[r] \in Ended \/ (pc'[r] \in Plain /\ Rank[pc'[r]] < Rank[pc[r]])
        PROVE  CallsLeft(r)' < CallsLeft(r)
    <2>1. pc'[r] \in Active => Queued(r)' = 0 /\ Queued(r) = 0 /\ Rank[pc'[r]] < Rank[pc[r]]
      BY <1>1, <1>2
    <2>2. Rank[pc[r]] \in Nat /\ (pc'[r] \in Active => Rank[pc'[r]] \in Nat)
      BY <1>2, RankIsPositive
    <2> QED BY <1>2, <2>1, <2>2, OneCallLess
  <1>3. ASSUME Still, pc[r] \in Active, pc'[r] \in Ended
        PROVE  CallsLeft(r)' < CallsLeft(r)
    BY <1>3, OneCallLess
  <1>4. ASSUME Still, pc[r] \in {"apply", "save", "insert"}, pc'[r] = "rollback",
               pc[r] = "save" => Queued(r) > 0
        PROVE  CallsLeft(r)' < CallsLeft(r)
    <2>1. Queued(r) \in Nat /\ Queued(r)' = 0
      BY <1>1, <1>4, CallsLeftIsNat
    <2>2. Rank[pc'[r]] + 0 < Rank[pc[r]] + Queued(r)
      BY <1>4, <2>1, RankIs
    <2> QED BY <1>4, <2>1, <2>2, OneCallLess
  <1>5. pc[r] = "save" => Queued(r) > 0 /\ Cardinality(stack[r]) > 0
    BY FiniteStack, FS_EmptySet DEF Queued, EffortAt
  <1>6. CASE Accept(r)
    BY <1>6 DEF Accept, Goto
  <1>7. CASE Prepare(r)
    <2>1. Still
      BY <1>7 DEF Prepare, CreateProcess, StartProcess, ReadFileName, TruncateVehicles,
           VacuumDatabase, DownloadFileFromStorage, ValidateFile,
           HandleValidationErrors, SaveProcess, local
    <2>2. \/ pc[r] \in Plain /\ pc'[r] = "error"
          \/ pc[r] = "create" /\ pc'[r] = "start"
          \/ pc[r] = "start" /\ pc'[r] = "clear"
          \/ pc[r] = "clear" /\ pc'[r] = "vacuum"
          \/ pc[r] = "vacuum" /\ pc'[r] = "download"
          \/ pc[r] = "download" /\ pc'[r] = "validate"
          \/ pc[r] = "validate" /\ pc'[r] \in {"begin", "reject"}
          \/ pc[r] = "reject" /\ pc'[r] = "reply"
      BY <1>7 DEF Prepare, CreateProcess, StartProcess, ReadFileName, TruncateVehicles,
           VacuumDatabase, DownloadFileFromStorage, ValidateFile,
           HandleValidationErrors, SaveProcess, Raise, Goto
    <2> QED BY <1>2, <2>1, <2>2, RankIs
  <1>8. CASE BeginTransaction(r)
    <2>1. Still /\ pc[r] = "begin" /\ pc'[r] = "read" /\ stack'[r] = {}
      BY <1>8 DEF BeginTransaction, Goto, local, Buffers, LinesAt
    <2>2. Queued(r) = 0 /\ Queued(r)' = 0
      BY <2>1, FS_EmptySet DEF Queued
    <2> QED BY <2>1, <2>2, RankIs, OneCallLess
  <1>9. CASE ReadRecord(r)
    <2> DEFINE pushed == stack[r] \cup {pos[r] + 1}
    <2>1. /\ UNCHANGED request /\ pos[r] < Len(Lines(r)) /\ pos'[r] = pos[r] + 1
          /\ pc[r] = "read" /\ pc'[r] \in {"read", "apply"} /\ stack'[r] = pushed
      BY <1>9 DEF ReadRecord
    <2>2. pos[r] + 1 \notin stack[r]
      BY <2>1 DEF Buffers, LinesAt
    <2>3. Cardinality(pushed) = Cardinality(stack[r]) + 1
      BY <2>2, FiniteStack, FS_AddElement
    <2>4. HasFile(r) /\ Len(Lines(r)) \in Nat
      BY <2>1, LinesAreRecords DEF Requests, RequestAt
    <2>5. Unread(r) = Len(Lines(r)) - pos[r] /\ Unread(r)' = Len(Lines(r)) - (pos[r] + 1)
      BY <2>1, <2>4 DEF Unread, HasFile, Lines
    <2>6. Queued(r) = 5 * Cardinality(stack[r]) /\ Queued(r)' = 5 * Cardinality(pushed)
      BY <2>1 DEF Queued
    <2>7. CallsLeft(r) = 5 + 6 * Unread(r) + Queued(r)
      BY <2>1, RankIs DEF CallsLeft
    <2>8. CallsLeft(r)' = Rank[pc'[r]] + 6 * Unread(r)' + Queued(r)'
      BY <2>1 DEF CallsLeft
    <2>9. Rank[pc'[r]] \in {4, 5}
      BY <2>1, RankIs
    <2>10. /\ Cardinality(stack[r]) \in Nat
           /\ Queued(r)' = Queued(r) + 5
           /\ Unread(r) \in Int /\ Unread(r)' = Unread(r) - 1
      BY <2>3, <2>4, <2>5, <2>6, FiniteStack
    <2>11. Queued(r) \in Nat
      BY CallsLeftIsNat
    <2> HIDE DEF TypeInv, TypeOK
    <2> QED BY <2>7, <2>8, <2>9, <2>10, <2>11
  <1>10. CASE EndOfFile(r)
    <2>1. Still /\ pc[r] = "read" /\ stack'[r] = stack[r] /\ pc'[r] \in {"commit", "apply"}
      BY <1>10 DEF EndOfFile, local
    <2>2. Queued(r) \in Nat /\ Queued(r)' \in {0, Queued(r)}
      BY <2>1, CallsLeftIsNat DEF Queued
    <2> QED BY <2>1, <2>2, RankIs, OneCallLess
  <1>11. CASE ApplyRules(r)
    <2>1. Still /\ pc[r] = "apply" /\ pc'[r] = "save" /\ stack'[r] = stack[r]
      BY <1>11 DEF ApplyRules, Goto
    <2>2. Queued(r) \in Nat /\ Queued(r)' = Queued(r)
      BY <2>1, CallsLeftIsNat DEF Queued
    <2> QED BY <2>1, <2>2, RankIs, OneCallLess
  <1>12. CASE SaveManufacturers(r)
    <2>1. Still /\ pc[r] = "save"
      BY <1>12 DEF SaveManufacturers
    <2>2. CASE pc'[r] = "rollback"
      BY <1>4, <1>5, <2>1, <2>2
    <2>3. CASE pc'[r] # "rollback"
      <3>1. pc'[r] = "insert" /\ pending'[r] = stack[r]
        BY <1>12, <2>3 DEF SaveManufacturers
      <3>2. Queued(r) = 5 * Cardinality(stack[r]) /\ Queued(r)' = Cardinality(stack[r])
        BY <2>1, <3>1 DEF Queued
      <3>3. Rank[pc'[r]] + Queued(r)' < Rank[pc[r]] + Queued(r)
        BY <1>5, <2>1, <3>1, <3>2, RankIs, FiniteStack
      <3> QED BY <2>1, <3>2, <3>3, OneCallLess, FiniteStack
    <2> QED BY <2>2, <2>3
  <1>13. CASE InsertVehicle(r)
    <2>1. Still /\ pc[r] = "insert" /\ pc'[r] \in {"insert", "rollback"}
      BY <1>13 DEF InsertVehicle
    <2>2. CASE pc'[r] = "rollback"
      BY <1>4, <2>1, <2>2
    <2>3. CASE pc'[r] # "rollback"
      <3>1. PICK i \in pending[r] : pending'[r] = pending[r] \ {i}
        <4>1. PICK i \in pending[r] : pending' = [pending EXCEPT ![r] = @ \ {i}]
          BY <1>13, <2>1, <2>3 DEF InsertVehicle
        <4> QED BY <4>1
      <3>2. /\ IsFiniteSet(pending'[r])
            /\ Cardinality(pending'[r]) = Cardinality(pending[r]) - 1
        <4> HIDE DEF TypeInv, TypeOK
        <4>1. IsFiniteSet(pending[r])
          BY <2>1, FiniteStack
        <4>2. /\ IsFiniteSet(pending[r] \ {i})
              /\ Cardinality(pending[r] \ {i}) = Cardinality(pending[r]) - 1
          BY <4>1, FS_RemoveElement
        <4> QED BY <3>1, <4>2
      <3>3. Queued(r) = Cardinality(pending[r]) /\ Queued(r)' = Cardinality(pending'[r])
        BY <2>1, <2>3 DEF Queued
      <3>4. Queued(r)' \in Nat
        BY <3>2, <3>3, FS_CardinalityType
      <3>5. Rank[pc'[r]] + Queued(r)' < Rank[pc[r]] + Queued(r)
        BY <2>1, <2>3, <3>2, <3>3, <3>4, RankIs, FiniteStack
      <3> QED BY <2>1, <3>4, <3>5, OneCallLess
    <2> QED BY <2>2, <2>3
  <1>14. CASE EndOfChunk(r)
    <2>1. Still /\ pc[r] = "insert" /\ pc'[r] = "read" /\ stack'[r] = {} /\ pending[r] = {}
      BY <1>14 DEF EndOfChunk, Goto
    <2>2. Queued(r) = 0 /\ Queued(r)' = 0
      BY <2>1, FS_EmptySet DEF Queued
    <2> QED BY <2>1, <2>2, RankIs, OneCallLess
  <1>15. CASE CommitTransaction(r) \/ RollbackTransaction(r) \/ Conclude(r)
    <2>1. Still
      BY <1>15 DEF CommitTransaction, RollbackTransaction, Conclude, FinishProcess,
                   FailProcess, Respond, SaveProcess, local
    <2>2. \/ pc[r] \in Plain /\ pc'[r] = "error"
          \/ pc[r] = "commit" /\ pc'[r] \in {"finish", "rollback"}
          \/ pc[r] = "rollback" /\ pc'[r] = "fail"
          \/ pc[r] \in {"finish", "fail"} /\ pc'[r] = "reply"
          \/ pc[r] = "reply" /\ pc'[r] = "ok"
      BY <1>15 DEF CommitTransaction, RollbackTransaction, Conclude, FinishProcess,
                   FailProcess, Respond, SaveProcess, Raise, Goto
    <2> QED BY <1>2, <2>1, <2>2, RankIs
  <1>16. CASE AbortWaiter(r) \/ DatabaseFault(r)
    <2>1. Still /\ pc[r] \in Active
      BY <1>16 DEF AbortWaiter, DatabaseFault, local
    <2>2. \/ pc'[r] = "error"
          \/ pc[r] \in {"apply", "save", "insert"} /\ pc'[r] = "rollback"
          \/ pc[r] = "commit" /\ pc'[r] = "rollback"
      BY <1>16 DEF AbortWaiter, DatabaseFault, Raise
    <2> QED BY <1>2, <1>3, <1>4, <1>5, <2>1, <2>2, RankIs
  <1>17. CASE Crash(r)
    <2>1. Still /\ pc[r] \in Active /\ pc'[r] = "crashed"
      BY <1>17 DEF Crash, local
    <2> QED BY <1>3, <2>1
  <1>18. CASE DeleteProcess(r)
    BY <1>18 DEF DeleteProcess, local
  <1> QED
    BY <1>6, <1>7, <1>8, <1>9, <1>10, <1>11, <1>12, <1>13, <1>14, <1>15, <1>16,
       <1>17, <1>18
    DEF Act, Step, ProcessChunks

(* An execution never gets more to do: what other executions do leaves its *)
(* work as it is, and each of its own steps brings a natural number down   *)
(* that is at first twelve and six for each line of its file.  So nothing  *)
(* keeps an execution busy for ever, in the bulk inserts, the chunks or the*)
(* catch block; that it does get to its next call is EveryExecutionEnds.   *)
THEOREM ImportIsBounded == Spec => []Bounded /\ WorkShrinks
  <1> DEFINE Shrinks(r) == pc[r] # "idle" =>
                 \/ UNCHANGED <<pc[r], pos[r], stack[r], pending[r]>>
                 \/ CallsLeft(r)' < CallsLeft(r)
  <1>1. TypeInv /\ Efforts => Bounded
    BY CallsLeftIsNat DEF Efforts, Bounded
  <1>2. TypeInv /\ Efforts /\ [Next]_vars => [\A r \in Run : Shrinks(r)]_vars
    <2> SUFFICES ASSUME TypeInv, Efforts, Next, NEW s \in Run PROVE Shrinks(s)
      OBVIOUS
    <2>1. CASE Quiet
      BY <2>1 DEF Quiet, local
    <2>2. ASSUME NEW r \in Run, Act(r) PROVE Shrinks(s)
      <3>1. CASE s = r
        BY <2>2, <3>1, OwnWork DEF Efforts
      <3>2. CASE s # r
        BY <2>2, <3>2, OnlyOwn DEF TypeInv, Same
      <3> QED BY <3>1, <3>2
    <2> HIDE DEF Shrinks
    <2> QED BY <2>1, <2>2, QuietSteps DEF Next, Act
  <1> QED BY EffortsAlways, <1>1, <1>2, PTL DEF Spec, WorkShrinks

=============================================================================
