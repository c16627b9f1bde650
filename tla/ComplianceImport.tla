-------------------------- MODULE ComplianceImport --------------------------
(***************************************************************************)
(* The compliance-calculation Cloud Function: executions that import a CSV *)
(* file of vehicles into PostgreSQL and record their progress in the       *)
(* Processes table.                                                        *)
(*                                                                         *)
(* Each action is one awaited call of the execution (Function.cs,          *)
(* ChunkProcessingService.cs, VehicleService.cs) together with the local   *)
(* code that runs up to the next one, because that is where another        *)
(* execution, the APIs on the same database or a fault come in between. The*)
(* database is modelled as READ COMMITTED PostgreSQL: a transaction sees   *)
(* the committed rows and its own; the primary key of Vehicles makes an    *)
(* insert wait for another open transaction that holds the same VIN; and   *)
(* TRUNCATE waits for every open transaction that has written to the       *)
(* table.                                                                  *)
(*                                                                         *)
(* The rules that fill in a vehicle's summary have no effect on control    *)
(* and are left out, as is all logging.                                    *)
(***************************************************************************)
EXTENDS Integers, Sequences, FiniteSets

CONSTANTS
    Run,           \* executions; r is also the Guid of its process
    File,          \* the names a request can give
    Bucket,        \* the names of the objects that are in the bucket
    Content,       \* Content[f]: the lines of object f
    ChunkSizes,    \* the ChunkSize values a request can give
    Vin, Maker,    \* VINs and manufacturer names
    OldVehicles,   \* the rows of Vehicles before the first execution
    OldMakers,     \* the manufacturers known before the first execution
    ErrorCap,      \* CsvValidatorService.ErrorCap
    Serial,        \* TRUE: one instance with concurrency one, as deployed
    Disturbance,   \* what the environment may do to an execution
    NewNames,      \* names that the organisations API gives to manufacturers
    NoBody,        \* the request whose JSON body is "null"
    NoRequest, NoResult, Nobody

Kinds == {"good", "badVin", "unreadable", "unstorable"}
Record == [vin : Vin, mh : Maker, kind : Kinds]
Request == [file : File \cup {NoBody}, chunkSize : ChunkSizes]
Vehicle == [vin : Vin, mh : Maker, by : Run \cup {Nobody}]
\* A Guid: who inserted the row, and the name it was inserted with.  An
\* execution inserts at most one row of a name.
Manufacturer == [name : Maker, by : Run \cup {Nobody}, born : Maker]
Result == [count : Nat, buffers : Nat, errors : Nat]

ASSUME FileAssumption ==
    /\ Bucket \subseteq File
    /\ NoBody \notin File
    /\ Content \in [Bucket -> Seq(Record)]
    /\ ChunkSizes \subseteq Int
    /\ ErrorCap \in Nat \ {0}

ASSUME DatabaseAssumption ==
    /\ Nobody \notin Run
    /\ OldVehicles \subseteq [vin : Vin, mh : Maker, by : {Nobody}]
    /\ OldMakers \subseteq [name : Maker, by : {Nobody}, born : Maker]
    /\ \A v, w \in OldVehicles : v.vin = w.vin => v = w
    /\ \A v \in OldVehicles : \E m \in OldMakers : m.name = v.mh

ASSUME EnvironmentAssumption ==
    /\ Serial \in BOOLEAN
    /\ Disturbance \subseteq {"crash", "database", "lostAck", "storage", "delete",
                         "organisations"}
    /\ NewNames \subseteq Maker
    /\ NoRequest \notin Request
    /\ NoResult \notin Result

VARIABLES
    process,          \* state of r's row in Processes, committed
    result,           \* its Result document
    vehicles,         \* committed rows of Vehicles
    manufacturers,    \* committed rows of Manufacturers
    formerNames,      \* history: names the organisations API took away
    pc,               \* the call execution r is about to make
    request,          \* the body of its HTTP request
    pos,              \* lines read from the CSV so far
    stack,            \* _bufferStack: the lines pushed since the last Clear
    pending,          \* lines of the chunk that are not inserted yet
    temporary,        \* VehicleService._temporaryManufacturers
    recordCounter, bufferCounter,
    txn,              \* UnitOfWork._transaction
    newVehicles,      \* rows inserted by r's open transaction
    newMakers

database == <<process, result, vehicles, manufacturers, formerNames>>
local == <<request, pos, stack, pending, temporary, recordCounter, bufferCounter>>
transaction == <<txn, newVehicles, newMakers>>
vars == <<database, pc, local, transaction>>

Before == {"clear", "vacuum", "download", "validate", "reject", "begin"}
Chunking == {"read", "apply", "save", "insert", "commit"}
Processing == Chunking \cup {"rollback", "finish", "fail"}
Ended == {"ok", "error", "crashed"}
Active == {"create", "start", "reply"} \cup Before \cup Processing
Labels == {"idle"} \cup Active \cup Ended

TypeOK ==
    /\ process \in [Run -> {"Absent", "Waiting", "Running", "Finished", "Failed", "Deleted"}]
    /\ result \in [Run -> Result \cup {NoResult}]
    /\ vehicles \subseteq Vehicle
    /\ manufacturers \subseteq Manufacturer /\ formerNames \subseteq Maker
    /\ pc \in [Run -> Labels]
    /\ request \in [Run -> Request \cup {NoRequest}]
    /\ pos \in [Run -> Nat]
    /\ stack \in [Run -> SUBSET Nat] /\ \A r \in Run : IsFiniteSet(stack[r])
    /\ pending \in [Run -> SUBSET Nat]
    /\ temporary \in [Run -> SUBSET Manufacturer]
    /\ recordCounter \in [Run -> Nat]
    /\ bufferCounter \in [Run -> Nat]
    /\ txn \in [Run -> {"none", "open", "committed", "rolledback"}]
    /\ newVehicles \in [Run -> SUBSET Vehicle]
    /\ newMakers \in [Run -> SUBSET Manufacturer]

Init ==
    /\ process = [r \in Run |-> "Absent"]
    /\ result = [r \in Run |-> NoResult]
    /\ vehicles = OldVehicles
    /\ manufacturers = OldMakers
    /\ formerNames = {}
    /\ pc = [r \in Run |-> "idle"]
    /\ request = [r \in Run |-> NoRequest]
    /\ pos = [r \in Run |-> 0]
    /\ stack = [r \in Run |-> {}]
    /\ pending = [r \in Run |-> {}]
    /\ temporary = [r \in Run |-> {}]
    /\ recordCounter = [r \in Run |-> 0]
    /\ bufferCounter = [r \in Run |-> 0]
    /\ txn = [r \in Run |-> "none"]
    /\ newVehicles = [r \in Run |-> {}]
    /\ newMakers = [r \in Run |-> {}]

-----------------------------------------------------------------------------
(* The file of a request and the rows it maps to.                          *)

HasFile(r) == request[r] # NoRequest /\ request[r].file \in Bucket
Lines(r) == Content[request[r].file]
Line(r, i) == Lines(r)[i]
Row(r, i) == [vin |-> Line(r, i).vin, mh |-> Line(r, i).mh, by |-> r]
RowsOf(r) == IF HasFile(r) THEN {Row(r, i) : i \in 1..Len(Lines(r))} ELSE {}

ChunkLength(r) == IF request[r].chunkSize < 1 THEN 1 ELSE request[r].chunkSize

Vins(rows) == {v.vin : v \in rows}
Names(rows) == {m.name : m \in rows}

-----------------------------------------------------------------------------
(* Control.  Raise(r) is an exception that leaves HandleAsync: the error   *)
(* handler answers 500 and the request scope, with the database connection *)
(* and any open transaction, is disposed.                                  *)

Goto(r, from, to) == pc[r] = from /\ pc' = [pc EXCEPT ![r] = to]

Abandon(r) ==
    /\ txn' = [txn EXCEPT ![r] = IF @ = "open" THEN "rolledback" ELSE @]
    /\ newVehicles' = [newVehicles EXCEPT ![r] = {}]
    /\ newMakers' = [newMakers EXCEPT ![r] = {}]

Raise(r) == pc' = [pc EXCEPT ![r] = "error"] /\ Abandon(r)

(* A POST reaches an instance.  GetRequestBody throws on a body that is not*)
(* JSON, before anything is written.                                       *)
Accept(r) ==
    /\ Serial => \A s \in Run : pc[s] \notin Active
    /\ \/ /\ Goto(r, "idle", "create")
          /\ \E q \in Request : request' = [request EXCEPT ![r] = q]
       \/ Goto(r, "idle", "error") /\ UNCHANGED request
    /\ UNCHANGED <<database, pos, stack, pending, temporary, recordCounter,
                   bufferCounter, transaction>>

\* Mutant: a row that is gone is written again.
SaveProcessAnyway(r, from, state, doc, to) ==
    /\ Goto(r, from, to)
    /\ process' = [process EXCEPT ![r] = state]
    /\ result' = [result EXCEPT ![r] = doc]
    /\ UNCHANGED <<vehicles, manufacturers, formerNames, local, transaction>>

(* The writes of ProcessService: read the row, throw if it is gone, set the*)
(* new state and save.  With a lost acknowledgement the row is saved and   *)
(* the caller still gets an exception.                                     *)
SaveProcess(r, from, state, doc, to) ==
    /\ pc[r] = from
    /\ \/ /\ process[r] # "Deleted"
          /\ process' = [process EXCEPT ![r] = state]
          /\ result' = [result EXCEPT ![r] = doc]
          /\ \/ pc' = [pc EXCEPT ![r] = to] /\ UNCHANGED transaction
             \/ "lostAck" \in Disturbance /\ Raise(r)
       \/ /\ process[r] = "Deleted"
          /\ Raise(r)
          /\ UNCHANGED <<process, result>>
    /\ UNCHANGED <<vehicles, manufacturers, formerNames, local>>

CreateProcess(r) == SaveProcess(r, "create", "Waiting", NoResult, "start")
StartProcess(r) == SaveProcess(r, "start", "Running", NoResult, "clear")

-----------------------------------------------------------------------------
(* Function.Run, up to the call of the processing service.                 *)

(* A "null" body deserializes to null: body.FileName throws, after the     *)
(* process was started and before anything is truncated.                   *)
ReadFileName(r) ==
    /\ pc[r] = "clear"
    /\ request[r].file = NoBody
    /\ Raise(r)
    /\ UNCHANGED <<database, local>>

(* TRUNCATE needs an exclusive lock; an open transaction that inserted     *)
(* vehicles holds a conflicting one until it ends.                         *)
TableLocked(r) == \E s \in Run \ {r} : newVehicles[s] # {}

(* Mutant: the table is not emptied.                                       *)
TruncateNothing(r) ==
    /\ Goto(r, "clear", "vacuum")
    /\ request[r].file # NoBody
    /\ UNCHANGED <<database, local, transaction>>

(* ClearVehiclesFromDatabase: TRUNCATE commits by itself, outside the      *)
(* transaction of the import; SaveChanges has nothing to save; VACUUM runs *)
(* as a statement of its own.                                              *)
TruncateVehicles(r) ==
    /\ Goto(r, "clear", "vacuum")
    /\ request[r].file # NoBody
    /\ ~TableLocked(r)
    /\ vehicles' = {}
    /\ UNCHANGED <<process, result, manufacturers, formerNames, local, transaction>>

VacuumDatabase(r) ==
    /\ Goto(r, "vacuum", "download")
    /\ UNCHANGED <<database, local, transaction>>

DownloadFileFromStorage(r) ==
    /\ pc[r] = "download"
    /\ \/ /\ request[r].file \in Bucket
          /\ pc' = [pc EXCEPT ![r] = "validate"]
          /\ UNCHANGED transaction
       \/ /\ request[r].file \notin Bucket \/ "storage" \in Disturbance
          /\ Raise(r)
    /\ UNCHANGED <<database, local>>

(* CsvValidatorService.ValidateAsync reads until ErrorCap errors have been *)
(* collected.  Among the lines it reaches, one that does not parse makes   *)
(* it throw; the others count as errors when the VIN rule rejects them.    *)
LinesOfKind(r, k) == {i \in 1..Len(Lines(r)) : Line(r, i).kind = k}
Reached(r, i) ==
    Cardinality({j \in LinesOfKind(r, "badVin") : j < i}) < ErrorCap
\* Mutant: fewer errors than the cap are let through.
ErrorsOnlyAtCap(r) ==
    {i \in LinesOfKind(r, "badVin") :
        Cardinality(LinesOfKind(r, "badVin")) >= ErrorCap}

ValidationErrors(r) == {i \in LinesOfKind(r, "badVin") : Reached(r, i)}
ValidationThrows(r) == \E i \in LinesOfKind(r, "unreadable") : Reached(r, i)

ValidateFile(r) ==
    /\ pc[r] = "validate"
    /\ \/ ValidationThrows(r) /\ Raise(r)
       \/ /\ ~ValidationThrows(r)
          /\ pc' = [pc EXCEPT ![r] =
                       IF ValidationErrors(r) = {} THEN "begin" ELSE "reject"]
          /\ UNCHANGED transaction
    /\ UNCHANGED <<database, local>>

HandleValidationErrors(r) ==
    LET doc == [count |-> 0, buffers |-> 0,
                errors |-> Cardinality(ValidationErrors(r))]
    IN  SaveProcess(r, "reject", "Failed", doc, "reply")

-----------------------------------------------------------------------------
(* ChunkProcessingService.ProcessAsync.                                    *)

BeginTransaction(r) ==
    /\ Goto(r, "begin", "read")
    /\ txn' = [txn EXCEPT ![r] = "open"]
    /\ UNCHANGED <<database, local, newVehicles, newMakers>>

(* Push one record; a full stack is processed at once.  A chunk size of    *)
(* zero or less makes every record a chunk.                                *)
ChunkFull(r, lines) == Cardinality(lines) >= request[r].chunkSize

ReadRecord(r) ==
    LET pushed == stack[r] \cup {pos[r] + 1}
    IN  /\ pc[r] = "read"
        /\ pos[r] < Len(Lines(r))
        /\ pos' = [pos EXCEPT ![r] = @ + 1]
        /\ stack' = [stack EXCEPT ![r] = pushed]
        /\ pc' = [pc EXCEPT ![r] = IF ChunkFull(r, pushed) THEN "apply" ELSE "read"]
        /\ UNCHANGED <<database, request, pending, temporary, recordCounter,
                       bufferCounter, transaction>>

(* After the last line, what is left on the stack is a last chunk.         *)
EndOfFile(r) ==
    /\ pc[r] = "read"
    /\ pos[r] = Len(Lines(r))
    /\ pc' = [pc EXCEPT ![r] = IF stack[r] = {} THEN "commit" ELSE "apply"]
    /\ UNCHANGED <<database, local, transaction>>

(* VehicleService.ApplyRules(list): load the names visible to the          *)
(* transaction and make a manufacturer for each maker not among them.  The *)
(* list _temporaryManufacturers is never emptied.                          *)
\* Mutant: dirty read of other transactions.
UncommittedNames(r) == Names(manufacturers \cup UNION {newMakers[s] : s \in Run})
\* Mutant: a list cached when the first execution started.
CachedNames(r) == Names({m \in manufacturers : m.by = Nobody})

VisibleNames(r) == Names(manufacturers \cup newMakers[r])

MakersToAdd(r) ==
    {[name |-> Line(r, i).mh, by |-> r, born |-> Line(r, i).mh] :
        i \in {j \in stack[r] : Line(r, j).mh \notin VisibleNames(r)}}

ApplyRules(r) ==
    /\ Goto(r, "apply", "save")
    /\ temporary' = [temporary EXCEPT ![r] = @ \cup MakersToAdd(r)]
    /\ UNCHANGED <<database, request, pos, stack, pending, recordCounter,
                   bufferCounter, transaction>>

(* SaveManufacturers: bulk insert of the whole temporary list.  The primary*)
(* key refuses a manufacturer that an earlier chunk already inserted.      *)
SaveManufacturers(r) ==
    /\ pc[r] = "save"
    /\ \/ /\ temporary[r] \cap newMakers[r] = {}
          /\ newMakers' = [newMakers EXCEPT ![r] = @ \cup temporary[r]]
          /\ pending' = [pending EXCEPT ![r] = stack[r]]
          /\ pc' = [pc EXCEPT ![r] = "insert"]
       \/ /\ temporary[r] \cap newMakers[r] # {}
          /\ pc' = [pc EXCEPT ![r] = "rollback"]
          /\ UNCHANGED <<newMakers, pending>>
    /\ UNCHANGED <<database, request, pos, stack, temporary, recordCounter,
                   bufferCounter, txn, newVehicles>>

(* Vehicles.BulkInsertAsync: the rows of the chunk, latest line first      *)
(* since they come off a stack.  A VIN held by another open transaction    *)
(* makes the statement wait; one that is visible, or a record with a value *)
(* the columns do not take, ends it with an exception.                     *)
NextToInsert(r, i) == i \in pending[r] /\ \A j \in pending[r] : j <= i

VinHeld(r, i) ==
    \E s \in Run \ {r} : Line(r, i).vin \in Vins(newVehicles[s])

\* Mutant: BulkInsertOrUpdate, which takes a VIN that is there already.
RefusedValue(r, i) == Line(r, i).kind = "unstorable"

Refused(r, i) ==
    \/ Line(r, i).vin \in Vins(vehicles \cup newVehicles[r])
    \/ Line(r, i).kind = "unstorable"

InsertVehicle(r) ==
    /\ pc[r] = "insert"
    /\ \E i \in pending[r] :
          /\ NextToInsert(r, i)
          /\ ~VinHeld(r, i)
          /\ \/ /\ ~Refused(r, i)
                /\ newVehicles' = [newVehicles EXCEPT ![r] = @ \cup {Row(r, i)}]
                /\ pending' = [pending EXCEPT ![r] = @ \ {i}]
                /\ UNCHANGED pc
             \/ /\ Refused(r, i)
                /\ pc' = [pc EXCEPT ![r] = "rollback"]
                /\ UNCHANGED <<newVehicles, pending>>
    /\ UNCHANGED <<database, request, pos, stack, temporary, recordCounter,
                   bufferCounter, txn, newMakers>>

\* Mutant: a last, shorter chunk is counted as a full one.
CountFullChunk(r) == recordCounter[r] + ChunkLength(r)

CountChunk(r) == recordCounter[r] + Cardinality(stack[r])

(* Mutant: the bulk insert does not take part in the transaction.          *)
EndOfChunkAutocommit(r) ==
    /\ Goto(r, "insert", "read")
    /\ pending[r] = {}
    /\ vehicles' = vehicles \cup newVehicles[r]
    /\ recordCounter' = [recordCounter EXCEPT ![r] = CountChunk(r)]
    /\ bufferCounter' = [bufferCounter EXCEPT ![r] = @ + 1]
    /\ stack' = [stack EXCEPT ![r] = {}]
    /\ UNCHANGED <<process, result, manufacturers, formerNames, request, pos,
                   pending, temporary, transaction>>

(* Mutant: the stack is not cleared; its lines are processed again.        *)
EndOfChunkKeepsStack(r) ==
    /\ Goto(r, "insert", "read")
    /\ pending[r] = {}
    /\ recordCounter' = [recordCounter EXCEPT ![r] = CountChunk(r)]
    /\ bufferCounter' = [bufferCounter EXCEPT ![r] = @ + 1]
    /\ UNCHANGED <<database, request, pos, stack, pending, temporary, transaction>>

(* The end of ProcessBuffer: count the chunk and clear the stack.          *)
EndOfChunk(r) ==
    /\ Goto(r, "insert", "read")
    /\ pending[r] = {}
    /\ recordCounter' = [recordCounter EXCEPT ![r] = CountChunk(r)]
    /\ bufferCounter' = [bufferCounter EXCEPT ![r] = @ + 1]
    /\ stack' = [stack EXCEPT ![r] = {}]
    /\ UNCHANGED <<database, request, pos, pending, temporary, transaction>>

(* The database commits; the acknowledgement may be lost, which the code   *)
(* sees as an exception inside the try block.                              *)
CommitTransaction(r) ==
    /\ pc[r] = "commit"
    /\ vehicles' = vehicles \cup newVehicles[r]
    /\ manufacturers' = manufacturers \cup newMakers[r]
    /\ txn' = [txn EXCEPT ![r] = "committed"]
    /\ newVehicles' = [newVehicles EXCEPT ![r] = {}]
    /\ newMakers' = [newMakers EXCEPT ![r] = {}]
    /\ \/ pc' = [pc EXCEPT ![r] = "finish"]
       \/ "lostAck" \in Disturbance /\ pc' = [pc EXCEPT ![r] = "rollback"]
    /\ UNCHANGED <<process, result, formerNames, local>>

(* Mutant: a failure to roll back is swallowed.                            *)
RollbackSwallowed(r) ==
    /\ Goto(r, "rollback", "fail")
    /\ Abandon(r)
    /\ UNCHANGED <<database, local>>

(* Mutant: the catch block throws again.                                   *)
RollbackRethrows(r) ==
    /\ pc[r] = "rollback"
    /\ Raise(r)
    /\ UNCHANGED <<database, local>>

(* Mutant: the catch block tries the rest of the chunk again.              *)
RollbackRetries(r) ==
    /\ Goto(r, "rollback", "insert")
    /\ UNCHANGED <<database, local, transaction>>

(* The catch block.  Rolling back a transaction that has ended throws.     *)
RollbackTransaction(r) ==
    /\ pc[r] = "rollback"
    /\ \/ txn[r] = "open" /\ Abandon(r) /\ pc' = [pc EXCEPT ![r] = "fail"]
       \/ txn[r] # "open" /\ Raise(r)
    /\ UNCHANGED <<database, local>>

ProcessingResult(r) ==
    [count |-> recordCounter[r], buffers |-> bufferCounter[r], errors |-> 0]

FinishProcess(r) == SaveProcess(r, "finish", "Finished", ProcessingResult(r), "reply")
FailProcess(r) == SaveProcess(r, "fail", "Failed", ProcessingResult(r), "reply")

Respond(r) ==
    /\ Goto(r, "reply", "ok")
    /\ UNCHANGED <<database, local, transaction>>

-----------------------------------------------------------------------------
(* The environment.                                                        *)

(* A statement that waits for a lock: the command timeout of 30 seconds    *)
(* ends it, or PostgreSQL does when the waits form a cycle.                *)
Waits(r) ==
    \/ pc[r] = "clear" /\ request[r].file # NoBody /\ TableLocked(r)
    \/ pc[r] = "insert" /\ \E i \in pending[r] : NextToInsert(r, i) /\ VinHeld(r, i)

AbortWaiter(r) ==
    /\ Waits(r)
    /\ \/ pc[r] = "clear" /\ Raise(r)
       \/ /\ pc[r] = "insert"
          /\ pc' = [pc EXCEPT ![r] = "rollback"]
          /\ UNCHANGED transaction
    /\ UNCHANGED <<database, local>>

(* Any call to the database can throw.  Only those inside the try block of *)
(* ProcessAsync are caught.                                                *)
DatabaseFault(r) ==
    /\ "database" \in Disturbance
    /\ \/ /\ pc[r] \in {"create", "start", "clear", "vacuum", "begin", "reject",
                        "rollback", "finish", "fail"}
          /\ Raise(r)
       \/ /\ pc[r] \in {"apply", "save", "insert", "commit"}
          /\ pc' = [pc EXCEPT ![r] = "rollback"]
          /\ UNCHANGED transaction
    /\ UNCHANGED <<database, local>>

(* The instance dies: request timeout, out of memory, redeployment.  The   *)
(* database rolls back the transaction of a connection that is gone.       *)
Crash(r) ==
    /\ "crash" \in Disturbance
    /\ pc[r] \in Active
    /\ pc' = [pc EXCEPT ![r] = "crashed"]
    /\ Abandon(r)
    /\ UNCHANGED <<database, local>>

(* DELETE /processes/{id} of the scheme-data API, at any time.             *)
DeleteProcess(r) ==
    /\ "delete" \in Disturbance
    /\ process[r] \notin {"Absent", "Deleted"}
    /\ process' = [process EXCEPT ![r] = "Deleted"]
    /\ UNCHANGED <<result, vehicles, manufacturers, formerNames, pc, local,
                   transaction>>

(* The organisations API works on the same table, in transactions of its   *)
(* own, and no key of Vehicles refers to it.  It creates a manufacturer    *)
(* whose name it did not find, in a look-up that may be long ago (bound: a *)
(* row of its own with this name is gone, or there was none) ...           *)
CreateManufacturer(n) ==
    /\ \A m \in manufacturers : m.by = Nobody => m.born # n
    /\ manufacturers' = manufacturers \cup {[name |-> n, by |-> Nobody, born |-> n]}
    /\ UNCHANGED formerNames

(* ... deletes one, also while vehicles that name it are stored or imported*)
DeleteManufacturer(m) ==
    /\ manufacturers' = manufacturers \ {m}
    /\ formerNames' = formerNames \cup {m.name}

(* ... and gives one another name, which it does not look up; a name that  *)
(* was read before another update is written back.                         *)
UpdateManufacturer(m, n) ==
    /\ n # m.name
    /\ manufacturers' = (manufacturers \ {m}) \cup {[m EXCEPT !.name = n]}
    /\ formerNames' = formerNames \cup {m.name}

OrganisationsApi ==
    /\ "organisations" \in Disturbance
    /\ \/ \E n \in NewNames : CreateManufacturer(n)
       \/ \E m \in manufacturers :
             DeleteManufacturer(m) \/ \E n \in NewNames : UpdateManufacturer(m, n)
    /\ UNCHANGED <<process, result, vehicles, pc, local, transaction>>

-----------------------------------------------------------------------------

Prepare(r) ==
    \/ CreateProcess(r) \/ StartProcess(r) \/ ReadFileName(r)
    \/ TruncateVehicles(r) \/ VacuumDatabase(r) \/ DownloadFileFromStorage(r)
    \/ ValidateFile(r) \/ HandleValidationErrors(r)

ProcessChunks(r) ==
    \/ BeginTransaction(r) \/ ReadRecord(r) \/ EndOfFile(r) \/ ApplyRules(r)
    \/ SaveManufacturers(r) \/ InsertVehicle(r) \/ EndOfChunk(r)
    \/ CommitTransaction(r) \/ RollbackTransaction(r)

Conclude(r) == FinishProcess(r) \/ FailProcess(r) \/ Respond(r)

Step(r) == Prepare(r) \/ ProcessChunks(r) \/ Conclude(r) \/ AbortWaiter(r)

Next ==
    \/ \E r \in Run :
          \/ Accept(r) \/ Step(r)
          \/ DatabaseFault(r) \/ Crash(r) \/ DeleteProcess(r)
    \/ OrganisationsApi

Spec == Init /\ [][Next]_vars

(* An execution that has been accepted keeps running, and a statement that *)
(* waits is ended sooner or later by its timeout.  Nothing is assumed of   *)
(* requests, faults and deletions.                                         *)
FairSpec == Spec /\ \A r \in Run : WF_vars(Step(r))
-----------------------------------------------------------------------------
(* Properties.                                                             *)

(* What the Vehicles table holds of an execution is nothing, or the whole  *)
(* file it was asked to import and only after its commit: chunk by chunk   *)
(* insertion, the chunk left over at the end of the file, a rollback half  *)
(* way and another execution's TRUNCATE never leave part of a file.        *)
AllOrNothing ==
    \A r \in Run :
        LET mine == {v \in vehicles : v.by = r}
        IN  mine # {} => txn[r] = "committed" /\ mine = RowsOf(r)

(* The Result document of a Finished process gives the number of lines of  *)
(* the file, all of them stored as different rows, and the number of       *)
(* chunks ProcessBuffer ran for, whatever the chunk size.                  *)
Chunks(r) == (Len(Lines(r)) + ChunkLength(r) - 1) \div ChunkLength(r)

FinishedReportIsExact ==
    \A r \in Run : process[r] = "Finished" =>
        /\ result[r].count = Len(Lines(r))
        /\ result[r].count = Cardinality(RowsOf(r))
        /\ result[r].buffers = Chunks(r)

(* Every stored vehicle names a manufacturer that is stored too, or one    *)
(* that the organisations API deleted or renamed: the import itself never  *)
(* leaves a vehicle without its manufacturer, although executions read the *)
(* names before they insert and others commit, or are undone, in between.  *)
VehiclesHaveManufacturer ==
    \A v \in vehicles : v.mh \in Names(manufacturers) \cup formerNames

(* No row of a file that has a line the validator should refuse is ever    *)
(* stored, although the validator stops reading at the error cap.          *)
OnlyValidFilesStored ==
    \A r \in Run : txn[r] = "committed" =>
        LinesOfKind(r, "badVin") \cup LinesOfKind(r, "unreadable") = {}

(* With one execution at a time, the table never mixes the vehicles of two *)
(* files, nor old vehicles with new ones.                                  *)
TableHoldsOneFile ==
    Serial => \A v, w \in vehicles : v.by = w.by

(* With one execution at a time, importing never stores two manufacturers  *)
(* of the same name (there is no unique index on the name).  It speaks of  *)
(* importing only: the organisations API can.                              *)
OneManufacturerPerName ==
    Serial => \A m, n \in manufacturers : m.name = n.name => m = n

(* The import implements its contract: see ImportContract.                 *)
Contract == INSTANCE ImportContract
    WITH status <- process,
         offer <- [r \in Run |-> RowsOf(r)],
         table <- vehicles,
         published <- {r \in Run : txn[r] = "committed"}

ImplementsContract == Contract!ContractSpec

(* What can be wrong with a file that is readable: a line the validator or *)
(* the database refuses, or a VIN that occurs twice.                       *)
Defective(r) ==
    \/ \E i \in 1..Len(Lines(r)) : Line(r, i).kind # "good"
    \/ \E i, j \in 1..Len(Lines(r)) : i # j /\ Line(r, i).vin = Line(r, j).vin

(* A maker not known before r appears in a chunk that is not the last.     *)
NewMakerBeforeLastChunk(r) ==
    LET before == ((Len(Lines(r)) - 1) \div ChunkLength(r)) * ChunkLength(r)
    IN  \E i \in 1..before :
            Line(r, i).mh \notin Names({m \in manufacturers : m.by # r})

Settles(r) == process[r] = "Running" /\ process'[r] \in {"Finished", "Failed"}

(* One execution at a time, no failing calls: the file alone decides. A    *)
(* defective one is Failed, at whatever line and in whatever chunk the     *)
(* defect is; one without defects whose new makers are all in the last     *)
(* chunk is Finished.  Of the files between these two ValidFileIsImported  *)
(* says what the documentation says.                                       *)
OutcomeMatchesFile ==
    [][\A r \in Run : Settles(r) =>
          /\ Defective(r) => process'[r] = "Failed"
          /\ ~Defective(r) /\ ~NewMakerBeforeLastChunk(r) =>
                process'[r] = "Finished"]_vars

(* One execution at a time, no failing calls: a file without defects that  *)
(* settles is imported, whatever the chunk size.  The code does not keep   *)
(* this: the list of new manufacturers is saved again with every chunk.    *)
ValidFileIsImported ==
    [][\A r \in Run : Settles(r) /\ ~Defective(r) => process'[r] = "Finished"]_vars

(* Every accepted request ends, in an answer or with its instance: two     *)
(* executions that wait for each other's VINs do not wait for ever.        *)
EveryExecutionEnds ==
    \A r \in Run : pc[r] = "create" ~> pc[r] \in Ended

(* An upper bound of the calls an execution can still make: six for each   *)
(* line it has not read, since every line is pushed and inserted and may be*)
(* a chunk of its own, and one for each other call on the longest way.     *)
Unread(r) == IF HasFile(r) THEN Len(Lines(r)) - pos[r] ELSE 0

Queued(r) ==
    IF pc[r] = "insert" THEN Cardinality(pending[r])
    ELSE IF pc[r] \in {"read", "apply", "save"} THEN 5 * Cardinality(stack[r]) ELSE 0

Rank ==
    [create |-> 12, start |-> 11, clear |-> 10, vacuum |-> 9, download |-> 8,
     validate |-> 7, begin |-> 6, read |-> 5, apply |-> 4, save |-> 3, insert |-> 6,
     commit |-> 4, rollback |-> 3, finish |-> 2, fail |-> 2, reject |-> 2, reply |-> 1]

CallsLeft(r) ==
    IF pc[r] \in Active THEN Rank[pc[r]] + 6 * Unread(r) + Queued(r) ELSE 0

(* Whatever other executions and faults do to an execution, it never gets  *)
(* more to do, and each step it takes brings it nearer to its end: the     *)
(* stack, the chunks and the rollback never start over.                    *)
WorkShrinks ==
    [][\A r \in Run : pc[r] # "idle" =>
          \/ UNCHANGED <<pc[r], pos[r], stack[r], pending[r]>>
          \/ CallsLeft(r)' < CallsLeft(r)]_vars

(* Without failing calls and other executions, a process that was started  *)
(* for a file that exists and parses does not stay Running, unless its     *)
(* instance dies.                                                          *)
Readable(r) == HasFile(r) /\ LinesOfKind(r, "unreadable") = {}

ReadableImportSettles ==
    \A r \in Run :
        process[r] = "Running" /\ Readable(r)
            ~> process[r] \in {"Finished", "Failed", "Deleted"} \/ pc[r] = "crashed"
=============================================================================
