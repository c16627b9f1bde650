# ZEV scheme: formal models

TLA+ models, model-checking configurations and machine-checked proofs for the
services of the zero-emission-vehicle scheme (`src/src`) and the malware scanner
that is deployed beside them (`src/infrastructure/.../malware-scanner`). The modules
are translated from the C#, JavaScript and shell code; what is said of PostgreSQL, the
identity platform, Cloud Tasks, Cloud Functions, Cloud Storage, Pub/Sub and ClamAV is
what that code relies on.

    tlc -workers 2 -config import_concurrent.cfg MCComplianceImport
    tlc -workers 2 -config accounts_faults.cfg MCAccountRequests
    tlc -workers 2 -config scanner_ends.cfg MCMalwareScanner
    tlapm ComplianceImportProofs.tla

The table in section 3 names the module of each configuration; section 4 names the
modules of the proofs.

## 1. The system

| Part | State it keeps | Operations | Interacts with |
|---|---|---|---|
| Compliance import function (`services/functions/compliance-calculation`) | nothing between requests; the tables Vehicles, Manufacturers and Processes | one HTTP operation: import a CSV file from a bucket | bucket, PostgreSQL, the process row |
| Process tracking (`ProcessService`, `Process`, scheme-data API `Features/Processes`) | the Processes table: Waiting, Running, Finished, Failed, and a Result document | create, start, finish, fail; delete and list from the API | import function, API clients |
| Vehicle rules (`VehicleService`, `VinValidator`) | none (pure), apart from the list of new manufacturers, which belongs to the import | multistage van, ZEV, flags and applicability, VIN check digit | import function |
| Unit of work (`UnitOfWork`, repositories) | the open transaction of a request | save, begin, commit, rollback | every handler |
| Manufacturer accounts (`CreateManufacturerUserCommandHandler`, `UsersService`) | user rows with permissions; identities with claims in the identity platform | create a user: identity, row, claims, activation e-mail, with compensation | identity platform, database, notification queue |
| Manufacturers (`Manufacturers/Commands`) | the Manufacturers table and its bridges to users | create, update, delete, search | accounts, import |
| HTTP client and retries (`BaseHttpClient`, `Clients/Extensions`) | none | send with two nested retry loops | websites to organisations API |
| Notifications (`NotificationService`, notifications function) | the Cloud Tasks queue | enqueue; deliver with retries | accounts, e-mail provider |
| Authentication (`DfT.ZEV.Common.MVC.Authentication`) | session cookie, identity and refresh token | sign in and out, extend, forgotten and initial password | identity platform |
| Websites, scheme-data queries | session only | pages, reads | APIs |
| Malware scanner (`malware-scanner/server.js`) | nothing between requests; the objects in the unscanned, clean and quarantine buckets | scan the document of an event: look it up, scan, copy, delete | storage, its events (a push subscription), ClamAV |
| Virus-definition mirror (`updateCvdMirror.sh`, `handleCvdUpdate`) | the mirror bucket, with a lock file | bring the mirror up to date | scheduler, storage, ClamAV's site |
| Storage proxy (`gcs-proxy-server.js`) | the access token and the timer that renews it | forward a request; renew the token | freshclam, token service, mirror bucket |
| Scanner startup (`bootstrap.sh`, `config.js`, `run` of both servers) | progress of the start | verify the configuration, wait for proxy and ClamAV | storage, proxy, ClamAV |
| Scanner metrics (`metrics.js`) | running totals of an instance | record; report | scanner, monitoring |
| Migrator, web infrastructure, Terraform | schema, configuration | none of their own logic | - |

What is hard in it, and what must be true in spite of it (the full list, each
at its line, is `hazards` in PROJECT.json):

- **Import.** It empties the Vehicles table at once and outside a
  transaction, then fills it chunk by chunk inside one; it may be cut off at any
  await; another execution may truncate, insert or commit in between; the
  process row may be deleted under it; and its catch block covers only the
  middle of its work. Correct means: the table never holds part of a file, a
  report is exact, a Finished process was published and a Failed one was not,
  no execution waits for ever, and a vehicle whose manufacturer is not stored is
  one whose manufacturer the organisations API deleted or renamed: vehicles name
  their manufacturer without a foreign key, so nothing more is guaranteed.
- **Accounts.** Two stores and a queue are written one after the other with a
  compensation that can fail, below two nested retry loops. Correct means: success
  is reported for one account per address at most, a whole one that nothing takes
  away; an error leaves no identity that blocks the address, as far as the
  compensation can be relied on; activation links work; a repeated call finds
  nothing of the one before it, as far as messages are not lost.
- **Manufacturers.** Names are checked before they are inserted, with no unique
  index; deleting one removes its bridges while claims that name it live on.
- **Notifications.** A task is delivered at least once and its recipients are
  served one by one.
- **Authentication.** Session, token and password-reset code expire separately.
- **Scanner.** Objects are addressed by name, never by generation; an event is
  delivered again when its answer is late (the deadline is 120 s, a scan may take ten
  minutes), so that handlers of one document overlap; a move is a copy and a deletion.
  Correct means: no document is in a bucket whose verdict it did not get, none is ever
  without a place, none gets both verdicts, what stays behind was reported, and every
  document is filed in the end.
- **Mirror.** A lock is a file with a time in it that others delete when it is old,
  by name. Correct means: one update at a time, no success that leaves the mirror
  stale, no older definitions over newer ones, no update that waits for ever.
- **Proxy.** Handlers cannot wait for a token; a timer that only a renewal sets renews
  it. Correct means: no expired token is sent, and renewals never stop while it lives.
- **Startup.** Two processes verify the buckets one by one at different times, and two
  loops wait for others. Correct means: what listens is ready, and a container listens
  or exits.
- **Metrics.** Totals of an instance are lost with it; a size may not be a number.
  Correct means: the totals that are shown agree with each other.

## 2. Modules

| Module | Kind | Models |
|---|---|---|
| `ImportContract` | abstract specification | what the import promises to readers of Vehicles and Processes |
| `ComplianceImport` | detailed specification | `Function.cs`, `ChunkProcessingService`, `CsvValidatorService`, `VehicleService`, `ProcessService`, `UnitOfWork`, bulk inserts, process deletion, the organisations API's commands on manufacturers |
| `MCComplianceImport` | model-checking module | files, bounds, symmetry |
| `ComplianceImportProofs` | theorems | type correctness, atomicity, refinement, bounded work |
| `StoredRowsProofs` | theorems | what is true of the rows that are stored, and which files are |
| `RetryingClient` | detailed specification | `BaseHttpClient.SendRequestAsync`, the Polly policy of `Clients/Extensions`, `CloneHttpRequestMessage` |
| `UserCreation` | detailed specification | `CreateManufacturerUserCommandHandler` and the services it calls, deletion of manufacturers |
| `AccountContract` | abstract specification | what the creation of users promises to its callers |
| `AccountRequests` | composition | client and handler with the network between them; refinement of `AccountContract` |
| `MCAccountRequests` | model-checking module | addresses, failures, symmetry |
| `AccountRequestsProofs` | theorems | limits of the loops; the invariant of a creation; safety and refinement of the composition |
| `ScannerConfig` | operators | `readAndVerifyConfig`, the look-up of a bucket, the checks a request passes before the first call |
| `ScanContract` | abstract specification | what the scanner promises to the users of the buckets |
| `MalwareScanner` | detailed specification | the scan request of `server.js`, the events, storage, signatures and owners around it; refinement of `ScanContract` |
| `MCMalwareScanner` | model-checking module | configurations, documents, faults |
| `MalwareScannerProofs` | theorems | safety of the documents, refinement |
| `CvdMirror`, `MCCvdMirror`, `CvdMirrorProofs` | detailed specification, symmetry, theorems | `updateCvdMirror.sh` and its caller |
| `GcsProxy`, `GcsProxyProofs` | detailed specification, theorems | `gcs-proxy-server.js` |
| `ScannerStartup`, `MCScannerStartup`, `ScannerStartupProofs` | composition of three processes; configurations; theorems | `bootstrap.sh`, `config.js`, `run` and `waitForClamD` |
| `ScanMetrics`, `MCScanMetrics`, `ScanMetricsProofs` | detailed specification; configuration and sizes; theorems | `metrics.js` and what the handlers record |

### ComplianceImport

An execution is an element of `Run`; its local state (`pc`, `pos`, `stack`,
`pending`, `temporary`, the two counters) is that of the objects the request
creates, and `txn`, `newVehicles`, `newMakers` are its transaction. The
committed database is `process`, `result`, `vehicles`, `manufacturers`;
`formerNames` is a history variable, the names that the organisations API took away.
`pc[r]` names the call that is about to be made, and one action is that call
together with the code up to the next one: interleaving, crashes and deletions
can happen between awaits and nowhere else.

| Code | Actions |
|---|---|
| `HandleAsync`, `GetRequestBody` | `Accept`, `CreateProcess`, `Respond` |
| `Run` | `StartProcess`, `ReadFileName`, `TruncateVehicles`, `VacuumDatabase`, `DownloadFileFromStorage`, `ValidateFile`, `HandleValidationErrors`, `FinishProcess`, `FailProcess` |
| `ProcessAsync`, `ReadFromCsvAndProcessBuffer` | `BeginTransaction`, `ReadRecord`, `EndOfFile`, `CommitTransaction`, `RollbackTransaction` |
| `ProcessBuffer`, `ApplyRules`, `SaveManufacturers`, `BulkInsertAsync` | `ApplyRules`, `SaveManufacturers`, `InsertVehicle`, `EndOfChunk` |
| exception outside the try block of `ProcessAsync` | `Raise` (500, the request scope is disposed) |
| `DeleteProcessHandler` | `DeleteProcess` |
| `CreateManufacturerCommandHandler`, `DeleteManufacturerCommandHandler`, `UpdateManufacturerCommandHandler` | `OrganisationsApi`: `CreateManufacturer`, `DeleteManufacturer`, `UpdateManufacturer`, each a transaction of its own at any time |
| environment | `AbortWaiter` (command timeout or deadlock detection), `DatabaseFault`, `Crash`; lost acknowledgements are alternatives of `CommitTransaction` and `SaveProcess`, storage errors of `DownloadFileFromStorage` |

PostgreSQL is modelled at READ COMMITTED: a transaction reads committed rows and
its own (`VisibleNames`); a row waits for the open transaction that holds its key
(`VinHeld`) and is refused when the key is visible (`Refused`); TRUNCATE waits
for the transactions that have written to the table (`TableLocked`); a
transaction whose connection is gone is rolled back (`Abandon`).

A record is a VIN, a manufacturer name and one of four kinds: good, refused by
the VIN rule, not readable by the CSV reader, not storable in the columns. The
other columns, the summary the rules compute, times and log messages are left
out: nothing in the control flow depends on them. The Guid of a manufacturer is
represented by who made it and under which name (`by`, `born`), because one execution
makes at most one manufacturer of a name (the name is added to the list of names at
once); a renaming changes `name` only. The API looks a name up before it creates a
manufacturer, but not in the same transaction, so the model lets it create one of any
name; the bound is one row of its own for each name at a time. Whether the API is there is
a matter of `Disturbance`, and `NewNames` are the names that it gives. In
`import_concurrent` it deletes any manufacturer at any time, and creates and renames with
the name of the old one; the theorems hold with it and for any `NewNames` unless they say
otherwise.

The deployment gives the function one instance with concurrency one
(`04-02-import-and-compliance-function/variables.tf`, lines 33 and 34):
`Serial = TRUE`. Nothing in the code relies on it explicitly, so both values are
checked: the properties that need it say so.

### ImportContract

Status, offer (the rows of the requested file), table and the set of published
imports. `Clear` empties the table and `Publish` adds a whole file in one step;
`Finish` requires that the import was published and `Fail` that it was not.
`ComplianceImport` implements it under the mapping in its last section: `Accept`
is `Submit`, `TruncateVehicles` is `Clear`, `CommitTransaction` is `Publish`, the
process actions are their namesakes, and every other step stutters.

### RetryingClient, UserCreation, AccountRequests

`RetryingClient` is one call of `SendRequestAsync` for each element of `Client`.
`phase[k]` is where the call is: about to `Send`, `waiting` for the answer, in
the `backoff` of the policy (same message, at most `MaxRetries` times) or in
the `delay` of the loop (a clone, at most `MaxAttempts` times). Answers are the
statuses the API gives; which of them the policy repeats is `Transient` (5xx and
404). `Sendable` is the one property of a clone that matters: whether it has a
body, for then it cannot be sent (see the observations).

`UserCreation` is one call of the handler for each element of `Call`; `step[c]`
names the service call that is about to be made, and the sets `users`,
`bridges`, `identities`, `claims`, `links` are what the services hold, by the
call that made it (the handler draws a new Guid in each call).

| Code | Actions |
|---|---|
| `MapAccountsEndpoints`, `Handle` | `Arrive`, `FindManufacturer`, `CreateIdentity`, `Respond` |
| `CreateUser` | `InsertUser`, `UpdateUserClaims`, `GetPasswordResetToken`, `SendNotification`, `DeleteIdentity` (its catch block) |
| exceptions, `RestExceptionHandlerMiddleware` | `Throw`: 500 before the outer try block, the compensation inside the inner one, 400 from the outer one |
| environment | `CallFails` (a service fails without effect), `Proceed` (it acts, and the acknowledgement may be lost), `Crash` |
| `DeleteManufacturerCommandHandler` | `DeleteManufacturer`; the foreign keys take the bridges with it |

`AccountRequests` joins them: the n-th message of client k starts call `<<k, n>>`.
A message may be lost, a connection may break and a client may time out at any
moment, and the call goes on: with a retry, two calls for the same address run
at once. `AccountContract` sees whole accounts only: `SendNotification` is its
`Open`, `DeleteIdentity` its `Withdraw` (or nothing, before the link),
`Respond` its `Confirm`, and the end of a call of the client its `Hear`.

### ScannerConfig, MalwareScanner, ScanContract

A delivery `<<r, n>>` is the n-th time that request `r` reaches the service; `pc[d]` is
the call its handler is about to make, `scanned[d]` the content it has read, `answer[d]`
and `metrics[d]` what it has said. The world is `store` (the upload at each place, a
place being a bucket and a name), `uploaded`, and `signatures` (the uploads that a scan
would find infected now). A content is represented by the upload that wrote it.

| Code | Actions |
|---|---|
| `app.post("/")`, `handleGcsObject` before its first await | `Receive` (`Scannable`; an unscannable request is answered 200 with an error and a metric) |
| `file.exists`, `getClamVersion`, `scanStream` | `CheckExists`, `getClamVersion`, `ScanStream` |
| `moveProcessedFile`, `File.move` | `CopyFile`, `DeleteFile`; either may take effect and report an error |
| catch block, `handleErrorResponse` | `CallThrows`: 403 and 404 end the deliveries, everything else is 500 and a retry |
| push subscription | `Expire` (the deadline passes, the handler goes on), repetition in `Due`, bounded by `MaxDeliveries` |
| environment | `Crash`, `Write` and `Remove` of objects, `Learn` (freshclam installs signatures) |

The mapping to `ScanContract`: a document is where readers see it (the clean bucket
first, then quarantine, then the unscanned one), and found what the first scan of its
content found. `Write` is `HandIn`, `ScanStream` is `Examine` for the first to scan,
`CopyFile` is `File` for the first to copy, and `Remove` is `TakeBack`. (A deletion
never is, because the copy came before.) Sizes matter only as below the limit,
above it, or not a number. A reply of ClamAV is "clean" or not; that an error reply of
ClamAV counts as infected (`isCleanReply`) is covered only as far as `signatures` may
contain any upload.

The properties of documents hold for names that are used once: `WriteOnce` says that no
two uploads share a place, `OneWay` that no bucket is both a destination and a source.
Neither is guaranteed by the code, see the observations below.

### CvdMirror

`pc[u]` is the command that the script of update `u` runs next. A set of definitions is
a version. Times are ages that stop growing when they are past `Expiry`.

| Code (`updateCvdMirror.sh`) | Actions |
|---|---|
| `handleCvdUpdate` and the time written to `/tmp` | `Request`, `handleCvdUpdate` |
| copy of the lock file with `--if-generation-match=0` | `CreateLock` |
| `gsutil cat`, comparison of the times | `LookAtLock` |
| `gsutil rm` of an expired file, `sleep` | `RemoveExpired`, `Sleep` |
| download, `cvdupdate`, upload | `Download`, `cvdupdate`, `Upload` |
| trap on EXIT | `Unlock` |
| environment | `Crash` (no trap), `Publish`, `Tick`; failing commands are alternatives of each action, counted by `faults` |

`mishaps` is a history variable: a lock file was left behind by a failure or a crash
(`"left"`), or an update held its lock for longer than `Expiry` (`"late"`). The safety
properties speak of states before the first mishap; liveness holds with any.

### GcsProxy

Token and timer are the times they have left; the clock of the process is `Tick`.

| Code (`gcs-proxy-server.js`) | Actions |
|---|---|
| `accessTokenRefresh` | `ClientIsThere` and `TokenIsThere` (its two awaits), `TimerFires`, `RefreshFails` |
| `handleProxyReq` | `handleProxyReq`: forwarded with the token of that moment, or denied, in which case it is forwarded all the same |
| `handleProxyError` | `handleProxyError`: 500, or an exception behind an answer already written |
| environment | `UpstreamAnswers`, `Again`, `Tick` |

`Lag` is how long a renewal may take and `Early` how early a timer may fire; the
assumption is `Lag < Threshold` and `Lag < MinLife`: a renewal takes less than the
threshold and than the life of a new token.

### ScannerStartup, ScanMetrics

| Code | Actions |
|---|---|
| `bootstrap.sh` | `CheckMirror`, `WaitForProxy` (one turn of its loop), `freshclam` |
| `readAndVerifyConfig`, in proxy and service | `CheckNext(s)` (one bucket at a time) |
| `run` of the proxy | `RunProxy` |
| `run` of the service, `waitForClamD` | `initMetrics`, `ConfigVerified`, `waitForClamD` |
| environment | `ClamdStarts`, `Grant`, `Revoke` |

| Code (`metrics.js`) | Actions |
|---|---|
| `initMetrics` | `initMetrics` |
| `writeScanClean`, `writeScanInfected`, `writeScanFailed`, `writeCvdMirrorUpdated` | the same, each one `record` of all its measures |
| the calls in `server.js` | `Handlers` |
| exporter, end of an instance | `Export`, `Restart` |

## 3. Runs

| Run (module) | Question | Bounds |
|---|---|---|
| `import_concurrent` (`MCComplianceImport`) | two executions at once, all disturbances but the deletion of processes: `AllOrNothing`, `VehiclesHaveManufacturer`, `ImplementsContract`, `WorkShrinks`, `EveryExecutionEnds` | 2 executions, 2 files of 2 lines that list the same VINs in opposite order, one maker known and one new, chunks of one line; the API gives the known name, without limit |
| `import_serial` (`MCComplianceImport`) | executions one after the other, either of which may die or lose its process row: `FinishedReportIsExact`, `OnlyValidFilesStored`, `TableHoldsOneFile`, `OneManufacturerPerName`, `ImplementsContract`, `OutcomeMatchesFile`, `ReadableImportSettles` | 2 executions, 8 files of 0 to 3 lines and a missing one, chunk sizes 1 and 2, error cap 2 |
| `accounts_faults` (`MCAccountRequests`) | retries, losses, failures, crashes: `OkIsComplete`, `OneAccountPerEmail`, `BoundedEffort`, `ImplementsContract`, `EverySubmissionEnds` | 1 submission, 2 attempts, 2 retries: up to 3 calls at once |
| `accounts_undo` (`MCAccountRequests`) | compensations that work, a connection that holds: `NothingLeftBehind`, `LinksWork`, `RetryFindsNothing` | 3 submissions of one address, 1 attempt, 2 retries; deletions of manufacturers |
| `scanner_contract` (`MCMalwareScanner`) | every fault, denied permissions, removals, unchanged signatures: `OneVerdict`, `LeftBehindIsReported`, `ImplementsContract` | a document with two deliveries of its event and a request from the command line, 2 unscanned buckets with a common clean one |
| `scanner_ends` (`MCMalwareScanner`) | new signatures, faults in all but the last delivery: `NothingLost`, `DocumentsFitVerdict`, `EveryRequestEnds`, `FiledInTheEnd` | 2 documents, one too large, 3 deliveries |
| `mirror` (`MCCvdMirror`) | `MutualExclusion`, `SuccessIsFresh`, `MirrorNeverGoesBack`, `EveryUpdateEnds` | 2 updates, 2 versions, 2 faults, expiry 1 |
| `proxy` (`GcsProxy`) | `NoExpiredToken`, `TokenIsRenewed` | 2 requests, tokens of 4 to 9 ticks, threshold 3, lag 2, timers 1 early |
| `startup` (`MCScannerStartup`) | `ListeningIsReady`, `AcceptedTwice`, `ListensOrExits` | 6 configurations, any rights, 4 attempts for the proxy and 3 for ClamAV |
| `metrics` (`MCScanMetrics`) | `ScansAgree`, `RowsHaveOneVerdict`, `ShownNeverFalls` | 3 records, sizes -1, 0, 2 and NaN, entries that share buckets crosswise |

Two more runs each show one property violated; they are the findings below.

| Run (module) | Property | Bounds |
|---|---|---|
| `import_valid_file` (`MCComplianceImport`) | `ValidFileIsImported` | those of `import_serial`, crashes only |
| `mirror_mutex` (`MCCvdMirror`) | `OneUpdateAtOnce` | 2 updates, 1 fault |

Two executions of the import are enough to meet every conflict the code can have: all
conflicts are between one execution and the open transaction or the committed
effect of another. With chunk sizes 1 and 2 and files of 0 to 3 lines there are
files that end on and off a chunk boundary, files of several chunks and a chunk
size larger than the file; `import_concurrent` uses chunk size 0, which behaves like 1.
The error cap (50 in the code) is 2, so that files stay below, reach and
would exceed it. The files of `MCComplianceImport` contain a maker first seen
in the first and in the last chunk, a repeated VIN, every kind of bad line, and
bad lines behind the cap. The old table shares a VIN with the new files.

In the accounts, calls meet only through the address, so all submissions have the
same one, and the same manufacturer, which is the case where they get in each
other's way; calls of different addresses share nothing but the manufacturer. With
three calls at once there is one that succeeds, one that is compensating, and one that
is refused or still to come. A second attempt of a POST sends nothing, so one attempt
is enough where only the calls matter; `accounts_faults` has two, and its limits of the
loops are smaller than the code's 5 attempts and 3 retries. `BoundedEffort` is proved for
any limits, and also for messages without a body, which no submission is.

Handlers of the scanner meet only at a place. Three of them for one document (an event,
its repetition, a request by hand) give one that is ahead, one behind, and one that
arrives when the others are through; a second document shows that they do not disturb
others. The configuration has an entry that is hidden by another and two that share a
destination. The mirror needs two updates for every conflict of its lock: also a file that
was left behind need not be that of a third, since an update whose creation of the file is
not acknowledged tries again like any other. An age is below, at or past the expiry. The
numbers of the proxy keep the order of the code's (a token lives longer than the
threshold, which is longer than a renewal) and include a new token that is due almost at
once. The numbers of attempts of the startup are those of the loops made
small: first, middle and last attempt differ. Three records make a total, a second row
and one that is lost with its instance. The theorems lift most safety properties to any
numbers (section 4).

Deadlock is not checked in most runs: executions, calls, submissions, deliveries and
updates are finitely many and all end, a process that is down stays down, and a container
listens or is gone. `metrics` checks it.

**Fairness.** `FairSpec` of `ComplianceImport` is weak fairness of `Step(r)` for each
execution: an accepted execution goes on to its next call, and a statement that waits
is ended by the 30-second command timeout or by deadlock detection (`AbortWaiter` is
part of `Step`). `FairSpec` of `AccountRequests` is weak fairness of each client (an
answer, an exception or the timeout of `HttpClient` comes, and its delays end) and of
`Serve(c)`: a call that runs goes on to its next service call. A crashed call is noticed
by its client as a broken connection. `FairSpec` of `MalwareScanner`: the subscription
delivers what is due, a handler goes on, and what a dead instance does not answer
expires. Of `CvdMirror`: a script goes on, time passes. Of `GcsProxy`: awaits and timers
of a refresh end, time passes. Of `ScannerStartup`: commands and awaited calls come to an
end. Nothing is assumed of requests, faults, crashes, deletions, uploads or signatures.

**Findings.** Each is what a comment or a document says and the code does not keep.

- `ValidFileIsImported`. `VehicleService._temporaryManufacturers` (15) is never emptied, and
  is inserted again with each chunk (141): a file that introduces a manufacturer in any
  chunk but its last ends Failed. `src/src/services/README.md` (13) has files validated and then
  inserted, without a condition. `OutcomeMatchesFile` settles all other files: those with a
  defect end Failed, those whose new manufacturers come with the last chunk Finished.
- `OneUpdateAtOnce`. `updateCvdMirror.sh` (62) removes an expired lock file by name, without
  the generation it has read, and the trap on EXIT (73) removes whatever lock file is
  there. A lock file stays behind when its update dies or when its creation was not
  acknowledged; two updates that have both read it as expired remove it one after the
  other, and the second removes the new file of the first. Both then work on the mirror,
  although line 38 calls the file "a mutex to prevent multiple updates from happening at
  once". Without a lock file left behind, and with updates quicker than the expiry,
  `MutualExclusion` holds.

**Observations.** These definitions say more than the code keeps, too, most of them what a
comment or a message has, and TLC finds them violated when they are put in place of the
properties of the named configuration. They are in no run: a property of that run says
what holds instead.

| Definition | Configuration | What the code does | What holds |
|---|---|---|---|
| `CloneCanBeSent` | `accounts_faults` | `CloneHttpRequestMessage` (18) disposes the stream that becomes the content of the clone, which is made "so that can be resent in retry loops" (9). A POST is repeated in the log only, and its caller gets an exception and not the status. (It also spares the handler: clones that could be sent would repeat POSTs after a compensation.) | `BoundedEffort` |
| `AnnouncedRetryIsMade` | `accounts_faults` | the test `<=` (`BaseHttpClient` 312) is always true: after the last attempt the client logs "Requesting a retry" (21), waits, and makes none; the `throw` at 328 is unreachable | `BoundedEffort` |
| `CleanBucketHoldsClean` | `scanner_ends` with `BodyOf <- OneName` | a document that is written over the scanned one before the move is moved in its place, unscanned, to "the bucket that holds clean documents" (`server.js` 166) | `DocumentsFitVerdict`, for names used once |
| `MovedToOneBucket` | `scanner_ends` | the copy succeeds, the deletion does not, and the retry meets newer signatures: the document is in both buckets, and not in "the appropriate" one (`server.js` 302) | `OneVerdict`, while signatures do not change |
| `FilesCountedOnce` | `scanner_ends` | retries and late answers count the same file again as "files processed" | `ScansAgree` |
| `ErrorsAreAnswered` | `proxy` with `Failing = FALSE` | a request that is denied has its answer written (`gcs-proxy-server.js` 90) and is forwarded all the same. When that fails, `handleProxyError`, which is to "handle any internal proxy errors by returning a 500" (62), writes a head for the second time (71), and the exception ends the process, with it requests that storage has not answered yet. | `NoExpiredToken`, `TokenIsRenewed`, while it lives |
| `RefreshedBeforeItExpires` | `proxy` | one renewal that fails ends the proxy, and nothing restarts it | `TokenIsRenewed`, while it lives |
| `GivesUpWithoutProxy` | `startup` | `bootstrap.sh` gives up, "Proxy server did not start", also when the last attempt was answered | `ListensOrExits` |
| `BytesAreANumber` | `metrics` | the request that `server.js` (75) gives for tests has no size: NaN is added to the "total number of bytes scanned" (`metrics.js` 178) | `ScansAgree`; a negative size is dropped (`ShownNeverFalls`) |

Besides, `waitForClamD` waits ten minutes (`server.js` 320) where its comment says "up to
5 mins" (317).

## 4. Proofs

`ComplianceImportProofs` proves, for any set of executions, any files, chunk
sizes and error cap, serial or not, and any disturbances:

- `TypeCorrect`: `Spec => []TypeOK`;
- `ImportIsAtomic`: `Spec => []AllOrNothing`;
- `ImportImplementsContract`: `Spec => ImplementsContract`;
- `ImportIsBounded`: `Spec => WorkShrinks`, and `CallsLeft` is a natural number.

They rest on the three named assumptions of `ComplianceImport` on its constants
(files are sequences of records; the old table has one row per VIN, each with its
manufacturer; values chosen as "none" are not requests or results, and the names that the organisations
API gives are makers), which TLC evaluates in every run.

`AllOrNothing` is not inductive: that a commit publishes the whole file depends on
where the execution is. `IInv` adds, for each execution, what its program text
guarantees at each call: the state of its process row (`ProcessAt`), that it has
a request for a file that exists (`RequestAt`), whether its transaction is open
(`TransactionAt`), that the stack holds lines already read (`LinesAt`), and that
the rows of its transaction are exactly those of the lines read and not on the
stack or pending (`RowsAt`). `OnlyOwn` shows that a step of one execution leaves
the state of the others alone, so that each action is considered once, for the
execution that takes it. At the commit the stack is empty and all lines are
read, hence `CommitsWholeFile`; `TableStep` shows that only TRUNCATE and COMMIT
write the table. The refinement uses the same invariant: the guards of `Fail` and
`Finish` are `TransactionAt` at the calls that record the outcome.

`CallsLeft` gives each line that is not read six calls and each line on the stack five,
and the other calls a rank on the longest way (`Rank`). That it is a number, and
that the bulk insert takes some of it away, needs `EffortAt`: the lines read are lines of
the file at any time, and a chunk that is processed is not empty. So the only
thing that `EveryExecutionEnds` adds to it is that a call is made, which is the fairness.

`StoredRowsProofs` extends `IInv`, one part for each theorem:

- `StoredFilesAreValid`: `Spec => []OnlyValidFilesStored`. `Checked` says that the
  file is clean from `begin` on; `ValidatorIsSound` shows that the validator, which
  stops at its cap, still sees the first bad line of any file, because the cap is
  positive (`LeastMember`: there is a first one).
- `StoredVehiclesAreKnown`: `Spec => []VehiclesHaveManufacturer`. `Known` follows the
  makers of a chunk from the list to the open transaction to the table. A name
  that was seen need not stay, since the organisations API may delete or rename its
  manufacturer at any moment; but it is then remembered in `formerNames` (`HeardOf`,
  `HeardStays`), and no step of an import takes one away (`NamesAreRemembered`). That
  is what the early look-up is worth.
- `OneFileAtATime`: `Spec => []TableHoldsOneFile`. When executions are serial
  (`Alone`), the table is empty from TRUNCATE to COMMIT (`Emptied`).
- `NamesAreUnique`: `Spec => []OneManufacturerPerName`, when the organisations API leaves the
  table alone and the old names differ. The makers an execution made for
  itself have names that are not stored until it commits (`FreshAt`), since it is alone.
- `ReportIsExact`: `Spec => []FinishedReportIsExact`, also for overlapping executions.
  Between chunks the counters stand at a whole number of full chunks or at the whole file
  (`CountersAt`), which gives the quotient (`NumberOfChunks`); the lines inserted so far
  have different VINs (`DifferentAt`), hence as many rows as lines (`AllRowsDiffer`).
- `FileDecidesOutcome`: `Spec => OutcomeMatchesFile`, when executions are serial, the
  organisations API leaves the manufacturers alone and the database does not fail
  (crashes, lost acknowledgements, storage errors and deletions may happen). `OutcomeInv`
  is needed in both directions. An import that is rolled back has a
  cause in its file (`CauseAt`): a VIN that is refused is one of its own, because the table
  is empty and nobody else holds rows (`Emptied`, `Alone`), and a list of makers is refused
  only when it was saved with an earlier chunk. An import that commits had none: the
  lines inserted differ and can be stored (`DifferentAt`), and while the list grows it has
  not been saved, so that the makers of all full chunks but the last one were known
  from others (`SavedAt`). `OpenAt` and `OursAt` say that only a committed import has
  manufacturers, which is why "from others" has one meaning throughout an execution.

`AccountRequestsProofs` proves of the client, for any limits of its loops,
with or without a body, `ClientTypeCorrect` and `EffortIsBounded` (`BoundedEffort`).
`ClientInv` counts: before attempt n at most `(n - 1) * (MaxRetries + 1)` messages went
out, and in it one for each retry (`AtMost`); each attempt that could send did
(`AtLeast`), and a call that gives up does so in its last one (`FailsLast`). The product is
why `BoundedEffort` is not inductive; `BudgetGrows` is the one arithmetical fact.

It proves that `CreationInv` is an invariant of `UserCreation`,
for any calls, addresses, manufacturers and failures: what the services hold of a
call when it is about to make its next one (`WrittenAt`), that the link comes last
(`LinkIsLast`), that addresses of identities differ (`OneIdentityPerEmail`), that an
error was undone (`Undone`) or wrote nothing (`ErrorWroteNothing`). `StepsAreLocal`
shows that a step of one call leaves what belongs to the others.

Both are carried to the composition (`StepsOfParts`: each of its
steps is a step of a part), which gives, for any clients, limits and faults,

- `RequestsTypeCorrect`, `SubmissionsAreBounded` (`BoundedEffort`), `SuccessIsComplete`
  (`OkIsComplete`), `AddressesAreUnique`
  (`OneAccountPerEmail`), `FailureIsUndone` (`NothingLeftBehind`), `MailedLinksWork`
  (`LinksWork`), each from the invariants of the parts;
- `RetriesAreHarmless` (`RetryFindsNothing`): `Earlier` relates a client to the
  calls it has started, of which all but the last answered 404 or 500;
- `RequestsImplementContract` (`ImplementsContract`): the guard of `Open` is
  `OneIdentityPerEmail`, that of `Withdraw` and `Confirm` is `AnsweredOnce`.

The assumptions of the accounts are `ClientAssumption`, `CreationAssumption` and
`RequestAssumption`, which name the types of the constants and the numbering of
the calls; TLC evaluates them in the runs.

`MalwareScannerProofs` proves, for any requests, documents, verified configurations,
numbers of deliveries and faults:

- `ScannerTypeCorrect`; `FiledByItsVerdict` (`DocumentsFitVerdict`), `NothingIsLost`
  (`NothingLost`), `OneVerdictOnly` (`OneVerdict`), `LeftBehindHasReason`
  (`LeftBehindIsReported`);
- `ScannerImplementsContract`: for names that are used once and signatures that do not
  change, `ImplementsContract`.

The invariant has four parts. `ControlInv`: what a handler knows at each call
(`HandlerAt`), from its checks of the request. `PlacesInv`: with `WriteOnce`, a place
holds only the one document it belongs to, whoever copies or deletes. `FilesInv`: what
is filed was found (`Found`); a handler that deletes has filed first (`DeletesFiled`),
which is why a document is always `Somewhere` although deletions and copies of different
handlers mix; handlers of the same document found the same (`Agreed`). `AnswersInv`: what an
answer says of the document, in spite of those that are late. `StoreEffect` reduces a step
to the four things it can do to the store (write, empty, copy, delete), so that the
properties of documents are proved for those and not for each action.

`CvdMirrorProofs`, for any updates, expiry, versions and faults: `MirrorTypeCorrect`,
`UpdatesExcludeEachOther` (`MutualExclusion`), `SuccessLeavesFresh` (`SuccessIsFresh`),
`NeverBack` (`MirrorNeverGoesBack`). `LockInv` says that up to the first mishap the lock file
belongs to the one that holds it and is no older than `Expiry`, so that nobody ever
removes another's; `VersionInv` that what is about to be uploaded is not older than the mirror.

`GcsProxyProofs`, for any times that satisfy `ProxyAssumption`: `ProxyTypeCorrect`,
`TokensAreValid` (`NoExpiredToken`). `TokenInv` relates
token and timer: the token outlives the timer by the threshold, and a renewal that is due
ends before the token.

`ScannerStartupProofs`, for any configurations, numbers of attempts and changes of
rights:

- `StartupTypeCorrect`, `WhatListensIsReady` (`ListeningIsReady`), `ServiceAgreesWithProxy`
  (`AcceptedTwice`);
- `StartIsBounded`: every step of a process lowers `Ahead`, which a change of rights does
  not raise.

A verification looks at one bucket after the other while rights change, so its loop has
an invariant of its own (`CheckedAt`): what it has seen so far is still readable, unless
something was withdrawn. `OrderInv` follows who waits for whom, and `TrustInv`
hands the result on: the service is started by an answer of the proxy, which answers only
with an accepted configuration.

`ScanMetricsProofs`, for any verified configuration, sizes and numbers of records:
`MetricsTypeCorrect`, `VerdictsHaveDurations` (`ScansAgree`), `TagsTellVerdict`
(`RowsHaveOneVerdict`), `TotalsOnlyGrow` (`ShownNeverFalls`). `Sound` says that the
counts of a set of totals are numbers and agree row by row, and is kept by
a record, a report and the sum over ended instances (`SumSound`); `VerdictInv` that the row of a
verdict holds a bucket and its destination, which cannot be the other one
because names of an entry differ (`RowsApart`); `ReportInv` that a report is never ahead of
its instance, so that the next one is not smaller. The sum of the bytes is left out of
`Sound`, for it may become NaN.

These rest on the assumptions `ConfigAssumption`, `ScannerAssumption`, `MirrorAssumption`,
`ProxyAssumption`, `StartupAssumption` and `MetricsAssumption`, which TLC evaluates in the
runs.

Every safety and action property of a passing run is proved. So are the types of the
components (`TypeCorrect`, `ProxyTypeCorrect` and their like) and `StartIsBounded`,
which are in no run. Only model-checked are the liveness properties (`EveryExecutionEnds`,
`ReadableImportSettles`, `EverySubmissionEnds`, `EveryRequestEnds`, `FiledInTheEnd`,
`EveryUpdateEnds`, `TokenIsRenewed`, `ListensOrExits`): the prover has no rule for fairness
and ENABLED. For the import, the client and the startup
the bounded effort behind them is proved (`ImportIsBounded`, `EffortIsBounded`,
`StartIsBounded`); an update of the mirror has no such bound, since it may wait behind the
lock files of others as often as those come. The properties of the findings and of the observations are false.

## 5. Plan

Done: the import with its contract; the creation of users with client and network; the
malware scanner with its contract, its mirror, proxy, startup and metrics.

Next, in this order:

1. `Manufacturers`: concurrent creations of one name, and the stale claims of users, as
   questions of their own (beside the import they are modelled).
2. `NotificationDelivery`: at-least-once delivery, partial failure, bounded attempts.
3. `AccountSession`: sign-in, expiry, extension and the password flows.
4. `VehicleRules` and `VinCheck`: pure operators against a reference definition,
   over bounded inputs.
5. `UnitOfWork`: reuse after rollback and lost acknowledgement.
6. Theorems: a bound of the work of a scan request and of its deliveries.

## 6. Not modelled

Reading and paging queries, views, dependency injection, health checks, headers,
logging and generated migrations change no state the properties speak of. The values of
the vehicle summary are data for the import. The forwarding of the proxy is a library; the
installation of packages and of ClamAV's configuration in the image happens before
anything runs. Of Terraform only the limits the code relies on are used, as constants:
one instance, concurrency one, deadlines and retries of subscriptions.

Configurations of the scanner in which the clean bucket of one entry is the unscanned
bucket of another pass the verification; the copies that arrive there would announce
themselves again. The model does not generate those announcements, and its properties
say `OneWay`.

Smaller hazards that are known and not pursued by a property: the Count that a rolled
back import reports (`ChunkProcessingService` 71); a missing Ewltp, which makes a vehicle
zero-emission (`VehicleService` 66); a unit of work that is used again after a rollback
(`UnitOfWork` 54); recipients of an e-mail that are served twice when a task is repeated
(notifications function, 39); the proxy that answers at the last attempt
(`bootstrap.sh` 97); totals that are lost at the end of an instance (`metrics.js` 127).
