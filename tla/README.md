# Verification of doc-scanner

doc-scanner takes scans and files from a phone (a PWA), has a model read each document,
makes a searchable PDF of it and files it in the owner's Proton Drive, by itself when the
answer is trusted and after a review otherwise. This directory holds TLA+ models of that
program, their TLC configurations, and proofs checked by TLAPS. The reference is the code
under `src/server/src` and `src/pwa/src`; `PROJECT.json` maps every definition to its lines.

## 1. Inventory

| component | state | operations | what is hard about it | what makes it correct | module |
|---|---|---|---|---|---|
| rows (`documents/repo.ts`) | one SQLite row per document: state, attempts, analysis, decision, filing target, flags, `seq` | compare-and-set `transition`, discard request/cancel/apply, `nextWorkable`, quarantine, combine, purge, change feed | every stage awaits, so any route or login runs between a read and the write that relies on it; unreadable rows | no write overtakes a discard; an upload that may have happened is never forgotten | DocumentPipeline, DocumentFeed |
| inbox (`documents/inbox-store.ts`) | sealed blobs: original, prepared, thumbnail | put (rename), get, remove, sweep | a blob and its row are two writes; a crash between them | the row describes the blob it files; the original goes only with a copy in Drive; nothing outlives its filing | DocumentPipeline |
| stages (`documents/stages/`, `attempts.ts`) | the row and the session a stage read when it began | analyze, prepare, decide, file; retry, postpone, discard | a crash at every await, lost Drive answers, 401s of dead sessions, a failure that cannot be recorded | one upload per decision; bounded attempts; everything comes to rest | DocumentPipeline, FilingPromise |
| worker (`documents/worker.ts`) | one drain, one shared walk, timers | wake, drain, `refreshFolders`, `onLogin` | wake-ups as a drain ends, walks of hours that outlive their session | no wake-up is lost; a tree is of the account signed in | WorkerDrain |
| document routes (`http/routes-documents.ts`) | none of their own | upload, combine, approve, re-analyze, discard, restore, retry, list, settings, folder refresh | any order of legal calls, at any await of the worker | review is never skipped; a discard is settled; no page is uploaded twice | DocumentPipeline, DocumentFeed, WorkerDrain |
| sessions and login (`auth/`, `http/routes-auth.ts`, `routes-passkeys.ts`) | live sessions, the stored session, passkeys, settings, secrets | login, unlock, logout in turn; enrolment; token refresh | another account or password, an old client that outlives its login, a failing write half-way | keys, tokens, caches and passkeys are of one account; old clients write nothing | Sessions |
| Drive access (`drive/`) | the cached tree, SDK caches, a refresh in flight | walk, lookup by SHA-1, find/create folder, upload, refresh and replay on 401 | answers lost after the effect; a burst of 401s | no refresh token is spent twice | Sessions, DocumentPipeline |
| analyzer, prepare tools (`analyze/`, `prepare/`) | none | one answer per call | unusable answers, tools that kill the process | never cost the document | their outcomes, in DocumentPipeline |
| upload queue (`pwa/src/uploads`) | items in memory and IndexedDB, one active upload | add, scan, retry, remove, start, stop, kick | a reload in mid-upload, a 401 of an earlier sign-in, backoff against the `online` event | no item lost, none brought back | UploadQueue |
| document sync (`pwa/src/documents/sync.ts`) | documents by id, cursor, generation | poll, put, reset, stop | a poll answered after a reset; pages older than a route's answer; quarantine during a page | the client ends up with the newest version of every row | DocumentFeed |
| status and sign-in (`ui/App.tsx`, `LoginScreen.tsx`, `LockedBanner.tsx`, `status-watch.ts`) | what the app believes of the server | status reads, the watch, login, logout, unlock | reads that overlap a login; a server that restarts | no late answer undoes a newer one | AppStatus |
| passkeys (`ui/PasskeysSection.tsx`, `auth/flows.ts`, `auth/passkeys.ts`) | a passkey made by the device and not yet stored | add, continue, finish setup, abandon, remove | screens left in mid-enrolment, answers lost or from a proxy | the user sees exactly the passkeys that work | Enrolment |
| scanner (`pwa/src/scanner`, `ui/ScannerScreen.tsx`) | scans and pages in IndexedDB, a session per opening | find, capture, apply, finish, build, discard | captures that outlive their screen, a finish racing an append | pages complete and in order | Scanner, UploadQueue |
| other screens, observability, configuration | view state | rendering, logging, start-up | none a model would show | | not modelled |

The routes, the worker and the logins act on the same rows: the routes write a row and wake
the worker, a login's listener moves what waits for a session and walks Drive, the worker
asks for the live session when a stage starts and keeps it until the stage ends. The PWA
sees rows through the change feed, sends documents through its queue, and learns of the
sessions from the status route.

## 2. Plan

Each module has constants with named assumptions, one action per operation or per code
between two awaits, and no RECURSIVE operator, so that it can be proved about.

1. **DocumentPipeline** (done): rows, inbox, stages, document routes, the session and Drive as
   filing sees them, crashes and faults. **FilingPromise** (done) is what it promises, without
   stages, and `DocumentPipeline` implements it (`KeepsPromise`, checked).
2. **UploadQueue** (done): the stored queue, closed pages, retries and sign-ins.
3. **WorkerDrain** (done): the drain, the shared walk, accounts of the tree.
4. **Sessions** (done): login, unlock, logout in both auth modes, the stored session, passkeys,
   caches, the shared refresh.
5. **DocumentFeed** (done): `seq`, pages, combine, and the sync's copy.
6. **Scanner**, **AppStatus**, **Enrolment** (done): the PWA's other state machines.
7. **The proofs** (done): `DocumentPipelineProofs`, `SessionsProofs`, `UploadProofs`,
   `WorkerDrainProofs`, `FeedProofs`, `ScannerProofs`, `AppStatusProofs`, `EnrolmentProofs`: every invariant
   and action property of the runs, and the refinement of FilingPromise (section 12).

The modules meet where one's actions are another's environment: WorkerDrain's stages are
DocumentPipeline's, its logins are those of Sessions; UploadQueue's scans are Scanner's;
AppStatus's server is what Sessions says of it. Each leaves the other side unconstrained (any
answer, any order), which covers what the composition could do and keeps each instance small.

All configurations say `CHECK_DEADLOCK FALSE`: with the budgets of logins, taps and uploads
spent the system rests and waits for its user.

## 3. Runs

| run | module | bounds | shows |
|---|---|---|---|
| `pipeline_crash` | DocumentPipeline | 2 attempts, 2 converting prepare runs, 1 login, 2 crashes | types; `OneUploadPerDecision`, `FiledAsDecided`, `AttemptsBounded`; no step overruns a discard (`DiscardNotOverrun`) or drops an original (`OriginalKept`) |
| `pipeline_faults` | DocumentPipeline | 1 attempt, 1 login, 1 fault (an unreadable row or a failing write), a folder that moves, a settings change | `UploadNeverForgotten` under quarantine, `FilingIsDecided`, `ReanalyzedIsReviewed` |
| `pipeline_live` | DocumentPipeline | `FairSpec`, 2 attempts, 1 crash, 1 login | `DiscardSettled`, `WorkComesToRest`, `FiledLeavesNoBlob`, and `KeepsPromise`: the refinement of FilingPromise |
| `drain` | WorkerDrain | `FairSpec`, 1 document, 2 accounts, 2 logins, 2 steps a drain, 2 requests, 1 fault | `TreeOfAccount`, `ParkedOnlySignedOut`, `WalkServesStage`, `WorkIsTaken` |
| `foreign_folder` | WorkerDrain | the same | `NoForeignFolder` violated, see Findings |
| `sessions` | Sessions | 2 accounts, 1 passkey, 3 requests, 1 refresh a login, 2 passwords, 1 restart, 1 fault, both auth modes | `KeysMatchTokens`, `StoredIsLive`, `CachesOfAccount`, `WrapsMatchFingerprint`, `SecretsDisposed`, `NoTokenSpentTwice` |
| `feed` | DocumentFeed | 2 parts and their combine, 3 sequence numbers before a combine, pages of 1, 2 pages a poll, 2 polls at once, 1 action, 2 sign-ins, 1 fault | `NothingSkipped`, `OnePoll`, `NeverOlder`, `CombinedNotSent` |
| `uploads_close` | UploadQueue | `FairSpec`, a picked file, a large one and a scan, 1 item, 2 sign-ins, 1 close, 1 storage fault | `NothingLost`, `RemovedStaysAway`, `PausedOnlySignedOut`, `QueueMovesOn` |
| `uploads_scan` | UploadQueue | one scan, 2 items, 2 sign-ins, 1 close, 1 fault | `ScanKept`, `CrashLeavesUpload`, also when the scan is queued twice |
| `scanner` | Scanner | 2 openings, 2 captures, a double tap of Apply, 2 sign-ins, 1 fault | `PagesOnlyAdded`, `ShownIsSent` |
| `status` | AppStatus | 2 passkeys, 4 events of the user and the world, 5 reads, 3 fetches of salts, both auth modes | `ReadNeverOlder`, `PasskeysSurviveSignIn`, `FreshSalts` |
| `enrol` | Enrolment | 2 passkeys, 2 salts, 2 visits, 5 taps, 2 logins, 2 faults | `HeldIsVisible`, `UnstoredIsHidden` |

The MC modules only name the sets the configurations choose from, and the symmetry of accounts,
parts, polls and passkeys where it is used (no run with symmetry checks liveness).

Each property is also run against the model with one plausible coding mistake: a `Slip...`
operator, or another operator of the module with fewer guards, stands just before the operator
it replaces (a dropped discard check in `transition`, a target not saved, a walk saved whoever
is signed in, a generation not checked, a retry that does not look first, ...). Every property
of the passing runs is violated by its mistake; PROJECT.json lists the pairs. The models
themselves never use these operators.

## 4. DocumentPipeline and FilingPromise

### State

| variable | code |
|---|---|
| `row` | the documents table; `"none"` is a document not uploaded yet, `"gone"` a deleted row |
| `blob` | the inbox directory: the original, and which prepare run made the prepared blob (0: none) |
| `cache`, `settings` | `folder_cache` and the settings in force |
| `drive`, `made` | what Drive holds: files by place and bytes, and folders that were created (external) |
| `live`, `logins`, `expired`, `resume` | `liveSession()`, its number, sessions whose refresh token Proton rejects, a queued login listener |
| `pc`, `cur`, `snap`, `sess` | the worker's current await, and the `doc` and `live` its stage read when it began |
| `runs`, `crashes`, `faults` | what is left of the bounds |
| `sent`, `begun` | history: files stored since the last decision or since a lost original was sent again, stage runs begun since attempts was reset |

A field of a row that only feeds text, a view or a log (names, sizes, audit, Drive URL,
thumbnail) is left out. `prepared` is `preparedMime`, made to remember which run wrote the
blob the row describes. `due` stands for `next_attempt_at`. `reviewReason` is whether there
is one. An analysis is a folder choice (or none) and whether it is trusted: content seen and
confidence over the threshold.

### Steps

Node runs one handler at a time, so everything between two awaits is one action, with every
statement it makes. A stage is cut at its awaits; `pc` names the answer it waits for:

* `Begin`: `step()` takes a due row (`nextWorkable`: rows with a pending discard first), and
  the stage runs up to its first await: `AnalyzeParks`, `AnalyzeWalks`, `AnalyzeStarts`,
  `PrepareKeeps`, `PrepareStarts`, `DecideAutoFiles`, `DecideReviews`, `FileParks`,
  `FileDecided`, `FileRechecks`, `FileWalks`, and `StepDiscard`.
* `Continue`: the answer and what the stage does with it, with the row it read at the start
  (`snap`) where the code uses `doc`, and the current row where a statement is compare-and-set.
  `...Throws` is any failed call, with or without its effect.
* `Route`: the document routes. `Environment`: logins, listeners, logouts, timers, the purge,
  Drive carrying out a request whose answer is still out, expiry, crashes and faults.
* `Init` is a server with an empty inbox; a stored tree may be left from an earlier run.

A crash may fall anywhere: `Crash` between two steps; `CrashAfterInsert`, `CrashAfterPut`,
`CrashAfterFiled`, `PutBackCut` and `PurgeCut` between the durable writes of one step. It takes the
worker, the session and a queued listener with it; rows and blobs stay. The write that follows may
fail instead, with the process going on: `Cut` allows both, and the delete after `Filed` may fail.
`deleteAll` removes the original, then the prepared blob, and may end after either (`Remains`).

The purge deletes the blobs of a discarded row before the row (worker.ts:276-277). Cut in
between, it leaves a row that can still be restored and has no original: the document fails for
want of it (`BeginStage`, `Send`), and sending the file again puts it back (`PutsBack`,
routes-documents.ts:129). So `OriginalKept` says that the original of a document that is not
discarded goes only with a copy in Drive, and nothing about restoring one whose purge has begun.
Two things follow from the same cut, and the properties name them:

* The prepared blob is gone too, and a row that records one files the original instead
  (file.ts:75): `FiledAsDecided` asks for the recorded run's bytes only if its blob is there.
* Sending the file again counts as a new decision in `sent`. Without that, `OneUploadPerDecision`
  does not hold: an upload whose answer was lost, then failed, discarded, half purged and restored,
  looks for the original's hash where the prepared bytes were stored, and stores a second file.
  (If the file is sent before the restored row has failed, the route answers `duplicate` and keeps no
  bytes, routes-documents.ts:126-138; the document then fails later.)

What Drive does is modelled from how filing uses it: a folder name is created once, a lookup
by SHA-1 sees every stored file, a request takes effect while it is awaited or never.

### Abstractions

* One document per id; that the same bytes come back as the same document is in UploadQueue.
  The combine transaction, the change feed and the "File with" anchor (which only pins the
  analysis's folder; any folder answer is allowed) are not in this module.
* An account change empties the tree (`clearAccountData`); that Drive calls then address
  another account is not modelled, they may fail at any time anyway.
* After `filed` the stage still asks for a URL and refreshes the cache; these change no row
  state, and `RefreshTree` may happen at any time.
* The owner does not delete or move files in Drive.
* The purge may come at any time after a discard; the code waits a week.

### Runs

All runs use `MCDocumentPipeline`: one document, one folder. Documents interact only through
the single worker and the shared tree, and each property is about one document, so one
document with an unconstrained environment shows every interleaving of the worker with the
routes. Two documents are too many to exhaust (the first ten million states of such an
instance violate nothing); what is about several of them belongs to WorkerDrain. Two
analyses (trusted for an existing folder, or a proposed new one) and the unusable answer reach
both ways of filing. `CHECK_DEADLOCK FALSE`, since the system may stop: all documents filed or
purged and the login budget spent.

`WorkComesToRest` lets a pending discard end its claim: while the stored tree is empty and the
session expired, an owner who keeps requesting a discard and uploading the same bytes again
during each walk holds the document in `analyzing` for ever.

Two attempts are the least that tells a retry from a failure; two crashes let each of the crash
points above follow another, a half purge among them; two prepare runs give a blob that is not
the one recorded. One login with expiry and logout gives every loss of a session,
but a crash during filing has none left to file with again: that case, the lookup
after a crash, rests on the proofs (section 12), which bound neither logins nor crashes. A second
login is too large to exhaust here; what it adds for the walks is the subject of WorkerDrain.

### Fairness

`FairSpec` assumes weak fairness of the worker as a whole (its poll timer wakes it, and every
awaited call has a time limit, so it answers or throws), of a queued login listener, of a
backoff running out, and of the hourly sweep. Nothing is assumed of users, logins, Drive,
crashes, faults or the purge. Which answer comes is left open: fairness is on `Continue`, not
on success.

### The promise

FilingPromise keeps four facts per document: its phase, whether its row notes that Drive may
hold it, how many files Drive stored since the last decision (or since lost bytes were sent again), and whether Drive holds a copy. A
file is stored only after the note and at most once a decision, the note stays, and nothing is
marked filed that Drive has not. `Promise` maps them: `phase` from the row's state, `noted` from
`possiblyInDrive` (or a filed or purged row), `stored` from `sent`, `held` from Drive's content.
`KeepsPromise` is checked with a crash anywhere; every step of stage, route or
environment is a step of the promise or a stutter. `Store` asks for no open phase: an
upload under way may end after its row was quarantined, discarded and purged.

## 5. UploadQueue

The queue of the PWA (`pwa/src/uploads`) keeps every file in IndexedDB until the server has it.
The module holds the queue, the device's copies of scans (`scanner/scans-store.ts`), the sign-in
as App drives it (`ui/App.tsx`) and the intake route's answer by hash.

### State

| variable | code |
|---|---|
| `items`, `stored`, `writes` | `items` in memory, the uploads store, and the writes asked for and not committed, in order, with the call that waits for each |
| `loading`, `startWaits`, `coming` | the shared read of the store, whether a `start()` waits for it, and the `add`/`addScan` calls under way (`claimed` is `coming`) |
| `active`, `timer` | `active` with what `upload()` awaits, and the item and session as it read them; the timeout that will kick |
| `running`, `paused`, `session`, `online` | the fields of those names; `navigator.onLine` |
| `device`, `listed`, `sentScans` | finished scans on the device, the list the inbox last read, and scans accepted since the page was opened |
| `signedIn`, `doc` | whether the server accepts this browser's session, and its newest document of each file |
| `owed`, `scanned`, `reached`, `gone`, `excused` | history: what was promised to the owner, what the server took, what the owner removed |

### Steps

JavaScript runs one handler at a time: one action is the code between two awaits, with the
`kick()` at its end (`Kick`). The awaits are the read of the store (`LoadDone`, `LoadFails`), a
scan's PDF (`Built`, `NotBuilt`), a write (`AddWritten`, `RetryWritten`, `RemoveWritten`,
`SaveWritten`, `Forgotten`), the answer (`ServerTakes`, then `UploadAccepted`, `UploadRefused`,
`UploadUnauthorized`) and the deletion of a sent scan (`ScanDeleted`, `ScanNotDeleted`). A write
that fails leaves the store as it was. `Close` drops all of memory and any number of the last
writes, and a request on its way may still arrive. `FollowUps` is the order of the two awaits
in `accepted()`.

### Abstractions

* A file stands for its bytes; the server tells documents apart by their hash. The same file is
  not picked again while an `add()` of it waits, and one `add()` is one file.
* `attempts` and the backoff are `due`: an item that is not due becomes due some time later. A
  backoff outlasts the upload that set it.
* Items are kept in the order of their ids, the order they were created in; the code may list
  an item added before the store was read after the stored ones, which are older.
* A document with a pending discard counts as kept: the intake route withdraws the discard.
* The proxy's own sign-in (header mode) is a session like the cookie's.

### Runs

One close is enough to lose memory at every await, and the second sign-in meets what the first
left; one storage fault can strike any call. `CHECK_DEADLOCK FALSE`: with all sign-ins spent
and nothing queued the app rests.

`CrashLeavesUpload` excuses a scan whose deletion failed, or whose upload the owner removed;
`RemovedStaysAway` excuses a failed storage call, since a removal that failed in storage comes
back at the next start (the code only logs it). `NothingLost` excuses nothing.
`QueueMovesOn` is about working storage: after the storage fault it claims nothing.

### Fairness

A request has a time limit of 15 minutes, IndexedDB answers, one way or the other, timeouts fire, and a
backoff runs out. Nothing is assumed of users, of the server or of the connection, nor of which answer comes.

## 6. WorkerDrain

How the worker is driven: one drain that every `wake()` joins, one walk that every caller of a
session shares, and what logins, logouts and a change of account do to both. A stage here only
reads the tree, uses a session and moves its row; what it does is in section 4.

| variable | code |
|---|---|
| `row`, `parked` | a row's state as far as the worker cares, and whether it is due; history of what was parked for want of a session |
| `pc`, `cur`, `again`, `steps`, `using`, `waitsFor` | the drain, `again`, the `for` loop, and the session the stage found or waits for |
| `live`, `starting`, `owner`, `userId` | the live session, a login awaiting `clearCaches()`, accounts of logins, the stored user id |
| `tree` | `folder_cache`, as the set of accounts that have folders in it |
| `walks`, `refreshing`, `callers`, `resumes` | walks in flight, the one that can be joined, who awaits each |

A walk ends or fails; what awaited it goes on before any other event (`Settled`), as promise
callbacks do. One document suffices because rows share only the drain and the tree, and
"another document is in hand" is met as "the drain is at an await". Two accounts, each with a
login, give the change of account; two steps a drain let `MAX_STEPS_PER_DRAIN` (1000 in the code) run out
with work left; one fault strikes storage, Drive, Proton or the analyzer once. The fairness is that of section 4, and that a walk
ends or fails.

`ParkedOnlySignedOut` is about documents parked by the look for a session. A document parked by
a 401 is not in `parked`: it may wait while a newer session lives (see Findings).

## 7. Sessions

The server's sessions. A request (login, unlock, logout) waits for its turn in the mutex and is
cut at its awaits; clients outlive their sessions, so every client made since the last restart
may still refresh tokens and read Drive.

| variable | code |
|---|---|
| `job` | the requests in the order of their turns: what each awaits, what an unlock works with |
| `client`, `registered`, `sids`, `secrets` | Drive clients, `live-session.ts`, `liveSids`, secrets not disposed |
| `stored`, `userId`, `fp`, `passkeys`, `caches` | SessionStore, the settings, PasskeyStore, `entities_cache` by account |
| `enrol`, `onItsWay` | the session an enrolment captured before its body arrived; refreshes Proton has answered |
| `proton`, `version` | external: which refresh token is the newest, and each account's password |
| `unsure`, `reused`, `unstarted` | history: logins of which an answer was lost or whose client was forgotten while their tokens stayed stored; a token presented twice; logins that never started |
| `unsaved`, `unmarked` | history: logins whose newest tokens could not be stored; passphrases wrapped while their fingerprint could not be recorded |

A passphrase stands for the key salt it was derived with, and a token is its login and the number
of its refresh. Three requests are the least that show a login over a login with an unlock or a
logout beside them; one refresh, one restart, one new password and one fault each can fall at
any await, and the fault between any two writes of one step. Two accounts and one passkey are
symmetric to any others. TLC finds 1,162,310 states.

A handler that writes more than once has an action for the write that fails: `LoginSameFails`,
`LoginOtherFails`, `LogoutFails`, `EnrolUnmarked`, `DriveSaveFails` and the failing branches of
`UnlockEnded`, `UnlockStale` and `UnlockLost`. A crash at the same place is that action followed
by `Restart`: nothing that is in memory outlives it.

`StoredIsLive` is about header mode, the only one that resumes from the stored session: in
cookie mode a second login leaves the first one's client registered, and its refresh overwrites
the newer tokens, which nothing reads back. It excuses a login whose start failed after its
tokens were stored, and a refresh that could not be saved: the client has its new tokens by then
(client.ts:151, routes-auth.ts:132), and what is stored is spent until that login's next refresh.

`WrapsMatchFingerprint` excuses a wrap whose fingerprint could not be recorded (routes-passkeys.ts
93, 101). With none recorded a later login takes the password for unchanged
(routes-auth.ts:158) and keeps the wrap even if it is of an old password; an unlock with it then
removes every wrap (`UnlockStale`), and an enrolment under the current password records the fingerprint.

`NoTokenSpentTwice` excuses a login of which an answer was lost or whose newer tokens could not
be saved, and a logout or a change of account whose write failed after the old sessions were forgotten
(routes-auth.ts 188-200, 244-246), after which the old client refreshes without saving and an
unlock presents what is stored. Not modelled: `srp.ts` 173-182,
where a secret is stranded if `fetchAndDecryptUserKey` throws before a session owns it.

## 8. DocumentFeed

`seq` on the server, `listChangedSince` with the quarantine it may do to a row it reads, the
combine route around its PDF, the worker and the routes as far as they move rows, and the
browser's copy (`DocumentSync`, and the answers `InboxScreen` puts into it). Requests and answers
travel apart, so the server acts between them and answers overtake each other.

| variable | code |
|---|---|
| `row`, `unreadable`, `seq`, `sent` | rows as `toView` shows them, rows that do not decrypt, `document_seq`, parts whose upload began |
| `held`, `cursor`, `inflight`, `running`, `loop`, `timer`, `stray` | the fields of DocumentSync; timers whose handle was overwritten |
| `poll`, `call`, `session` | polls in flight and the page each is at, actions of the user, the sign-in |

Two parts and pages of one row put every change between two pages; `MAX_PAGES` (20 in the code) is 2,
so that a poll stops before it has everything. A poll of an older generation and one of the
current run together. The last sign-in does not end, so that the copy may be complete.

`CopyCatchesUp` says that the polling never stops for good: again and again a signed-in page
shows every document as it is. `FairSpec` assumes that an armed timer fires on a page that is
visible again and again (on a hidden page `tick` only arms it anew), and that a request is
answered or fails. It assumes nothing of the user or of `onVisibility`, whose poll would start
a loop that had died, nor which answer comes. It is not among the runs: `tlc -config FeedLive.cfg
MCDocumentFeed` finds it to hold in 154,428 states, without actions of the user, which keeps it small: they only
put newer rows into the copy (`NeverOlder`) or forget documents the server does not have. TLC finds it violated when `poll()` drops the loop of a tick
that joins it, or the end of a failed poll does not arm the timer. While a row does not decrypt and
the numbers are spent, its quarantine has no number to take, and nothing is claimed.

The copy may hold a document that was purged: a purge has no `seq`, and the inbox hides old
discards by its own clock (InboxScreen.tsx:194). An answer of a route that arrives after a sign-out is put
into the emptied copy; it is of the owner's document and the next sign-in resets it.

## 9. Scanner

Openings of the scanner (`ScannerScreen` with its session), over the scans store the phone
keeps. A request to IndexedDB that is awaited is one step; an opening left in the middle goes
on (`commitPage`, a capture, `finish`), as promises do. A page is its capture; `edit` is the frame
whose corners are adjusted. Two openings and two captures put one of each on either side of
every await; `Twice` is the button that can be tapped twice before the screen disables it.

`promised` remembers what was on the screen at the first tap of Done. `ShownIsSent` says
the PDF holds all of it in that order; it may hold more (a page committed after Done, or a page
stored twice by a double tap of Apply, ScannerScreen.tsx:104).

What the code does and a reader may not expect, none of it against a property: a camera that
starts after its screen is gone stays on (scanner-session.ts:57-63); a capture
while corners are adjusted is committed first, so pages are in order of commitment; a page being
captured when Done is tapped is not in the PDF and is deleted with the scan; Back on "camera
unavailable" and Scan again deletes an unfinished scan (scans-store.ts:74); the prompt may ask
about a scan that a tap on Scan has already deleted (App.tsx:137-143); `finishScan` writes back a
row it read before (scans-store.ts:130-135). An automatic capture is checked and committed in one
step, where the code looks at `capturing` when the frame begins; commits that overlap are
reached by Apply. `updatePage` has no caller and is not modelled.

## 10. AppStatus

What the app believes of the server: `readStatus`, the answers of login and unlock
that carry a status, the watch with its poll listener, the login screen over the app, the
banner with its salts. A request is sent, answered, and its answer taken, in three steps; the
server changes on its own between any two (a restart, a login or logout elsewhere, the proxy's
session, Proton).

`events` is one budget for the user and the world: four in any combination (taps, changes
elsewhere, lost answers, polls heard, reloads); with the five reads and three fetches of salts
they start there is room for a read that overlaps a login that overlaps a restart. One login and
one logout are in flight at a time. `ReadNeverOlder` is about reads; an answer of a login or an
unlock may be older than a read that overtook it, which App accepts (App.tsx:174 says "any read
still in flight is older", which need not be so). It orders the reads that bring a status: that a late 401
does not sign a signed-in user out is the generation check of `RefreshUnauthorized`, which has no
property of its own, and a read that takes the banner away in mid-unlock is allowed. The scanner's screen and the resume prompt are
in Scanner. Left out: a login cancelled while its answer is on its way still applies; an unlock
answered after its banner is gone is not heard.

## 11. Enrolment

Passkeys in Settings, in header mode: the device makes a passkey, then the server stores it, and
one that is not stored must be hidden by the password manager (`signalUnknownCredential`), or be
finished later. `section` is the mounted component, `runs` the steps of `run()` in flight, which
outlive it; `posts` are POST /api/passkeys on their way, which may be stored after the browser
has given up on the answer. Two visits let a step of the first end in the second; five taps are
Add, Continue, Finish setup and two more; two faults are a lost answer and a restart or a logout.

`UnstoredIsHidden` excuses a passkey whose POST had no clear answer: then the code must not hide it (`HeldIsVisible`).
A browser that cannot hide shows a hint instead, which is not told apart. The page
is not closed in the middle (nothing would be left to act), one DELETE is in flight at a time, and
Settings is not opened while an unlock is in flight.
Known and not against a property: the list read when Settings opens may land after an add or a remove and show the state before it
(PasskeysSection.tsx:117-123); a 404 of a proxy for a DELETE counts as removed
(PasskeysSection.tsx:203); Continue tried again after an unclear answer can make a second passkey.

## 12. Proofs

Every safety invariant and every action property that a run checks is also a theorem, for every
value of the constants: any documents, accounts, files, pages, passkeys and openings, any number
of crashes, faults, logins and taps. So is the refinement of FilingPromise. What a run adds to a
theorem is that its hypotheses are met, and that a plausible mistake in the code breaks it.

Each module of proofs extends its model, and goes the same way: an inductive invariant, lemmas on
the operators, one lemma per action or per kind of write, `Init` establishes the invariant,
`[Next]_vars` keeps it, and a temporal step per theorem. TLC checked each inductive invariant
on the run's instance before it was proved.

| module | inductive invariant | theorem | property |
|---|---|---|---|
| DocumentPipelineProofs | `TypeOK` | `TypeCorrect` | `TypeOK` |
| | `UploadInv` | `UploadRemembered` | `UploadNeverForgotten` |
| | `FilingInv` | `OneUpload` | `OneUploadPerDecision` |
| | | `FiledWhereDecided` | `FiledAsDecided` |
| | | `FilingDecided` | `FilingIsDecided` |
| | | `LookIsReviewed` | `ReanalyzedIsReviewed` |
| | | `AttemptsStayBounded` | `AttemptsBounded` |
| | | `DiscardIsNotOverrun` | `DiscardNotOverrun` |
| | | `OriginalIsKept` | `OriginalKept` |
| | | `PipelineKeepsPromise` | `KeepsPromise` (the refinement) |
| SessionsProofs | `SessionsInv` | `OneAccount` | `KeysMatchTokens` |
| | | `RestartResumes` | `StoredIsLive` |
| | | `CachesFollowAccount` | `CachesOfAccount` |
| | | `WrapsFollowFingerprint` | `WrapsMatchFingerprint` |
| | | `SecretsAreDisposed` | `SecretsDisposed` |
| | | `TokensSpentOnce` | `NoTokenSpentTwice` |
| UploadProofs | `UploadsInv` | `NothingIsLost` | `NothingLost` |
| | | `ScansAreKept` | `ScanKept` |
| | | `CopyGoesWithUpload` | `CrashLeavesUpload` |
| | | `RemovedIsGone` | `RemovedStaysAway` |
| | | `PauseMeansSignedOut` | `PausedOnlySignedOut` |
| WorkerDrainProofs | `DrainInv` | `TreeIsOfAccount` | `TreeOfAccount` |
| | | `ParkedWaitSignedOut` | `ParkedOnlySignedOut` |
| | | `StagesAreServed` | `WalkServesStage` |
| FeedProofs | `FeedInv` | `NothingIsSkipped` | `NothingSkipped` |
| | | `OnePollDrives` | `OnePoll` |
| | | `HeldIsNeverOlder` | `NeverOlder` |
| | | `CombinedWasNotSent` | `CombinedNotSent` |
| ScannerProofs | `ScannerInv` | `NoPageIsOverwritten` | `PagesOnlyAdded` |
| | | `ShownWasSent` | `ShownIsSent` |
| AppStatusProofs | `AppInv` | `SignInKeepsPasskeys` | `PasskeysSurviveSignIn` |
| | | `ReadUndoesNothing` | `ReadNeverOlder` |
| | | `PromptsAreFresh` | `FreshSalts` |
| EnrolmentProofs | `EnrolInv` | `OnlyUselessIsHidden` | `HeldIsVisible` |
| | | `NoneLeftBehind` | `UnstoredIsHidden` |

### Assumptions

The theorems assume what the modules assume of their constants, and TLC evaluates it on every run:
the bounds are naturals (at least one attempt, request, password version, page), sets that the
program counts are finite, trees and settings have their shapes, openings and captures are
numbered. `NoneAssumption` (`NobodyAssumption` in Sessions) says that the value for null is no record
or tuple of the model: TLA+ does not say so of a constant, the code's `null` and `undefined` do.

### Why the invariants are what they are

**DocumentPipeline.** `TypeOK` is inductive by itself. `UploadInv` adds to `UploadNeverForgotten` that the
row already remembers an upload in flight (`InFlightRemembered`: the target is saved first), that a row the
worker holds is neither filed nor unborn (`HeldIsOpen`: otherwise a late failure would overwrite
a filed row), and that a row never uploaded is blank. `FilingInv` has three more layers:

* `AllSound`: what a row says of its own filing, without looking at anything else. A row that waits to be
  filed has a decision and a preparation, a discard is pending only while a stage may run, an asked look
  is remembered. One lemma per repository statement shows that it writes a *legal* row (`Legal`):
  sound, obeying a pending discard, level with the promise, and keeping the decision and the preparation.
* `Ledger`: the row against the blobs, Drive and the counts. The heart of
  `OneUploadPerDecision` is `StoredIsTarget`: a file stored since the last decision is at the row's target and has the bytes
  that a retry would send, so that the lookup by SHA-1 finds it; once a cut purge has taken every blob
  there are none, and bytes that are sent again begin a new count.
* `WorkerInv`: the copy a stage holds against the row. A filing stage's copy still agrees with the row
  (`FilingAgrees`) unless the row was quarantined, and no upload is asked for after one was stored
  (`UploadIsFirst`): routes leave a filing row alone, and the retry that would upload again looks first.

Every step is a legal write of one row, or one of the few that are not (insert, approve, prepared,
saved target, filed, purge), which get lemmas of their own. The same relation gives the action
properties and `PromiseStep`, a step of FilingPromise or a stutter, so that
`PipelineKeepsPromise` follows from `StepOK` and the initial states.

**Sessions.** `Turns` is the mutex: requests that have started are the first ones, one runs at a time,
and nothing is registered while one does. `Whose` says which account tokens, wraps and the
fingerprint are of, at each await of a login or an unlock. `Holders` is needed for `StoredIsLive` and
`NoTokenSpentTwice`: a started client has the newest token of its login, no two clients hold one login's
tokens, and the client of the stored login, if there is one, is live and has what is stored; each
with the excuse of a lost answer or a failed save.

**UploadQueue.** `Queueing` orders the writes on their way to the store: the writes of one item keep its bytes, an
add is alone, nothing follows what erases it, and `upload()` waits for one at a time. Only with that
does an interrupted tail of the writes leave an item that is owed (`OwedKept`) or a scan's upload
(`ScansKept`), and never one that was removed (`GoneErased`).

**WorkerDrain.** `SignedIn`: the live session is of the account in the settings, and while another account's login awaits
`clearCaches()` nobody is live and there is no tree. `InHand`: a stage awaits a walk in three
places, and if its session is still live it awaits a walk of that one.

**DocumentFeed.** `ViewsFit`: a view, wherever it is, is the version of its number and no newer
than the row. `PagesCover`: the page a poll holds has every row numbered between its ends. `Joinable` and
`Driven`: `inflight` is the poll of this generation, and a loop is driven by one timer or by one
poll. `PartsUnsent`: a combine under way read parts that are not on their way to Drive, as long as
their numbers are what it read.

**Scanner.** `ScreenFits` and `UnbornUnknown` say what an opening may do at each step, and that nobody knows a
scan that is not in the store yet. While a scan is unfinished its pages are numbered to its count (`Growing`)
and what is shown of it is stored in order (`ShownStored`). After Done this ends: `finish()` writes
back the count it read, a late capture may then get a number twice and write over a
page. `PromiseKept` is why this does no harm: what was shown at Done lies below every
count that the row has or that a `finish()` under way may write, so below every number a
later page can get.

**AppStatus.** `ReadsFit`: reads are numbered, and the latest, the only one that may apply, is of a server not
older than what is shown. `PanelFits`: the salts of a banner, and those of the fetch that may still fill them, are
from after its last refusal. `FirstAlone`: until the first read has answered nothing else is under way.

**Enrolment.** `PostsOnce` and `RunsOnce`: a passkey has at most one POST and one run, and one not
posted yet was neither stored nor hidden. `SetupWaits`: a setup that waits for a tap is of such a passkey, and is
hidden when the section goes. `Enrolled`: what the browser takes for enrolled was stored once.

### What stays with TLC

* Liveness under fairness, which is out of the prover's reach: `DiscardSettled`,
  `WorkComesToRest`, `FiledLeavesNoBlob` (DocumentPipeline), `WorkIsTaken` (WorkerDrain), `QueueMovesOn` (UploadQueue).
  Beside the runs, `CopyCatchesUp` (DocumentFeed, section 8).
* The counterexamples of section 13.

## 13. Findings

`foreign_folder` is a run. The file stage adds the folder it created to the cached tree after
`refreshFolderCache()` without asking whose tree that is by then (file.ts:177-182,
folder-cache-store.ts:50-61). A filing of account A that ends after B has logged in joins B's walk,
B's tree is saved, and A's folder is put into it and is offered for B's documents until the next
walk, against folder-cache-store.ts:63, "another Proton account's folders must never be offered".

Each of the following has a configuration beside the modules, which is not among the runs; TLC
finds the counterexample with `tlc -config <name>.cfg <MC module>`.

| configuration | property | what the code does | what the repository says |
|---|---|---|---|
| `DiscardedStays.cfg` | `DiscardedStaysDiscarded` | `recordFailure` moves a row from whatever state it re-reads. A `received` row whose attempts crashes have used up, discarded while the analyze stage walks Drive, becomes `failed` (worker.ts:211) | repo.ts:151 "so the API and the worker never overwrite each other." |
| `MaybeUploaded.cfg` | `MaybeUploadedKeepsDecision` | Restore gives a reason for review only to a row with an analysis. A document approved without one, whose upload began, discarded and restored, is analysed and auto-filed with a new decision (routes-documents.ts:418) | analyze.ts:80 |
| `WaitingResumes.cfg` | `WaitingResumes` | the 401 of a replaced client that arrives after the new login's listener parks its document although a session is live (file.ts:206); it waits for the next login | the design of 2026-10-09, line 53 |
| `ResendDuplicate.cfg` | `ResendIsDuplicate` | a stored copy sent again after its document was discarded makes a new document: the lookup by hash skips discarded ones (routes-documents.ts:122, repo.ts:326) | queue.ts:339 |
| `RetriedSent.cfg` | `RetriedIsSent` | `retry()` kicks only after its write; if that fails, the item is due in memory and nothing sends it until something else kicks (queue.ts:194) | queue.ts:190 |
| `StatusRise.cfg` | `RiseIsAsked` | a document that starts to wait while a read is in flight that the server answered before its restart: the trigger is dropped, and the app shows "live" until the next one | status-watch.ts:24 "that read is already asking" |

## 14. Not modelled

Cryptography (SRP, key arithmetic, at-rest sealing), PDF and image processing, edge detection, the model's prompt and
its evaluation harness, the SDK adapters, rendering, logging and configuration: pure data
transformation or I/O, without state a run could tell apart. Of the components that are
modelled in part, PROJECT.json says what is left out. Time is not modelled: a backoff, an expiry or
a purge happens some time later, so nothing is said of how long anything takes, and which of
several due uploads goes first (queue.ts:283) is not constrained by a property.
