--------------------------- MODULE DocumentPipeline ---------------------------
(***************************************************************************)
(* The document pipeline of the server (src/server/src/documents): the     *)
(* rows of DocumentRepo, the blobs of InboxStore, the one worker that takes *)
(* a due document through analyze, prepare, decide and file, the routes    *)
(* that act on the same rows, the Proton session a filing needs, and Drive. *)
(*                                                                         *)
(* Node runs one handler at a time, so the code between two awaits is one  *)
(* action. A stage is cut at its awaits: pc says which answer the worker   *)
(* waits for, and routes, logins, crashes and Drive itself step meanwhile. *)
(* A crash or a failing write may also fall between two durable writes of  *)
(* one action; those are the CrashAfter... and ...Cut actions.             *)
(*                                                                         *)
(* Operators named Slip... are not part of the model. Each is the operator *)
(* after it with a plausible coding mistake; substituting it shows that a  *)
(* property can fail (README.md, Seeded mistakes).                         *)
(***************************************************************************)
EXTENDS Integers

CONSTANTS
    Docs,          \* document ids
    Folders,       \* Drive folders a walk can find
    Paths,         \* folder paths
    Trees,         \* folder trees a walk can return
    Settings,      \* values of the auto-file switch and never-file-here list
    Analyses,      \* usable answers of the analyzer
    MaxAttempts,   \* attempts.ts MAX_ATTEMPTS
    MaxRuns,       \* bound: prepare runs of one document that convert it
    MaxLogins,     \* bound: logins
    MaxCrashes,    \* bound: crashes of the server process
    MaxFaults,     \* bound: rows that become unreadable, and writes that fail
    Gone,          \* a folder that is not in the tree
    None           \* SQL NULL

\* A decision or suggestion: an existing folder, or a new one under `folder`
\* (made: its createdLinkId is saved). A place is where a file can end up.
Choices  == [folder: Folders, path: Paths, new: BOOLEAN, made: BOOLEAN]
Places   == Folders \X BOOLEAN
Place(c) == <<c.folder, c.new>>

ASSUME NoneAssumption == None \notin Places \cup Choices \cup Analyses
ASSUME BoundAssumption ==
    /\ MaxAttempts \in Nat \ {0}
    /\ MaxRuns \in Nat /\ MaxLogins \in Nat /\ MaxCrashes \in Nat /\ MaxFaults \in Nat
ASSUME DataAssumption ==
    /\ None \notin Docs /\ None \notin Trees
    /\ Trees \subseteq [Folders -> Paths \cup {Gone}]
    /\ Settings \subseteq [autoFile: BOOLEAN, excluded: SUBSET Paths]
    /\ Analyses \subseteq [folder: Choices \cup {None}, trusted: BOOLEAN]

Workable    == {"received", "analyzing", "preparing", "ready", "filing"}
Working     == {"analyzing", "preparing", "filing"}
Resting     == {"received", "ready", "needs_review", "awaiting_login", "failed"}
SlipDiscardable == Resting
Discardable == Resting \cup Working
\* "none": not uploaded yet. "gone": the row is deleted.
States      == Discardable \cup {"filed", "discarded", "none", "gone"}

\* prepared stands for preparedMime: NotPrepared is NULL, 0 a run that kept the
\* original, k > 0 the run whose blob the row describes.
NotPrepared == 0 - 1
Rows ==
    [state: States, attempts: 0..MaxAttempts, due: BOOLEAN, discardRequested: BOOLEAN,
     analysis: Analyses \cup {None}, reviewReason: BOOLEAN,
     prepared: NotPrepared..MaxRuns, decision: Choices \cup {None},
     target: Places \cup {None}, autoFiled: BOOLEAN, unverified: BOOLEAN,
     reanalyzed: BOOLEAN]
NewRow ==
    [state |-> "none", attempts |-> 0, due |-> TRUE, discardRequested |-> FALSE,
     analysis |-> None, reviewReason |-> FALSE, prepared |-> NotPrepared,
     decision |-> None, target |-> None, autoFiled |-> FALSE, unverified |-> FALSE,
     reanalyzed |-> FALSE]
Blobs  == [original: BOOLEAN, prepared: 0..MaxRuns]
NoBlob == [original |-> FALSE, prepared |-> 0]

\* What the worker waits for: a folder walk (of analyze or of file), the
\* analyzer, the tools, a folder lookup or creation, the turn after it, the
\* SHA-1 lookup, the upload (stored: Drive has the file, the answer is out).
Waits == {"idle", "walk", "analyze", "prepare", "rewalk", "folder", "send", "lookup",
          "upload", "stored"}
FileWaits  == {"rewalk", "folder", "send", "lookup", "upload", "stored"}
DriveWaits == FileWaits \ {"send"}
SendWaits  == {"lookup", "upload", "stored"}

VARIABLES
    row,       \* documents table: Docs -> Rows
    blob,      \* inbox directory: Docs -> Blobs
    cache,     \* the stored folder tree, or None
    settings,  \* the settings in force
    drive,     \* what Drive holds of each document: set of <<place, bytes>>
    made,      \* folders under which the new folder exists in Drive
    live,      \* the session liveSession() returns, 0 for none
    logins,    \* logins so far; the last one's number is its session
    expired,   \* sessions whose refresh token Proton no longer accepts
    resume,    \* a login's listener is queued but has not run
    pc, cur, snap, sess,  \* the worker: what it awaits, for which document, the row and the
                          \* session it read when it began; then what it sends (prepared)
    runs,      \* converting prepare runs of each document so far
    crashes, faults,      \* spent budgets
    sent,      \* history: files Drive stored since the last decision, or since
               \* a lost original was sent again
    begun      \* history: stage runs begun since attempts was last reset

rows    == <<row, blob>>
session == <<live, logins, expired, resume>>
worker  == <<pc, cur, snap, sess>>
remote  == <<drive, made>>
history == <<sent, begun>>
budget  == <<runs, crashes, faults>>
vars    == <<row, blob, cache, settings, drive, made, live, logins, expired, resume,
             pc, cur, snap, sess, runs, crashes, faults, sent, begun>>

\* Every variable has its type; the worker holds a document unless it is idle; one
\* it files has a decision, and one it sends has its bytes.
RowsOK == row \in [Docs -> Rows] /\ blob \in [Docs -> Blobs]
WorldOK ==
    /\ cache \in Trees \cup {None} /\ settings \in Settings
    /\ drive \in [Docs -> SUBSET (Places \X (0..MaxRuns))] /\ made \in SUBSET Folders
SessionOK ==
    /\ live \in 0..MaxLogins /\ logins \in 0..MaxLogins
    /\ expired \in SUBSET (1..MaxLogins) /\ resume \in BOOLEAN
WorkerOK ==
    /\ pc \in Waits /\ sess \in 0..MaxLogins
    /\ IF pc = "idle" THEN cur = None /\ snap = None ELSE cur \in Docs /\ snap \in Rows
    /\ pc \in FileWaits => snap.decision # None
    /\ pc \in SendWaits => snap.prepared # NotPrepared
BooksOK ==
    /\ runs \in [Docs -> 0..MaxRuns]
    /\ crashes \in 0..MaxCrashes /\ faults \in 0..MaxFaults
    /\ sent \in [Docs -> Nat] /\ begun \in [Docs -> Nat]
TypeOK == RowsOK /\ WorldOK /\ SessionOK /\ WorkerOK /\ BooksOK

\* The inbox is empty; the database may hold a tree from an earlier run.
Init ==
    /\ row = [d \in Docs |-> NewRow] /\ blob = [d \in Docs |-> NoBlob]
    /\ cache \in Trees \cup {None} /\ settings \in Settings
    /\ drive = [d \in Docs |-> {}] /\ made = {}
    /\ live = 0 /\ logins = 0 /\ expired = {} /\ resume = FALSE
    /\ pc = "idle" /\ cur = None /\ snap = None /\ sess = 0
    /\ runs = [d \in Docs |-> 0] /\ crashes = 0 /\ faults = 0
    /\ sent = [d \in Docs |-> 0] /\ begun = [d \in Docs |-> 0]

-----------------------------------------------------------------------------
(* DocumentRepo: what its statements do to one row.                        *)

\* An upload may have happened and cannot be taken back.
PastTarget(r) == r.state = "filing" /\ r.target # None
PossiblyInDrive(r) == r.target # None \/ r.unverified

\* transition(): the WHERE clause.
SlipCanMove(r, from) == r.state = from
CanMove(r, from) == r.state = from /\ ~r.discardRequested

\* applyRequestedDiscard()
ApplyDiscard(r) ==
    IF r.discardRequested /\ r.state \in Discardable /\ ~PastTarget(r)
    THEN [r EXCEPT !.state = "discarded", !.discardRequested = FALSE]
    ELSE r

\* transition(), and applyRequestedDiscard() when the row did not move.
MoveOrDiscard(r, from, new) == IF CanMove(r, from) THEN new ELSE ApplyDiscard(r)

\* transition() from filing that a pending discard does not stop.
KeepGoing(r, new) == IF r.state = "filing" THEN new ELSE r

\* recordFailure(): r is the row as re-read, used the attempts to write.
Failed(r, used) ==
    IF r.state = "gone" THEN r
    ELSE IF r.discardRequested /\ ~PastTarget(r) THEN ApplyDiscard(r)
    ELSE IF used >= MaxAttempts
         THEN [r EXCEPT !.state = "failed", !.attempts = MaxAttempts, !.discardRequested = FALSE]
         ELSE [r EXCEPT !.attempts = used, !.due = FALSE]

\* The quarantine of an unreadable row.
SlipUploadMayHaveHappened(r) == FALSE
UploadMayHaveHappened(r) == r.target # None /\ r.state # "filed"
Quarantined(r) ==
    [r EXCEPT !.state = IF @ \in {"filed", "discarded"} THEN @ ELSE "failed",
              !.unverified = @ \/ UploadMayHaveHappened(r),
              !.analysis = None, !.decision = None, !.target = None,
              !.reviewReason = FALSE, !.discardRequested = FALSE]

\* Any approval of an earlier analysis goes, unless an upload may have happened.
ForgetApproval(r) ==
    IF r.target # None THEN r ELSE [r EXCEPT !.decision = None, !.autoFiled = FALSE]

\* Retry, and an upload of a failed document's bytes.
Restarted(r) ==
    [r EXCEPT !.state = IF r.decision # None THEN "filing"
                        ELSE IF r.analysis # None THEN "preparing" ELSE "received",
              !.attempts = 0, !.due = TRUE]

SetRow(d, r)    == row' = [row EXCEPT ![d] = r]
BeginCount(d)   == begun' = [begun EXCEPT ![d] = @ + 1]
ResetCount(d)   == begun' = [begun EXCEPT ![d] = 0]
Fault           == faults < MaxFaults /\ faults' = faults + 1

\* deleteAll() removes the original first: what it leaves when it is cut short.
Remains(b) == {b, [b EXCEPT !.original = FALSE], NoBlob}
DeleteCut(d) == \E b \in Remains(blob[d]) : blob' = [blob EXCEPT ![d] = b]

-----------------------------------------------------------------------------
(* The worker: step(), then the stages.                                    *)

Wait(p, d, r, s) == pc' = p /\ cur' = d /\ snap' = r /\ sess' = s
Idle == pc' = "idle" /\ cur' = None /\ snap' = None /\ sess' = 0

\* nextWorkable(): due, and before it no due document with a pending discard.
Due(d) == row[d].state \in Workable /\ row[d].due
Takes(d) ==
    /\ pc = "idle" /\ Due(d)
    /\ row[d].discardRequested \/ \A e \in Docs : Due(e) => ~row[e].discardRequested

\* step(): a discard that waited for this row to be due.
StepDiscard(d) ==
    /\ Takes(d) /\ row[d].discardRequested /\ ~PastTarget(row[d])
    /\ SetRow(d, ApplyDiscard(row[d]))
    /\ UNCHANGED <<blob, cache, settings, remote, session, worker, history, budget>>

Runs(d, states) ==
    Takes(d) /\ row[d].state \in states /\ (row[d].discardRequested => PastTarget(row[d]))

\* The stage threw, and retryOrFail() records it.
SlipStageThrows(d, used) == SetRow(d, Failed(row[d], used - 1)) /\ Idle
StageThrows(d, used) == SetRow(d, Failed(row[d], used)) /\ Idle

\* attempts.ts beginAttempt() and the read of the original that follows it, for
\* a stage that runs as `to`, waits on `p` and read the row as r.
SlipAttemptsUsed(r) == FALSE
AttemptsUsed(r) == r.attempts >= MaxAttempts
BeginStage(d, r, to, p, patched) ==
    IF AttemptsUsed(r)
    THEN SetRow(d, Failed(row[d], MaxAttempts)) /\ Idle /\ UNCHANGED begun
    ELSE IF ~CanMove(row[d], r.state)
    THEN SetRow(d, ApplyDiscard(row[d])) /\ Idle /\ UNCHANGED begun
    ELSE LET new == [patched EXCEPT !.state = to, !.attempts = r.attempts + 1]
         IN  IF blob[d].original
             THEN SetRow(d, new) /\ Wait(p, d, r, live) /\ BeginCount(d)
             ELSE SetRow(d, Failed(new, MaxAttempts)) /\ Idle /\ UNCHANGED begun

\* analyzeStage() with no tree: back to received, until a login walks Drive.
AnalyzeParks(d) ==
    /\ Runs(d, {"received", "analyzing"}) /\ cache = None /\ live = 0
    /\ SetRow(d, [row[d] EXCEPT !.state = "received", !.due = FALSE])
    /\ UNCHANGED <<blob, cache, settings, remote, session, worker, history, budget>>

AnalyzeWalks(d) ==
    /\ Runs(d, {"received", "analyzing"}) /\ cache = None /\ live # 0
    /\ Wait("walk", d, row[d], live)
    /\ UNCHANGED <<rows, cache, settings, remote, session, history, budget>>

AnalyzeStarts(d) ==
    /\ Runs(d, {"received", "analyzing"}) /\ cache # None
    /\ BeginStage(d, row[d], "analyzing", "analyze", row[d])
    /\ UNCHANGED <<blob, cache, settings, remote, session, sent, budget>>

\* refreshFolderCache() ended: it saved a tree only if its session is still live.
WalkSaves(t) == t \in Trees /\ live = sess /\ sess \notin expired
AnalyzeAfterWalk ==
    /\ pc = "walk"
    /\ \E t \in Trees \cup {cache} :
        /\ t = cache \/ WalkSaves(t)
        /\ cache' = t
        /\ IF t = None
           THEN /\ SetRow(cur, IF CanMove(row[cur], snap.state)
                               THEN [row[cur] EXCEPT !.state = "received", !.due = FALSE]
                               ELSE row[cur])
                /\ Idle /\ UNCHANGED begun
           ELSE BeginStage(cur, snap, "analyzing", "analyze", row[cur])
    /\ UNCHANGED <<blob, settings, remote, session, sent, budget>>

\* reanalysisReason(), or the reason of an unusable answer.
SlipReanalysisReason(a, r) == a = None
ReanalysisReason(a, r) == a = None \/ r.reanalyzed

\* The analyzer answered; None is an unusable answer (refusal, schema error).
AnalyzeAnswers ==
    /\ pc = "analyze"
    /\ \E a \in Analyses \cup {None} :
        LET kept == IF snap.target # None THEN row[cur] ELSE ForgetApproval(row[cur])
            new  == [kept EXCEPT !.state = "preparing", !.analysis = a, !.attempts = 0,
                                 !.reviewReason = ReanalysisReason(a, snap)]
        IN  /\ SetRow(cur, MoveOrDiscard(row[cur], "analyzing", new))
            /\ IF CanMove(row[cur], "analyzing") THEN ResetCount(cur) ELSE UNCHANGED begun
    /\ Idle
    /\ UNCHANGED <<blob, cache, settings, remote, session, sent, budget>>

AnalyzeThrows ==
    /\ pc = "analyze" /\ StageThrows(cur, snap.attempts + 1)
    /\ UNCHANGED <<blob, cache, settings, remote, session, history, budget>>

\* prepareStage(): what an upload may already have sent is kept as it is.
PrepareKeeps(d) ==
    /\ Runs(d, {"preparing"}) /\ row[d].target # None
    /\ SetRow(d, [row[d] EXCEPT !.state = "ready", !.attempts = 0]) /\ ResetCount(d)
    /\ UNCHANGED <<blob, cache, settings, remote, session, worker, sent, budget>>

\* The last run's result is forgotten before this run writes a blob.
Unprepared(r) == [r EXCEPT !.prepared = NotPrepared]
PrepareStarts(d) ==
    /\ Runs(d, {"preparing"}) /\ row[d].target = None
    /\ BeginStage(d, row[d], "preparing", "prepare", Unprepared(row[d]))
    /\ UNCHANGED <<blob, cache, settings, remote, session, sent, budget>>

\* This run's output: 0 (nothing to convert, or a tool failed) or a fresh blob.
Output(k) == k = 0 \/ (k = runs[cur] + 1 /\ k <= MaxRuns)
PutPrepared(k) ==
    /\ blob' = [blob EXCEPT ![cur].prepared = k]
    /\ runs' = [runs EXCEPT ![cur] = IF k = 0 THEN @ ELSE k]

PrepareEnds ==
    /\ pc = "prepare" /\ CanMove(row[cur], "preparing")
    /\ \E k \in 0..MaxRuns :
        /\ Output(k) /\ PutPrepared(k)
        /\ SetRow(cur, [row[cur] EXCEPT !.state = "ready", !.prepared = k, !.attempts = 0])
    /\ ResetCount(cur) /\ Idle
    /\ UNCHANGED <<cache, settings, remote, session, sent, crashes, faults>>

\* A discard won: the run's blobs are removed again.
PrepareDropped ==
    /\ pc = "prepare" /\ ~CanMove(row[cur], "preparing")
    /\ blob' = [blob EXCEPT ![cur].prepared = 0]
    /\ SetRow(cur, ApplyDiscard(row[cur])) /\ Idle
    /\ UNCHANGED <<cache, settings, remote, session, history, budget>>

\* Writing a blob failed, perhaps after the prepared one was in place.
PrepareThrows ==
    /\ pc = "prepare" /\ StageThrows(cur, snap.attempts + 1)
    /\ \E k \in 0..MaxRuns : Output(k) /\ PutPrepared(k)
    /\ UNCHANGED <<cache, settings, remote, session, history, crashes, faults>>

\* decide.ts: a recorded reason wins; otherwise reviewReason() must find nothing.
\* trusted is "the model saw the content and its confidence clears the threshold".
Excluded(path) == path \in settings.excluded
CanAutoFile(a) ==
    /\ a # None /\ a.folder # None
    /\ ~a.folder.new /\ ~Excluded(a.folder.path)
    /\ a.trusted /\ settings.autoFile
AutoFiles(r) == ~r.reviewReason /\ CanAutoFile(r.analysis)

DecideAutoFiles(d) ==
    /\ Runs(d, {"ready"}) /\ AutoFiles(row[d])
    /\ SetRow(d, [row[d] EXCEPT !.state = "filing", !.decision = row[d].analysis.folder,
                                !.autoFiled = TRUE, !.attempts = 0])
    /\ sent' = [sent EXCEPT ![d] = 0] /\ ResetCount(d)
    /\ UNCHANGED <<blob, cache, settings, remote, session, worker, budget>>

DecideReviews(d) ==
    /\ Runs(d, {"ready"}) /\ ~AutoFiles(row[d])
    /\ SetRow(d, [row[d] EXCEPT !.state = "needs_review", !.reviewReason = TRUE,
                                !.attempts = 0])
    /\ ResetCount(d)
    /\ UNCHANGED <<blob, cache, settings, remote, session, worker, sent, budget>>

-----------------------------------------------------------------------------
(* fileStage()                                                             *)

\* Nobody is logged in. A discard that can no longer apply is dropped.
FileParks(d) ==
    /\ Runs(d, {"filing"}) /\ live = 0
    /\ SetRow(d, [row[d] EXCEPT !.state = "awaiting_login", !.discardRequested = FALSE])
    /\ UNCHANGED <<blob, cache, settings, remote, session, worker, history, budget>>

Files(d) == Runs(d, {"filing"}) /\ live # 0
Rechecked(r) == r.decision # None /\ r.autoFiled /\ r.target = None

\* recheckAutoFiledFolder() against tree t: the folder's path, Gone if it may not be used.
CurrentPath(c, t) ==
    IF t = None \/ t[c.folder] = Gone \/ Excluded(t[c.folder]) THEN Gone ELSE t[c.folder]

\* The folder is decided: find or make it, or go straight on to sending.
ResolveFolder(d, r, s) ==
    Wait(IF r.decision.new /\ ~r.decision.made THEN "folder" ELSE "send", d, r, s)

FileRechecked(d, r, t, s) ==
    LET path  == CurrentPath(r.decision, t)
        moved == [r EXCEPT !.decision.path = path]
    IN  IF path = Gone
        THEN /\ SetRow(d, MoveOrDiscard(row[d], "filing",
                    [row[d] EXCEPT !.state = "needs_review", !.reviewReason = TRUE, !.attempts = 0]))
             /\ Idle
        ELSE IF path = r.decision.path
        THEN UNCHANGED row /\ ResolveFolder(d, r, s)
        ELSE /\ SetRow(d, MoveOrDiscard(row[d], "filing", [row[d] EXCEPT !.decision = moved.decision]))
             /\ IF CanMove(row[d], "filing") THEN ResolveFolder(d, moved, s) ELSE Idle

\* The user decided, or an upload may have happened: no re-check. A row with
\* no decision is sent to review.
FileDecided(d) ==
    /\ Files(d) /\ ~Rechecked(row[d])
    /\ IF row[d].decision = None
       THEN /\ SetRow(d, [row[d] EXCEPT !.state = "needs_review", !.reviewReason = TRUE,
                                        !.discardRequested = FALSE])
            /\ UNCHANGED worker
       ELSE UNCHANGED row /\ ResolveFolder(d, row[d], live)
    /\ UNCHANGED <<blob, cache, settings, remote, session, history, budget>>

FileRechecks(d) ==
    /\ Files(d) /\ Rechecked(row[d]) /\ cache # None
    /\ FileRechecked(d, row[d], cache, live)
    /\ UNCHANGED <<blob, cache, settings, remote, session, history, budget>>

FileWalks(d) ==
    /\ Files(d) /\ Rechecked(row[d]) /\ cache = None
    /\ Wait("rewalk", d, row[d], live)
    /\ UNCHANGED <<rows, cache, settings, remote, session, history, budget>>

FileAfterWalk ==
    /\ pc = "rewalk"
    /\ \E t \in Trees \cup {cache} :
        /\ IF live = sess THEN WalkSaves(t) ELSE t = cache
        /\ cache' = t
        /\ FileRechecked(cur, snap, t, sess)
    /\ UNCHANGED <<blob, settings, remote, session, history, budget>>

\* Drive carries out createFolder; its answer comes later, or never.
DriveMakesFolder ==
    /\ pc = "folder" /\ sess \notin expired /\ snap.decision.folder \notin made
    /\ made' = made \cup {snap.decision.folder}
    /\ UNCHANGED <<rows, cache, settings, drive, session, worker, history, budget>>

\* findChildFolder() found it, or createFolder() answered: its id is saved at once.
FolderResolved ==
    /\ pc = "folder" /\ sess \notin expired /\ snap.decision.folder \in made
    /\ SetRow(cur, KeepGoing(row[cur], [row[cur] EXCEPT !.decision = [snap.decision EXCEPT !.made = TRUE]]))
    /\ Wait("send", cur, snap, sess)
    /\ UNCHANGED <<blob, cache, settings, remote, session, history, budget>>

\* FolderNameTakenError: something the lookup cannot see owns the name.
FolderNameTaken ==
    /\ pc = "folder" /\ sess \notin expired /\ snap.decision.folder \notin made
    /\ SetRow(cur, KeepGoing(row[cur], [row[cur] EXCEPT !.state = "needs_review",
                                !.reviewReason = TRUE, !.discardRequested = FALSE]))
    /\ Idle
    /\ UNCHANGED <<blob, cache, settings, remote, session, history, budget>>

\* The blob that is sent: the prepared one only if the row records it.
SlipBytes(d, r) == 0
Bytes(d, r) == IF r.prepared # NotPrepared THEN blob[d].prepared ELSE 0
\* From here on the worker holds the bytes themselves.
Read == [snap EXCEPT !.prepared = Bytes(cur, snap)]

\* The target is saved before the upload. Over an earlier target it is saved
\* whatever is pending: that one blocks discards already.
SlipTargeted(r) == r
Targeted(r) == KeepGoing(r, [r EXCEPT !.target = Place(snap.decision)])
SetTarget(r) ==
    IF row[cur].state = "filing" /\ (row[cur].discardRequested => snap.target # None)
    THEN SetRow(cur, Targeted(row[cur])) /\ Wait("upload", cur, r, sess)
    ELSE SetRow(cur, ApplyDiscard(row[cur])) /\ Idle

SlipLooksFirst == FALSE
LooksFirst == snap.target = Place(snap.decision)
Send ==
    /\ pc = "send"
    /\ IF Bytes(cur, snap) = 0 /\ ~blob[cur].original
       THEN SetRow(cur, Failed(row[cur], MaxAttempts)) /\ Idle
       ELSE IF LooksFirst
       THEN UNCHANGED row /\ Wait("lookup", cur, Read, sess)
       ELSE SetTarget(Read)
    /\ UNCHANGED <<blob, cache, settings, remote, session, history, budget>>

Stored == <<Place(snap.decision), snap.prepared>>

\* findFileBySha1() found nothing.
LookupMisses ==
    /\ pc = "lookup" /\ sess \notin expired /\ Stored \notin drive[cur]
    /\ SetTarget(snap)
    /\ UNCHANGED <<blob, cache, settings, remote, session, history, budget>>

\* Drive stores the file; the answer comes later, or never.
DriveStores ==
    /\ pc = "upload" /\ sess \notin expired
    /\ drive' = [drive EXCEPT ![cur] = @ \cup {Stored}]
    /\ sent' = [sent EXCEPT ![cur] = @ + 1]
    /\ Wait("stored", cur, snap, sess)
    /\ UNCHANGED <<rows, cache, settings, made, session, begun, budget>>

\* The lookup or the upload answered: filed, and the inbox copy deleted; a failure
\* of that is left to the sweep.
FiledRow(r) == KeepGoing(r, [r EXCEPT !.state = "filed", !.discardRequested = FALSE])
Answered ==
    \/ pc = "stored"
    \/ pc = "lookup" /\ sess \notin expired /\ Stored \in drive[cur]
Filed ==
    /\ Answered
    /\ SetRow(cur, FiledRow(row[cur]))
    /\ IF row[cur].state = "filing"
       THEN \/ blob' = [blob EXCEPT ![cur] = NoBlob] /\ UNCHANGED faults
            \/ DeleteCut(cur) /\ Fault
       ELSE UNCHANGED <<blob, faults>>
    /\ Idle
    /\ UNCHANGED <<cache, settings, remote, session, history, runs, crashes>>

\* A Drive call failed, with or without having done its work.
FileThrows ==
    /\ pc \in DriveWaits /\ StageThrows(cur, snap.attempts + 1)
    /\ UNCHANGED <<blob, cache, settings, remote, session, history, budget>>

\* A 401 that token refresh could not mend.
FileAuthExpired ==
    /\ pc \in DriveWaits /\ sess \in expired
    /\ SetRow(cur, KeepGoing(row[cur], [row[cur] EXCEPT !.state = "awaiting_login",
                                                        !.discardRequested = FALSE]))
    /\ Idle
    /\ UNCHANGED <<blob, cache, settings, remote, session, history, budget>>

-----------------------------------------------------------------------------
(* The routes, in one tick each once the request's body is in.             *)

\* A new document: the row, then its blob.
Upload(d) ==
    /\ row[d].state = "none"
    /\ SetRow(d, [NewRow EXCEPT !.state = "received"])
    /\ blob' = [blob EXCEPT ![d].original = TRUE]
    /\ UNCHANGED <<cache, settings, remote, session, worker, history, budget>>

\* The same bytes again: keeps the document, and restarts a failed one, whose
\* original is put back if it is gone.
PutsBack(d) ==
    /\ blob' = [blob EXCEPT ![d].original = TRUE]
    /\ sent' = IF blob[d].original THEN sent ELSE [sent EXCEPT ![d] = 0]
UploadAgain(d) ==
    /\ row[d].state \notin {"none", "gone", "discarded"}
    /\ LET kept == [row[d] EXCEPT !.discardRequested = FALSE]
       IN  IF kept.state = "failed"
           THEN SetRow(d, Restarted(kept)) /\ ResetCount(d) /\ PutsBack(d)
           ELSE SetRow(d, kept) /\ UNCHANGED <<blob, history>>
    /\ UNCHANGED <<cache, settings, remote, session, worker, budget>>

\* Approve: as suggested (asked = None), or into a place the user picked.
Approve(d, asked) ==
    /\ CanMove(row[d], "needs_review") /\ cache # None
    /\ \/ asked # None
       \/ row[d].analysis # None /\ row[d].analysis.folder # None
    /\ LET want == IF asked # None THEN asked ELSE Place(row[d].analysis.folder)
           path == cache[want[1]]
       IN  /\ path # Gone /\ (asked = None => ~Excluded(path))
           /\ SetRow(d, [row[d] EXCEPT !.state = "filing", !.autoFiled = FALSE, !.attempts = 0, !.due = TRUE,
                  !.decision = [folder |-> want[1], path |-> path, new |-> want[2], made |-> FALSE]])
    /\ sent' = [sent EXCEPT ![d] = 0] /\ ResetCount(d)
    /\ UNCHANGED <<blob, cache, settings, remote, session, worker, budget>>

Reanalyze(d) ==
    /\ CanMove(row[d], "needs_review") /\ ~PossiblyInDrive(row[d])
    /\ SetRow(d, [row[d] EXCEPT !.state = "received", !.reanalyzed = TRUE, !.analysis = None,
                      !.decision = None, !.reviewReason = FALSE, !.prepared = NotPrepared,
                      !.autoFiled = FALSE, !.attempts = 0, !.due = TRUE])
    /\ ResetCount(d)
    /\ UNCHANGED <<blob, cache, settings, remote, session, worker, sent, budget>>

\* requestDiscard()
DiscardNow(d) ==
    /\ row[d].state \in Resting
    /\ SetRow(d, [row[d] EXCEPT !.state = "discarded", !.discardRequested = FALSE])
    /\ UNCHANGED <<blob, cache, settings, remote, session, worker, history, budget>>
RequestDiscard(d) ==
    /\ row[d].state \in Working
    /\ SetRow(d, [row[d] EXCEPT !.discardRequested = TRUE, !.due = @ \/ ~PastTarget(row[d])])
    /\ UNCHANGED <<blob, cache, settings, remote, session, worker, history, budget>>

SlipRestoredState(r) == IF r.analysis = None THEN "received" ELSE "needs_review"
RestoredState(r) ==
    IF r.analysis = None THEN "received"
    ELSE IF r.prepared = NotPrepared /\ r.target = None THEN "preparing" ELSE "needs_review"
Restored(r) ==
    [ForgetApproval(r) EXCEPT !.state = RestoredState(r), !.reviewReason = r.analysis # None,
                              !.attempts = 0, !.due = TRUE]
Restore(d) ==
    /\ CanMove(row[d], "discarded")
    /\ SetRow(d, Restored(row[d])) /\ ResetCount(d)
    /\ UNCHANGED <<blob, cache, settings, remote, session, worker, sent, budget>>

Retry(d) ==
    /\ CanMove(row[d], "failed")
    /\ SetRow(d, Restarted(row[d])) /\ ResetCount(d)
    /\ UNCHANGED <<blob, cache, settings, remote, session, worker, sent, budget>>

ChangeSettings ==
    /\ settings' \in Settings \ {settings}
    /\ UNCHANGED <<rows, cache, remote, session, worker, history, budget>>

-----------------------------------------------------------------------------
(* Logins, timers, faults.                                                 *)

\* A login or unlock; as another account it forgets the old account's tree.
Login(other) ==
    /\ logins < MaxLogins
    /\ logins' = logins + 1 /\ live' = logins + 1 /\ resume' = TRUE
    /\ cache' = IF other THEN None ELSE cache
    /\ UNCHANGED <<rows, settings, remote, expired, worker, history, budget>>

\* worker.onLogin(), up to its first await.
OnLogin ==
    /\ resume
    /\ row' = [d \in Docs |->
                IF CanMove(row[d], "awaiting_login")
                THEN [row[d] EXCEPT !.state = "filing", !.attempts = 0, !.due = TRUE] ELSE row[d]]
    /\ begun' = [d \in Docs |-> IF CanMove(row[d], "awaiting_login") THEN 0 ELSE begun[d]]
    /\ resume' = FALSE
    /\ UNCHANGED <<blob, cache, settings, remote, live, logins, expired, worker, sent, budget>>

Logout ==
    /\ live # 0 /\ live' = 0
    /\ UNCHANGED <<rows, cache, settings, remote, logins, expired, resume, worker, history, budget>>

\* Proton stops accepting a session's refresh token.
Expire(s) ==
    /\ s <= logins /\ s \notin expired
    /\ expired' = expired \cup {s}
    /\ UNCHANGED <<rows, cache, settings, remote, live, logins, resume, worker, history, budget>>

\* A walk outside the stages: after a login, on the timer, or on request.
RefreshTree ==
    /\ live # 0 /\ live \notin expired
    /\ cache' \in Trees \ {cache}
    /\ UNCHANGED <<rows, settings, remote, session, worker, history, budget>>

\* The backoff is over, or a walk made the row due (makeDueNow).
BecomesDue(d) ==
    /\ row[d].state \in Workable /\ ~row[d].due
    /\ SetRow(d, [row[d] EXCEPT !.due = TRUE])
    /\ UNCHANGED <<blob, cache, settings, remote, session, worker, history, budget>>

\* purgeDiscarded(): rows discarded a week ago, then blobs that belong to nothing.
Purge(d) ==
    /\ row[d].state = "discarded"
    /\ SetRow(d, [row[d] EXCEPT !.state = "gone"]) /\ blob' = [blob EXCEPT ![d] = NoBlob]
    /\ UNCHANGED <<cache, settings, remote, session, worker, history, budget>>
SlipOrphaned(r) == r.state \in {"none", "gone", "failed"}
Orphaned(r) == r.state \in {"none", "gone", "filed"}
Sweep(d) ==
    /\ Orphaned(row[d]) /\ blob[d] # NoBlob
    /\ blob' = [blob EXCEPT ![d] = NoBlob]
    /\ UNCHANGED <<row, cache, settings, remote, session, worker, history, budget>>

\* A row's sealed columns no longer open, and something reads it.
Quarantine(d) ==
    /\ row[d].state \notin {"none", "gone"} /\ Fault
    /\ SetRow(d, Quarantined(row[d]))
    /\ UNCHANGED <<blob, cache, settings, remote, session, worker, history, runs, crashes>>

\* A failure that cannot be recorded either: the row is only postponed.
Postpones ==
    /\ pc \in DriveWaits \cup {"analyze", "prepare"} /\ Fault
    /\ SetRow(cur, [row[cur] EXCEPT !.due = FALSE]) /\ Idle
    /\ UNCHANGED <<blob, cache, settings, remote, session, history, runs, crashes>>

\* The process dies: the worker, the session and a queued listener go with it.
Dies ==
    /\ crashes < MaxCrashes /\ crashes' = crashes + 1
    /\ live' = 0 /\ resume' = FALSE /\ Idle
Crash ==
    /\ pc # "idle" \/ live # 0
    /\ Dies
    /\ UNCHANGED <<rows, cache, settings, remote, logins, expired, history, runs, faults>>
CrashAfterInsert(d) ==
    /\ row[d].state = "none" /\ Dies
    /\ SetRow(d, [NewRow EXCEPT !.state = "received"])
    /\ UNCHANGED <<blob, cache, settings, remote, logins, expired, history, runs, faults>>
CrashAfterPut ==
    /\ pc = "prepare" /\ Dies
    /\ \E k \in 1..MaxRuns : Output(k) /\ PutPrepared(k)
    /\ UNCHANGED <<row, cache, settings, remote, logins, expired, history, faults>>
CrashAfterFiled ==
    /\ Answered /\ row[cur].state = "filing" /\ Dies
    /\ SetRow(cur, FiledRow(row[cur])) /\ DeleteCut(cur)
    /\ UNCHANGED <<cache, settings, remote, logins, expired, history, runs, faults>>

\* The process dies between two writes, or the second one fails.
Cut ==
    \/ Dies /\ UNCHANGED <<logins, expired, faults>>
    \/ Fault /\ UNCHANGED <<session, worker, crashes>>
\* A failed document's original is put back, and it is not restarted.
PutBackCut(d) ==
    /\ row[d].state = "failed" /\ ~blob[d].original /\ PutsBack(d) /\ Cut
    /\ UNCHANGED <<row, cache, settings, remote, begun, runs>>
\* The purge or the sweep ends within its deletes. A discarded row then stays, and
\* can still be restored, with its original gone.
PurgeCut(d) ==
    /\ row[d].state = "discarded" \/ Orphaned(row[d])
    /\ blob[d] # NoBlob /\ DeleteCut(d) /\ Cut
    /\ UNCHANGED <<row, cache, settings, remote, history, runs>>

-----------------------------------------------------------------------------
Begin(d) ==
    \/ StepDiscard(d)
    \/ AnalyzeParks(d) \/ AnalyzeWalks(d) \/ AnalyzeStarts(d)
    \/ PrepareKeeps(d) \/ PrepareStarts(d)
    \/ DecideAutoFiles(d) \/ DecideReviews(d)
    \/ FileParks(d) \/ FileDecided(d) \/ FileRechecks(d) \/ FileWalks(d)
Continue ==
    \/ AnalyzeAfterWalk \/ AnalyzeAnswers \/ AnalyzeThrows
    \/ PrepareEnds \/ PrepareDropped \/ PrepareThrows
    \/ FileAfterWalk \/ FolderResolved \/ FolderNameTaken \/ Send \/ LookupMisses
    \/ Filed \/ FileThrows \/ FileAuthExpired
Route(d) ==
    \/ Upload(d) \/ UploadAgain(d)
    \/ \E asked \in Places \cup {None} : Approve(d, asked)
    \/ Reanalyze(d) \/ DiscardNow(d) \/ RequestDiscard(d) \/ Restore(d) \/ Retry(d)
Environment ==
    \/ ChangeSettings \/ OnLogin \/ Logout \/ RefreshTree
    \/ DriveMakesFolder \/ DriveStores
    \/ \E other \in BOOLEAN : Login(other)
    \/ \E s \in 1..MaxLogins : Expire(s)
    \/ Postpones \/ Crash \/ CrashAfterPut \/ CrashAfterFiled
    \/ \E d \in Docs : \/ BecomesDue(d) \/ Purge(d) \/ Sweep(d) \/ Quarantine(d)
                       \/ CrashAfterInsert(d) \/ PutBackCut(d) \/ PurgeCut(d)
Next == (\E d \in Docs : Begin(d) \/ Route(d)) \/ Continue \/ Environment

Spec == Init /\ [][Next]_vars

\* The worker's calls have time limits, its timers wake it and sweep the inbox,
\* and a queued listener runs.
Fairness ==
    /\ WF_vars(Continue \/ \E d \in Docs : Begin(d)) /\ WF_vars(OnLogin)
    /\ \A d \in Docs : WF_vars(BecomesDue(d)) /\ WF_vars(Sweep(d))
FairSpec == Spec /\ Fairness

-----------------------------------------------------------------------------
(* Safety.                                                                 *)

\* A copy in Drive is never forgotten: whatever fails, crashes or is discarded
\* and restored, the row of a document Drive may hold says so (filingTarget or
\* uploadUnverified), until it is filed or its row is deleted.
UploadNeverForgotten ==
    \A d \in Docs : drive[d] # {} => row[d].state \in {"filed", "gone"} \/ PossiblyInDrive(row[d])

\* One decision to file stores at most one file in Drive, across failed and
\* lost answers, retries, crashes, expired sessions, discards and restores. (Sending
\* the bytes of a document whose original is lost counts as a new decision: where the
\* prepared blob went with it, the original is filed instead.)
OneUploadPerDecision == \A d \in Docs : sent[d] <= 1

\* A document whose owner asked for another look is never filed without review.
ReanalyzedIsReviewed == \A d \in Docs : row[d].reanalyzed => ~row[d].autoFiled

\* A row is in filing, or waits there for a login, only with a decision and a
\* finished preparation: a discard, restore or retry never skips either.
FilingIsDecided ==
    \A d \in Docs : row[d].state \in {"filing", "awaiting_login"} =>
        row[d].decision # None /\ row[d].prepared # NotPrepared

\* However often the process dies in a stage, no stage reads a document more
\* than MaxAttempts times before it succeeds or the user steps in.
AttemptsBounded == \A d \in Docs : begun[d] <= MaxAttempts

\* The pipeline implements FilingPromise: through failures, faults and routes in
\* any order, Drive stores a file only after the row has noted it, once for a
\* decision, the note outlives even a quarantine, and filed means that Drive has it.
Phase(r) == CASE r.state \in {"none", "filed", "gone"} -> r.state [] OTHER -> "open"
Promise == INSTANCE FilingPromise WITH
    phase  <- [d \in Docs |-> Phase(row[d])],
    noted  <- [d \in Docs |-> row[d].state \in {"filed", "gone"} \/ PossiblyInDrive(row[d])],
    stored <- sent,
    held   <- [d \in Docs |-> drive[d] # {}]
KeepsPromise == Promise!Spec

(* What a step may never do.                                               *)

\* A requested discard is not overrun: until an upload may have happened, the
\* document gains no result, no target and no later stage while it is pending.
DiscardNotOverrun ==
    [][\A d \in Docs : row[d].discardRequested /\ ~PastTarget(row[d]) =>
        /\ row'[d].target \in {row[d].target, None}
        /\ row'[d].state \in {row[d].state, "discarded", "needs_review", "awaiting_login", "failed"}]_vars

\* A document is marked filed when it is in Drive, in the folder decided last, and
\* with the bytes of the prepare run its row records, or the original's if a purge
\* that was cut short has taken the prepared blob.
FiledAsDecided ==
    [][\A d \in Docs : row[d].state # "filed" /\ row'[d].state = "filed" =>
        <<Place(row'[d].decision), IF blob[d].prepared = 0 THEN 0 ELSE row'[d].prepared>> \in drive[d]]_vars

\* The inbox copy goes only with a copy in Drive, or a week after a discard: before
\* its row, so a document whose row says anything else than discarded keeps it.
OriginalKept ==
    [][\A d \in Docs : blob[d].original /\ ~blob'[d].original =>
        \/ row[d].state \in {"discarded", "gone"}
        \/ row'[d].state = "filed" /\ drive[d] # {}]_vars

\* "So the API and the worker never overwrite each other" (repo.ts): a discarded
\* row leaves that state only by a restore or the purge.
DiscardedStaysDiscarded ==
    [][\A d \in Docs : row[d].state = "discarded" =>
        row'[d].state \in {"discarded", "received", "preparing", "needs_review", "gone"}]_vars

\* "Not for a row that may already be in Drive, whose filing must finish with
\* what was decided" (analyze.ts): the worker does not decide it anew.
MaybeUploadedKeepsDecision ==
    [][\A d \in Docs : row[d].state = "ready" /\ row'[d].state = "filing" => row[d].target = None]_vars

(* Liveness.                                                               *)

\* A requested discard is settled: applied, overtaken by the filing, or withdrawn.
DiscardSettled == \A d \in Docs : row[d].discardRequested ~> ~row[d].discardRequested

\* A document the worker has begun does not stay in the pipeline for ever: it
\* is filed, or rests where the user sees it, unless the user steps in with a
\* discard (which DiscardSettled follows from there).
InPipeline(d) == row[d].state \in {"analyzing", "preparing", "ready", "filing"}
WorkComesToRest == \A d \in Docs : InPipeline(d) ~> ~InPipeline(d) \/ row[d].discardRequested

\* No document data outlives its filing, even if the process dies in between.
FiledLeavesNoBlob == \A d \in Docs : row[d].state = "filed" ~> blob[d] = NoBlob

\* "After a login: fresh tree, then everything that was waiting" (worker.ts).
Usable == live # 0 /\ live \notin expired
WaitingResumes ==
    \A d \in Docs : row[d].state = "awaiting_login" /\ Usable ~> row[d].state # "awaiting_login" \/ ~Usable
=============================================================================
