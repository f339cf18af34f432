------------------------ MODULE DocumentPipelineProofs ------------------------
(***************************************************************************)
(* Theorems about DocumentPipeline, for every set of documents, folders,   *)
(* trees, settings and answers, and every bound: an upload that Drive may  *)
(* hold is never forgotten; what a row says of its own filing; that the    *)
(* ledger of Drive agrees with it; and that the pipeline keeps             *)
(* FilingPromise (DocumentPipeline, Promise).                              *)
(***************************************************************************)
EXTENDS DocumentPipeline, TLAPS

-----------------------------------------------------------------------------
(* What the repository's statements leave in a row is a row.               *)

LEMMA StateNames ==
    /\ Discardable \subseteq States /\ Resting \subseteq States /\ Working \subseteq States
    /\ Workable \subseteq States
    /\ {"received", "analyzing", "preparing", "ready", "needs_review", "awaiting_login",
        "filing", "filed", "failed", "discarded", "gone", "none"} \subseteq States
BY DEF States, Discardable, Resting, Working, Workable

LEMMA RowFields ==
    ASSUME NEW r \in Rows
    PROVE  /\ r.state \in States /\ r.attempts \in 0..MaxAttempts /\ r.due \in BOOLEAN
           /\ r.discardRequested \in BOOLEAN /\ r.analysis \in Analyses \cup {None}
           /\ r.reviewReason \in BOOLEAN /\ r.prepared \in NotPrepared..MaxRuns
           /\ r.decision \in Choices \cup {None} /\ r.target \in Places \cup {None}
           /\ r.autoFiled \in BOOLEAN /\ r.unverified \in BOOLEAN /\ r.reanalyzed \in BOOLEAN
BY DEF Rows

LEMMA NoneValues ==
    /\ None \in Choices \cup {None} /\ None \in Places \cup {None}
    /\ None \in Analyses \cup {None} /\ 0 \in 0..MaxAttempts /\ MaxAttempts \in 0..MaxAttempts
    /\ NotPrepared \in NotPrepared..MaxRuns /\ 0 \in 0..MaxRuns
    /\ \A k \in 0..MaxRuns : k \in NotPrepared..MaxRuns
BY BoundAssumption DEF NotPrepared

LEMMA NewRowType == NewRow \in Rows /\ [NewRow EXCEPT !.state = "received"] \in Rows
<1>1. "none" \in States /\ "received" \in States BY StateNames
<1>2. NewRow \in Rows BY <1>1, NoneValues, ZenonT(60) DEF NewRow, Rows
<1> QED BY <1>1, <1>2, ZenonT(60) DEF Rows

\* One lemma per combination of columns that statements write together.
LEMMA PatchState ==
    ASSUME NEW r \in Rows, NEW s \in States
    PROVE  [r EXCEPT !.state = s] \in Rows
BY ZenonT(60) DEF Rows

LEMMA PatchFlag ==
    ASSUME NEW r \in Rows, NEW b \in BOOLEAN
    PROVE  [r EXCEPT !.discardRequested = b] \in Rows
BY ZenonT(60) DEF Rows

LEMMA PatchDue ==
    ASSUME NEW r \in Rows, NEW b \in BOOLEAN
    PROVE  [r EXCEPT !.due = b] \in Rows
BY ZenonT(60) DEF Rows

LEMMA PatchStateDue ==
    ASSUME NEW r \in Rows, NEW s \in States, NEW b \in BOOLEAN
    PROVE  [r EXCEPT !.state = s, !.due = b] \in Rows
BY ZenonT(60) DEF Rows

LEMMA PatchStateFlag ==
    ASSUME NEW r \in Rows, NEW s \in States, NEW b \in BOOLEAN
    PROVE  [r EXCEPT !.state = s, !.discardRequested = b] \in Rows
BY ZenonT(60) DEF Rows

LEMMA PatchFlagDue ==
    ASSUME NEW r \in Rows, NEW b \in BOOLEAN, NEW c \in BOOLEAN
    PROVE  [r EXCEPT !.discardRequested = b, !.due = c] \in Rows
BY ZenonT(60) DEF Rows

LEMMA PatchStateAttempts ==
    ASSUME NEW r \in Rows, NEW s \in States, NEW n \in 0..MaxAttempts
    PROVE  [r EXCEPT !.state = s, !.attempts = n] \in Rows
BY ZenonT(60) DEF Rows

LEMMA PatchReview ==
    ASSUME NEW r \in Rows, NEW s \in States, NEW b \in BOOLEAN, NEW n \in 0..MaxAttempts
    PROVE  /\ [r EXCEPT !.state = s, !.reviewReason = b, !.attempts = n] \in Rows
           /\ [r EXCEPT !.state = s, !.reviewReason = b, !.discardRequested = FALSE] \in Rows
<1>1. FALSE \in BOOLEAN OBVIOUS
<1> QED BY <1>1, ZenonT(60) DEF Rows

LEMMA PatchPrepared ==
    ASSUME NEW r \in Rows, NEW s \in States, NEW k \in NotPrepared..MaxRuns, NEW n \in 0..MaxAttempts
    PROVE  /\ [r EXCEPT !.state = s, !.prepared = k, !.attempts = n] \in Rows
           /\ [r EXCEPT !.prepared = k] \in Rows
BY ZenonT(60) DEF Rows

LEMMA PatchDecision ==
    ASSUME NEW r \in Rows, NEW c \in Choices \cup {None}
    PROVE  [r EXCEPT !.decision = c] \in Rows
BY ZenonT(60) DEF Rows

LEMMA PatchTarget ==
    ASSUME NEW r \in Rows, NEW t \in Places
    PROVE  [r EXCEPT !.target = t] \in Rows
<1>1. t \in Places \cup {None} OBVIOUS
<1> QED BY <1>1, ZenonT(60) DEF Rows

LEMMA ApplyDiscardType == ASSUME NEW r \in Rows PROVE ApplyDiscard(r) \in Rows
<1>1. "discarded" \in States /\ FALSE \in BOOLEAN BY StateNames
<1> QED BY <1>1, PatchStateFlag DEF ApplyDiscard

LEMMA MoveOrDiscardType ==
    ASSUME NEW r \in Rows, NEW from, NEW new \in Rows
    PROVE  MoveOrDiscard(r, from, new) \in Rows
BY ApplyDiscardType DEF MoveOrDiscard

LEMMA KeepGoingType ==
    ASSUME NEW r \in Rows, NEW new \in Rows
    PROVE  KeepGoing(r, new) \in Rows
BY DEF KeepGoing

LEMMA FailedType ==
    ASSUME NEW r \in Rows, NEW used \in Nat
    PROVE  Failed(r, used) \in Rows
<1>1. CASE r.state = "gone"
    BY <1>1 DEF Failed
<1>2. CASE r.state # "gone" /\ r.discardRequested /\ ~PastTarget(r)
    BY <1>2, ApplyDiscardType DEF Failed
<1>3. CASE ~(r.state = "gone") /\ ~(r.discardRequested /\ ~PastTarget(r)) /\ used >= MaxAttempts
    <2>1. "failed" \in States /\ MaxAttempts \in 0..MaxAttempts /\ FALSE \in BOOLEAN
        BY StateNames, NoneValues
    <2>2. [r EXCEPT !.state = "failed", !.attempts = MaxAttempts, !.discardRequested = FALSE] \in Rows
        BY <2>1, ZenonT(60) DEF Rows
    <2> QED BY <1>3, <2>2 DEF Failed
<1>4. CASE ~(r.state = "gone") /\ ~(r.discardRequested /\ ~PastTarget(r)) /\ ~(used >= MaxAttempts)
    <2>1. used \in 0..MaxAttempts /\ FALSE \in BOOLEAN
        BY <1>4, BoundAssumption
    <2>2. [r EXCEPT !.attempts = used, !.due = FALSE] \in Rows
        BY <2>1, ZenonT(60) DEF Rows
    <2> QED BY <1>4, <2>2 DEF Failed
<1> QED BY <1>1, <1>2, <1>3, <1>4

LEMMA QuarantinedType == ASSUME NEW r \in Rows PROVE Quarantined(r) \in Rows
<1> DEFINE s == IF r.state \in {"filed", "discarded"} THEN r.state ELSE "failed"
           u == r.unverified \/ UploadMayHaveHappened(r)
<1>1. s \in States BY StateNames, RowFields
<1>2. u \in BOOLEAN BY RowFields
<1>3. Quarantined(r) = [r EXCEPT !.state = s, !.unverified = u, !.analysis = None,
            !.decision = None, !.target = None, !.reviewReason = FALSE, !.discardRequested = FALSE]
    BY Zenon DEF Quarantined
<1>4. FALSE \in BOOLEAN OBVIOUS
<1> HIDE DEF s, u
<1> QED BY <1>1, <1>2, <1>3, <1>4, NoneValues, ZenonT(60) DEF Rows

LEMMA ForgetApprovalType == ASSUME NEW r \in Rows PROVE ForgetApproval(r) \in Rows
<1>1. FALSE \in BOOLEAN OBVIOUS
<1>2. [r EXCEPT !.decision = None, !.autoFiled = FALSE] \in Rows
    BY <1>1, NoneValues, ZenonT(60) DEF Rows
<1> QED BY <1>2 DEF ForgetApproval

LEMMA RestartedType == ASSUME NEW r \in Rows PROVE Restarted(r) \in Rows
<1> DEFINE s == IF r.decision # None THEN "filing" ELSE IF r.analysis # None THEN "preparing" ELSE "received"
<1>1. s \in States BY StateNames
<1>2. Restarted(r) = [r EXCEPT !.state = s, !.attempts = 0, !.due = TRUE] BY Zenon DEF Restarted
<1>3. TRUE \in BOOLEAN OBVIOUS
<1> HIDE DEF s
<1> QED BY <1>1, <1>2, <1>3, NoneValues, ZenonT(60) DEF Rows

LEMMA RestoredType == ASSUME NEW r \in Rows PROVE Restored(r) \in Rows
<1> DEFINE s == RestoredState(r)
           b == r.analysis # None
<1>1. s \in States BY StateNames DEF RestoredState
<1>2. b \in BOOLEAN /\ TRUE \in BOOLEAN OBVIOUS
<1>3. Restored(r) = [ForgetApproval(r) EXCEPT !.state = s, !.reviewReason = b, !.attempts = 0, !.due = TRUE]
    BY Zenon DEF Restored
<1>4. ForgetApproval(r) \in Rows BY ForgetApprovalType
<1> HIDE DEF s, b
<1> QED BY <1>1, <1>2, <1>3, <1>4, NoneValues, ZenonT(60) DEF Rows

LEMMA FiledRowType == ASSUME NEW r \in Rows PROVE FiledRow(r) \in Rows
<1>1. "filed" \in States /\ FALSE \in BOOLEAN BY StateNames
<1> QED BY <1>1, PatchStateFlag, KeepGoingType DEF FiledRow

LEMMA PlaceType == ASSUME NEW c \in Choices PROVE Place(c) \in Places
BY DEF Choices, Places, Place

LEMMA ChoiceFields ==
    ASSUME NEW c \in Choices
    PROVE  c.folder \in Folders /\ c.path \in Paths /\ c.new \in BOOLEAN /\ c # None
BY NoneAssumption DEF Choices

LEMMA TreePath ==
    ASSUME NEW t \in Trees, NEW x \in Folders, t[x] # Gone
    PROVE  t[x] \in Paths
BY DataAssumption

\* A decision of an analysis is None or a choice.
LEMMA AnalysisFolder ==
    ASSUME NEW a \in Analyses \cup {None}, a # None
    PROVE  a.folder \in Choices \cup {None}
BY DataAssumption

-----------------------------------------------------------------------------
(* Types of what an action leaves.                                         *)

LEMMA SetRowType ==
    ASSUME row \in [Docs -> Rows], NEW d \in Docs, NEW r \in Rows, SetRow(d, r)
    PROVE  row' \in [Docs -> Rows]
BY DEF SetRow

LEMMA CountTypes ==
    ASSUME NEW d \in Docs, begun \in [Docs -> Nat]
    PROVE  /\ BeginCount(d) => begun' \in [Docs -> Nat]
           /\ ResetCount(d) => begun' \in [Docs -> Nat]
BY DEF BeginCount, ResetCount

LEMMA IdleType == ASSUME Idle PROVE WorkerOK'
BY BoundAssumption DEF Idle, WorkerOK, Waits, FileWaits, SendWaits

LEMMA WaitType ==
    ASSUME NEW p \in Waits \ {"idle"}, NEW d \in Docs, NEW r \in Rows, NEW s \in 0..MaxLogins,
           p \in FileWaits => r.decision # None, p \in SendWaits => r.prepared # NotPrepared,
           Wait(p, d, r, s)
    PROVE  WorkerOK'
BY DEF Wait, WorkerOK

\* While the worker waits, it holds a document and a copy of its row.
LEMMA Held ==
    ASSUME WorkerOK, pc # "idle"
    PROVE  cur \in Docs /\ snap \in Rows /\ sess \in 0..MaxLogins
BY DEF WorkerOK

LEMMA BeginStageType ==
    ASSUME TypeOK, NEW d \in Docs, NEW r \in Rows, NEW to \in States, NEW patched \in Rows,
           NEW p \in (Waits \ {"idle"}) \ FileWaits, BeginStage(d, r, to, p, patched)
    PROVE  row' \in [Docs -> Rows] /\ WorkerOK' /\ begun' \in [Docs -> Nat]
<1> DEFINE new == [patched EXCEPT !.state = to, !.attempts = r.attempts + 1]
<1>0. row \in [Docs -> Rows] /\ row[d] \in Rows /\ begun \in [Docs -> Nat] /\ live \in 0..MaxLogins
    BY DEF TypeOK, RowsOK, BooksOK, SessionOK
<1>1. CASE AttemptsUsed(r)
    <2>1. SetRow(d, Failed(row[d], MaxAttempts)) /\ Idle /\ UNCHANGED begun
        BY <1>1 DEF BeginStage
    <2>2. Failed(row[d], MaxAttempts) \in Rows BY <1>0, FailedType, BoundAssumption
    <2> QED BY <1>0, <2>1, <2>2, SetRowType, IdleType
<1>2. CASE ~AttemptsUsed(r) /\ ~CanMove(row[d], r.state)
    <2>1. SetRow(d, ApplyDiscard(row[d])) /\ Idle /\ UNCHANGED begun
        BY <1>2 DEF BeginStage
    <2>2. ApplyDiscard(row[d]) \in Rows BY <1>0, ApplyDiscardType
    <2> QED BY <1>0, <2>1, <2>2, SetRowType, IdleType
<1>3. CASE ~AttemptsUsed(r) /\ CanMove(row[d], r.state)
    <2>1. r.attempts + 1 \in 0..MaxAttempts
        BY <1>3, RowFields, BoundAssumption DEF AttemptsUsed
    <2>2. new \in Rows BY <2>1, PatchStateAttempts
    <2>3. CASE blob[d].original
        <3>1. SetRow(d, new) /\ Wait(p, d, r, live) /\ BeginCount(d)
            BY <1>3, <2>3 DEF BeginStage
        <3> HIDE DEF new
        <3> QED BY <1>0, <2>2, <3>1, SetRowType, WaitType, CountTypes DEF FileWaits, SendWaits
    <2>4. CASE ~blob[d].original
        <3>1. SetRow(d, Failed(new, MaxAttempts)) /\ Idle /\ UNCHANGED begun
            BY <1>3, <2>4 DEF BeginStage
        <3> HIDE DEF new
        <3>2. Failed(new, MaxAttempts) \in Rows BY <2>2, FailedType, BoundAssumption
        <3> QED BY <1>0, <3>1, <3>2, SetRowType, IdleType
    <2> QED BY <2>3, <2>4
<1> QED BY <1>1, <1>2, <1>3

LEMMA FileRecheckedType ==
    ASSUME TypeOK, NEW d \in Docs, NEW r \in Rows, NEW t \in Trees \cup {None}, NEW s \in 0..MaxLogins,
           r.decision # None, FileRechecked(d, r, t, s)
    PROVE  row' \in [Docs -> Rows] /\ WorkerOK'
<1> DEFINE path  == CurrentPath(r.decision, t)
           moved == [r EXCEPT !.decision.path = path]
<1>0. row \in [Docs -> Rows] /\ row[d] \in Rows /\ r.decision \in Choices
    BY RowFields DEF TypeOK, RowsOK
<1>1. CASE path = Gone
    <2>1. [row[d] EXCEPT !.state = "needs_review", !.reviewReason = TRUE, !.attempts = 0] \in Rows
        BY <1>0, StateNames, NoneValues, PatchReview
    <2>2. MoveOrDiscard(row[d], "filing",
              [row[d] EXCEPT !.state = "needs_review", !.reviewReason = TRUE, !.attempts = 0]) \in Rows
        BY <1>0, <2>1, MoveOrDiscardType
    <2> QED BY <1>0, <1>1, <2>2, SetRowType, IdleType DEF FileRechecked
<1>2. CASE path # Gone /\ path = r.decision.path
    <2>1. UNCHANGED row /\ ResolveFolder(d, r, s) BY <1>2 DEF FileRechecked
    <2> QED BY <1>0, <2>1, WaitType DEF ResolveFolder, Waits, SendWaits
<1>3. CASE path # Gone /\ path # r.decision.path
    <2>1. path \in Paths
        BY <1>0, <1>3, ChoiceFields, TreePath DEF CurrentPath
    <2>2. [r.decision EXCEPT !.path = path] \in Choices
        <3> HIDE DEF path
        <3> QED BY <1>0, <2>1, ZenonT(60) DEF Choices
    <2>3. moved = [r EXCEPT !.decision = [r.decision EXCEPT !.path = path]] OBVIOUS
    <2>4. moved \in Rows /\ moved.decision \in Choices
        <3> HIDE DEF path
        <3>1. moved \in Rows BY <2>2, <2>3, PatchDecision
        <3>2. moved.decision = [r.decision EXCEPT !.path = path] BY <2>3 DEF Rows
        <3> QED BY <2>2, <3>1, <3>2
    <2>5. MoveOrDiscard(row[d], "filing", [row[d] EXCEPT !.decision = moved.decision]) \in Rows
        <3> HIDE DEF moved
        <3> QED BY <1>0, <2>4, PatchDecision, MoveOrDiscardType
    <2>6. /\ SetRow(d, MoveOrDiscard(row[d], "filing", [row[d] EXCEPT !.decision = moved.decision]))
          /\ ResolveFolder(d, moved, s) \/ Idle
        BY <1>3 DEF FileRechecked
    <2>7. moved.decision # None BY <2>4, NoneAssumption
    <2> HIDE DEF moved
    <2> QED BY <1>0, <2>4, <2>5, <2>6, <2>7, SetRowType, IdleType, WaitType DEF ResolveFolder, Waits, SendWaits
<1> QED BY <1>1, <1>2, <1>3

\* An action that leaves the inbox, Drive, the session and the budgets alone.
LEMMA WorkFrame ==
    ASSUME TypeOK, row' \in [Docs -> Rows], WorkerOK', cache' \in Trees \cup {None},
           sent' \in [Docs -> Nat], begun' \in [Docs -> Nat],
           UNCHANGED <<blob, settings, remote, session, budget>>
    PROVE  TypeOK'
BY DEF TypeOK, RowsOK, WorldOK, SessionOK, BooksOK, remote, session, budget

\* ... and the worker: one statement on one row.
LEMMA RowFrame ==
    ASSUME TypeOK, NEW d \in Docs, NEW r \in Rows, SetRow(d, r),
           sent' = sent \/ sent' = [sent EXCEPT ![d] = 0], UNCHANGED begun \/ ResetCount(d),
           UNCHANGED <<blob, cache, settings, remote, session, worker, budget>>
    PROVE  TypeOK'
<1>1. row' \in [Docs -> Rows] BY SetRowType DEF TypeOK, RowsOK
<1>2. sent' \in [Docs -> Nat] /\ begun' \in [Docs -> Nat] BY CountTypes DEF TypeOK, BooksOK
<1>3. WorkerOK' /\ cache' \in Trees \cup {None}
    BY DEF TypeOK, WorkerOK, WorldOK, worker
<1> QED BY <1>1, <1>2, <1>3, WorkFrame

\* step() and the stages up to their first await.
LEMMA BeginType == ASSUME TypeOK, NEW d \in Docs, Begin(d) PROVE TypeOK'
<1> DEFINE r == row[d]
<1>0. /\ r \in Rows /\ live \in 0..MaxLogins /\ WorkerOK
      /\ cache \in Trees \cup {None} /\ settings \in Settings
      /\ row \in [Docs -> Rows] /\ sent \in [Docs -> Nat] /\ begun \in [Docs -> Nat]
    BY DEF TypeOK, RowsOK, SessionOK, WorldOK, BooksOK
<1>f. TRUE \in BOOLEAN /\ FALSE \in BOOLEAN OBVIOUS
<1>1. CASE StepDiscard(d)
    BY <1>0, <1>1, ApplyDiscardType, RowFrame DEF StepDiscard, history
<1>2. CASE AnalyzeParks(d)
    <2>1. [r EXCEPT !.state = "received", !.due = FALSE] \in Rows BY <1>0, <1>f, StateNames, PatchStateDue
    <2> QED BY <1>2, <2>1, RowFrame DEF AnalyzeParks, history
<1>3. CASE AnalyzeWalks(d)
    <2>1. Wait("walk", d, r, live) BY <1>3 DEF AnalyzeWalks
    <2>2. WorkerOK' BY <1>0, <2>1, WaitType DEF Waits, FileWaits, SendWaits
    <2> QED BY <1>0, <1>3, <2>2, WorkFrame DEF AnalyzeWalks, history, rows
<1>4. CASE AnalyzeStarts(d)
    <2>1. BeginStage(d, r, "analyzing", "analyze", r) BY <1>4 DEF AnalyzeStarts
    <2>2. row' \in [Docs -> Rows] /\ WorkerOK' /\ begun' \in [Docs -> Nat]
        BY <1>0, <2>1, StateNames, BeginStageType DEF Waits, FileWaits
    <2> QED BY <1>0, <1>4, <2>2, WorkFrame DEF AnalyzeStarts
<1>5. CASE PrepareKeeps(d)
    <2>1. [r EXCEPT !.state = "ready", !.attempts = 0] \in Rows
        BY <1>0, StateNames, NoneValues, PatchStateAttempts
    <2> QED BY <1>5, <2>1, RowFrame DEF PrepareKeeps
<1>6. CASE PrepareStarts(d)
    <2>1. BeginStage(d, r, "preparing", "prepare", Unprepared(r)) BY <1>6 DEF PrepareStarts
    <2>2. Unprepared(r) \in Rows BY <1>0, NoneValues, StateNames, PatchPrepared DEF Unprepared
    <2>3. row' \in [Docs -> Rows] /\ WorkerOK' /\ begun' \in [Docs -> Nat]
        BY <1>0, <2>1, <2>2, StateNames, BeginStageType DEF Waits, FileWaits
    <2> QED BY <1>0, <1>6, <2>3, WorkFrame DEF PrepareStarts
<1>7. CASE DecideAutoFiles(d)
    <2> DEFINE c == r.analysis.folder
    <2>1. c \in Choices \cup {None}
        BY <1>0, <1>7, RowFields, AnalysisFolder DEF DecideAutoFiles, AutoFiles, CanAutoFile
    <2> HIDE DEF c
    <2>2. [r EXCEPT !.state = "filing", !.decision = c, !.autoFiled = TRUE, !.attempts = 0] \in Rows
        <3>1. "filing" \in States /\ 0 \in 0..MaxAttempts BY StateNames, NoneValues
        <3> QED BY <1>0, <1>f, <2>1, <3>1, ZenonT(60) DEF Rows
    <2> QED BY <1>7, <2>2, RowFrame DEF DecideAutoFiles, c
<1>8. CASE DecideReviews(d)
    <2>1. [r EXCEPT !.state = "needs_review", !.reviewReason = TRUE, !.attempts = 0] \in Rows
        BY <1>0, <1>f, StateNames, NoneValues, PatchReview
    <2> QED BY <1>8, <2>1, RowFrame DEF DecideReviews
<1>9. CASE FileParks(d)
    <2>1. [r EXCEPT !.state = "awaiting_login", !.discardRequested = FALSE] \in Rows
        BY <1>0, <1>f, StateNames, PatchStateFlag
    <2> QED BY <1>9, <2>1, RowFrame DEF FileParks, history
<1>10. CASE FileDecided(d)
    <2>1. CASE r.decision = None
        <3>1. [r EXCEPT !.state = "needs_review", !.reviewReason = TRUE, !.discardRequested = FALSE] \in Rows
            BY <1>0, <1>f, StateNames, NoneValues, PatchReview
        <3> QED BY <1>10, <2>1, <3>1, RowFrame DEF FileDecided, history
    <2>2. CASE r.decision # None
        <3>1. WorkerOK'
            BY <1>0, <1>10, <2>2, WaitType DEF FileDecided, ResolveFolder, Waits, SendWaits
        <3> QED BY <1>0, <1>10, <2>2, <3>1, WorkFrame DEF FileDecided, history
    <2> QED BY <2>1, <2>2
<1>11. CASE FileRechecks(d)
    <2>1. row' \in [Docs -> Rows] /\ WorkerOK'
        BY <1>0, <1>11, FileRecheckedType DEF FileRechecks, Rechecked
    <2> QED BY <1>0, <1>11, <2>1, WorkFrame DEF FileRechecks, history
<1>12. CASE FileWalks(d)
    <2>1. WorkerOK'
        BY <1>0, <1>12, WaitType DEF FileWalks, Rechecked, Waits, SendWaits
    <2> QED BY <1>0, <1>12, <2>1, WorkFrame DEF FileWalks, history, rows
<1> QED BY <1>1, <1>2, <1>3, <1>4, <1>5, <1>6, <1>7, <1>8, <1>9, <1>10, <1>11, <1>12 DEF Begin

\* The bytes that the worker reads before it sends them.
LEMMA ReadType ==
    ASSUME TypeOK, pc = "send"
    PROVE  Read \in Rows /\ Read.decision = snap.decision /\ Read.prepared = Bytes(cur, snap)
           /\ Read.prepared # NotPrepared /\ Read.target = snap.target /\ Read.attempts = snap.attempts
<1>1. cur \in Docs /\ snap \in Rows BY Held DEF TypeOK
<1>2. Bytes(cur, snap) \in 0..MaxRuns
    BY <1>1, NoneValues DEF Bytes, TypeOK, RowsOK, Blobs
<1>3. Read \in Rows
    <2> DEFINE k == Bytes(cur, snap)
    <2>1. k \in NotPrepared..MaxRuns BY <1>2, NoneValues
    <2>2. Read = [snap EXCEPT !.prepared = k] BY DEF Read
    <2> HIDE DEF k
    <2>3. snap.state \in States /\ 0 \in 0..MaxAttempts BY <1>1, RowFields, NoneValues
    <2> QED BY <1>1, <2>1, <2>2, <2>3, PatchPrepared
<1>4. /\ Read.prepared = Bytes(cur, snap) /\ Read.decision = snap.decision /\ Read.target = snap.target
      /\ Read.attempts = snap.attempts
    BY <1>1 DEF Read, Rows
<1> QED BY <1>2, <1>3, <1>4 DEF NotPrepared

LEMMA SetTargetType ==
    ASSUME TypeOK, pc \in FileWaits, NEW r \in Rows, r.decision # None, r.prepared # NotPrepared,
           SetTarget(r)
    PROVE  row' \in [Docs -> Rows] /\ WorkerOK'
<1>0. /\ cur \in Docs /\ snap \in Rows /\ sess \in 0..MaxLogins /\ snap.decision \in Choices
      /\ row \in [Docs -> Rows] /\ row[cur] \in Rows
    BY Held, RowFields DEF TypeOK, RowsOK, WorkerOK, FileWaits
<1>1. CASE SetRow(cur, Targeted(row[cur])) /\ Wait("upload", cur, r, sess)
    <2>1. Place(snap.decision) \in Places BY <1>0, PlaceType
    <2>2. Targeted(row[cur]) \in Rows BY <1>0, <2>1, PatchTarget, KeepGoingType DEF Targeted
    <2>3. WorkerOK' BY <1>0, <1>1, WaitType DEF Waits
    <2> QED BY <1>0, <1>1, <2>2, <2>3, SetRowType
<1>2. CASE SetRow(cur, ApplyDiscard(row[cur])) /\ Idle
    BY <1>0, <1>2, ApplyDiscardType, SetRowType, IdleType
<1> QED BY <1>1, <1>2 DEF SetTarget

LEMMA DeleteCutType ==
    ASSUME blob \in [Docs -> Blobs], NEW d \in Docs, DeleteCut(d)
    PROVE  blob' \in [Docs -> Blobs]
<1>1. PICK b \in Remains(blob[d]) : blob' = [blob EXCEPT ![d] = b] BY DEF DeleteCut
<1>2. NoBlob \in Blobs BY NoneValues DEF NoBlob, Blobs
<1>3. [blob[d] EXCEPT !.original = FALSE] \in Blobs BY DEF Blobs
<1>4. b \in Blobs BY <1>1, <1>2, <1>3 DEF Remains
<1> QED BY <1>1, <1>4

LEMMA PutsBackType ==
    ASSUME blob \in [Docs -> Blobs], sent \in [Docs -> Nat], NEW d \in Docs, PutsBack(d)
    PROVE  blob' \in [Docs -> Blobs] /\ sent' \in [Docs -> Nat]
BY DEF PutsBack, Blobs

LEMMA FaultType == ASSUME TypeOK, Fault PROVE faults' \in 0..MaxFaults
BY BoundAssumption DEF Fault, TypeOK, BooksOK

LEMMA DiesType ==
    ASSUME TypeOK, Dies
    PROVE  crashes' \in 0..MaxCrashes /\ live' \in 0..MaxLogins /\ resume' \in BOOLEAN /\ WorkerOK'
<1>1. crashes' \in 0..MaxCrashes /\ live' \in 0..MaxLogins
    BY BoundAssumption DEF Dies, TypeOK, BooksOK
<1>2. resume' \in BOOLEAN BY DEF Dies
<1>3. WorkerOK' BY IdleType DEF Dies
<1> QED BY <1>1, <1>2, <1>3

LEMMA CutType ==
    ASSUME TypeOK, Cut
    PROVE  /\ crashes' \in 0..MaxCrashes /\ faults' \in 0..MaxFaults
           /\ SessionOK' /\ WorkerOK'
<1>1. CASE Dies /\ UNCHANGED <<logins, expired, faults>>
    BY <1>1, DiesType DEF TypeOK, SessionOK, BooksOK
<1>2. CASE Fault /\ UNCHANGED <<session, worker, crashes>>
    BY <1>2, FaultType DEF TypeOK, SessionOK, BooksOK, WorkerOK, session, worker
<1> QED BY <1>1, <1>2 DEF Cut

LEMMA ThrowType ==
    ASSUME TypeOK, pc # "idle", StageThrows(cur, snap.attempts + 1)
    PROVE  row' \in [Docs -> Rows] /\ WorkerOK'
<1>0. cur \in Docs /\ snap \in Rows /\ row \in [Docs -> Rows] BY Held DEF TypeOK, RowsOK
<1>1. snap.attempts + 1 \in Nat BY <1>0, RowFields, BoundAssumption
<1>2. Failed(row[cur], snap.attempts + 1) \in Rows BY <1>0, <1>1, FailedType
<1> QED BY <1>0, <1>2, SetRowType, IdleType DEF StageThrows

\* Writing the prepared blob, and everything else as in WorkFrame.
LEMMA PutFrame ==
    ASSUME TypeOK, row' \in [Docs -> Rows], WorkerOK', cur \in Docs, NEW k \in 0..MaxRuns, PutPrepared(k),
           begun' \in [Docs -> Nat], UNCHANGED <<cache, settings, remote, session, sent, crashes, faults>>
    PROVE  TypeOK'
<1>1. blob' \in [Docs -> Blobs] BY DEF TypeOK, RowsOK, PutPrepared, Blobs
<1>2. runs' \in [Docs -> 0..MaxRuns] BY DEF TypeOK, BooksOK, PutPrepared
<1> QED BY <1>1, <1>2 DEF TypeOK, RowsOK, WorldOK, SessionOK, BooksOK, remote, session

\* The answers the worker waits for.
LEMMA ContinueType == ASSUME TypeOK, Continue PROVE TypeOK'
<1> DEFINE r == row[cur]
<1>0. /\ live \in 0..MaxLogins /\ WorkerOK
      /\ cache \in Trees \cup {None} /\ settings \in Settings
      /\ row \in [Docs -> Rows] /\ sent \in [Docs -> Nat] /\ begun \in [Docs -> Nat]
    BY DEF TypeOK, RowsOK, SessionOK, WorldOK, BooksOK
<1>h. pc # "idle" => cur \in Docs /\ snap \in Rows /\ sess \in 0..MaxLogins /\ r \in Rows
    BY <1>0, Held
<1>d. pc \in FileWaits => snap.decision \in Choices
    BY <1>0, <1>h, RowFields DEF WorkerOK, FileWaits
<1>f. TRUE \in BOOLEAN /\ FALSE \in BOOLEAN OBVIOUS
<1>1. CASE AnalyzeAfterWalk
    <2>1. PICK t \in Trees \cup {cache} :
             /\ cache' = t
             /\ IF t = None
                THEN /\ SetRow(cur, IF CanMove(r, snap.state)
                                    THEN [r EXCEPT !.state = "received", !.due = FALSE] ELSE r)
                     /\ Idle /\ UNCHANGED begun
                ELSE BeginStage(cur, snap, "analyzing", "analyze", r)
        BY <1>1 DEF AnalyzeAfterWalk
    <2>2. [r EXCEPT !.state = "received", !.due = FALSE] \in Rows
        BY <1>1, <1>h, <1>f, StateNames, PatchStateDue DEF AnalyzeAfterWalk
    <2>3. row' \in [Docs -> Rows] /\ WorkerOK' /\ begun' \in [Docs -> Nat]
        <3>1. CASE t = None BY <1>1, <1>0, <1>h, <2>1, <2>2, <3>1, SetRowType, IdleType DEF AnalyzeAfterWalk
        <3>2. CASE t # None
            BY <1>1, <1>h, <2>1, <3>2, StateNames, BeginStageType DEF AnalyzeAfterWalk, Waits, FileWaits
        <3> QED BY <3>1, <3>2
    <2> QED BY <1>1, <1>0, <2>1, <2>3, WorkFrame DEF AnalyzeAfterWalk
<1>2. CASE AnalyzeAnswers
    <2> DEFINE kept == IF snap.target # None THEN r ELSE ForgetApproval(r)
               b(a) == ReanalysisReason(a, snap)
               new(a) == [kept EXCEPT !.state = "preparing", !.analysis = a, !.attempts = 0,
                                      !.reviewReason = b(a)]
    <2>1. PICK a \in Analyses \cup {None} :
             /\ SetRow(cur, MoveOrDiscard(r, "analyzing", new(a)))
             /\ UNCHANGED begun \/ ResetCount(cur)
        BY <1>2 DEF AnalyzeAnswers
    <2>2. r \in Rows /\ cur \in Docs /\ snap \in Rows BY <1>2, <1>h DEF AnalyzeAnswers
    <2>3. kept \in Rows BY <2>2, ForgetApprovalType
    <2>4. b(a) \in BOOLEAN BY <2>2, RowFields DEF ReanalysisReason
    <2>5. new(a) \in Rows
        <3>1. "preparing" \in States BY StateNames
        <3> HIDE DEF kept, b
        <3> QED BY <2>1, <2>3, <2>4, <3>1, NoneValues, ZenonT(60) DEF Rows
    <2> HIDE DEF new
    <2>6. row' \in [Docs -> Rows] BY <1>0, <2>1, <2>2, <2>5, MoveOrDiscardType, SetRowType
    <2>7. begun' \in [Docs -> Nat] BY <1>0, <2>1, <2>2, CountTypes
    <2> QED BY <1>0, <1>2, <2>6, <2>7, IdleType, WorkFrame DEF AnalyzeAnswers
<1>3. CASE AnalyzeThrows
    BY <1>0, <1>3, ThrowType, WorkFrame DEF AnalyzeThrows, history
<1>4. CASE PrepareEnds
    <2>1. PICK k \in 0..MaxRuns :
             PutPrepared(k) /\ SetRow(cur, [r EXCEPT !.state = "ready", !.prepared = k, !.attempts = 0])
        BY <1>4 DEF PrepareEnds
    <2>2. cur \in Docs /\ r \in Rows BY <1>4, <1>h DEF PrepareEnds
    <2>3. [r EXCEPT !.state = "ready", !.prepared = k, !.attempts = 0] \in Rows
        BY <2>1, <2>2, StateNames, NoneValues, PatchPrepared
    <2>4. row' \in [Docs -> Rows] BY <1>0, <2>1, <2>2, <2>3, SetRowType
    <2>5. begun' \in [Docs -> Nat] /\ WorkerOK' BY <1>0, <1>4, <2>2, CountTypes, IdleType DEF PrepareEnds
    <2> QED BY <1>4, <2>1, <2>2, <2>4, <2>5, PutFrame DEF PrepareEnds
<1>5. CASE PrepareDropped
    <2>1. cur \in Docs /\ r \in Rows BY <1>5, <1>h DEF PrepareDropped
    <2>2. row' \in [Docs -> Rows] BY <1>0, <1>5, <2>1, ApplyDiscardType, SetRowType DEF PrepareDropped
    <2>3. blob' \in [Docs -> Blobs]
        BY <1>5, <2>1, NoneValues DEF TypeOK, RowsOK, PrepareDropped, Blobs
    <2> QED BY <1>5, <2>2, <2>3, IdleType
            DEF PrepareDropped, TypeOK, RowsOK, WorldOK, SessionOK, BooksOK, remote, session, history, budget
<1>6. CASE PrepareThrows
    <2>1. cur \in Docs BY <1>6, <1>h DEF PrepareThrows
    <2>2. PICK k \in 0..MaxRuns : PutPrepared(k) BY <1>6 DEF PrepareThrows
    <2>3. row' \in [Docs -> Rows] /\ WorkerOK' BY <1>6, ThrowType DEF PrepareThrows
    <2> QED BY <1>0, <1>6, <2>1, <2>2, <2>3, PutFrame DEF PrepareThrows, history
<1>7. CASE FileAfterWalk
    <2>1. PICK t \in Trees \cup {cache} : cache' = t /\ FileRechecked(cur, snap, t, sess)
        BY <1>7 DEF FileAfterWalk
    <2>2. row' \in [Docs -> Rows] /\ WorkerOK'
        BY <1>7, <1>0, <1>h, <1>d, <2>1, ChoiceFields, FileRecheckedType DEF FileAfterWalk, FileWaits
    <2> QED BY <1>0, <1>7, <2>1, <2>2, WorkFrame DEF FileAfterWalk, history
<1>8. CASE FolderResolved
    <2>1. cur \in Docs /\ snap \in Rows /\ sess \in 0..MaxLogins /\ r \in Rows /\ snap.decision \in Choices
        BY <1>8, <1>h, <1>d DEF FolderResolved, FileWaits
    <2>2. [snap.decision EXCEPT !.made = TRUE] \in Choices
        BY <2>1, <1>f, ZenonT(60) DEF Choices
    <2>3. row' \in [Docs -> Rows]
        BY <1>0, <1>8, <2>1, <2>2, PatchDecision, KeepGoingType, SetRowType DEF FolderResolved
    <2>4. WorkerOK' BY <1>8, <2>1, ChoiceFields, WaitType DEF FolderResolved, Waits, SendWaits
    <2> QED BY <1>0, <1>8, <2>3, <2>4, WorkFrame DEF FolderResolved, history
<1>9. CASE FolderNameTaken
    <2>1. cur \in Docs /\ r \in Rows BY <1>9, <1>h DEF FolderNameTaken
    <2>2. [r EXCEPT !.state = "needs_review", !.reviewReason = TRUE, !.discardRequested = FALSE] \in Rows
        BY <2>1, <1>f, StateNames, NoneValues, PatchReview
    <2>3. row' \in [Docs -> Rows] BY <1>0, <1>9, <2>1, <2>2, KeepGoingType, SetRowType DEF FolderNameTaken
    <2> QED BY <1>0, <1>9, <2>3, IdleType, WorkFrame DEF FolderNameTaken, history
<1>10. CASE Send
    <2>1. cur \in Docs /\ snap \in Rows /\ sess \in 0..MaxLogins /\ r \in Rows /\ snap.decision \in Choices
        BY <1>10, <1>h, <1>d DEF Send, FileWaits
    <2>2. CASE SetRow(cur, Failed(r, MaxAttempts)) /\ Idle
        <3>1. Failed(r, MaxAttempts) \in Rows BY <2>1, FailedType, BoundAssumption
        <3> QED BY <1>0, <1>10, <2>1, <2>2, <3>1, SetRowType, IdleType, WorkFrame DEF Send, history
    <2>3. CASE UNCHANGED row /\ Wait("lookup", cur, Read, sess)
        <3>1. pc = "send" BY <1>10 DEF Send
        <3>2. WorkerOK' BY <2>1, <2>3, <3>1, ChoiceFields, ReadType, WaitType DEF Waits
        <3> QED BY <1>0, <1>10, <2>3, <3>2, WorkFrame DEF Send, history
    <2>4. CASE SetTarget(Read)
        <3>0. pc = "send" BY <1>10 DEF Send
        <3>1. row' \in [Docs -> Rows] /\ WorkerOK'
            BY <2>1, <2>4, <3>0, ChoiceFields, ReadType, SetTargetType DEF FileWaits
        <3> QED BY <1>0, <1>10, <3>1, WorkFrame DEF Send, history
    <2> QED BY <1>10, <2>2, <2>3, <2>4 DEF Send
<1>11. CASE LookupMisses
    <2>0. pc = "lookup" /\ SetTarget(snap) BY <1>11 DEF LookupMisses
    <2>1. row' \in [Docs -> Rows] /\ WorkerOK'
        BY <1>0, <1>h, <2>0, SetTargetType DEF WorkerOK, FileWaits, SendWaits
    <2> QED BY <1>0, <1>11, <2>1, WorkFrame DEF LookupMisses, history
<1>12. CASE Filed
    <2>1. cur \in Docs /\ r \in Rows BY <1>12, <1>h DEF Filed, Answered
    <2>2. row' \in [Docs -> Rows] BY <1>0, <1>12, <2>1, FiledRowType, SetRowType DEF Filed
    <2>3. blob' \in [Docs -> Blobs] /\ faults' \in 0..MaxFaults
        <3>0. blob \in [Docs -> Blobs] /\ faults \in 0..MaxFaults BY DEF TypeOK, RowsOK, BooksOK
        <3>1. CASE blob' = [blob EXCEPT ![cur] = NoBlob] /\ UNCHANGED faults
            BY <2>1, <1>f, <3>0, <3>1, NoneValues DEF Blobs, NoBlob
        <3>2. CASE DeleteCut(cur) /\ Fault BY <2>1, <3>0, <3>2, DeleteCutType, FaultType
        <3>3. CASE UNCHANGED <<blob, faults>> BY <3>0, <3>3
        <3> QED BY <1>12, <3>1, <3>2, <3>3 DEF Filed
    <2> QED BY <1>12, <2>2, <2>3, IdleType
            DEF Filed, TypeOK, RowsOK, WorldOK, SessionOK, BooksOK, remote, session, history
<1>13. CASE FileThrows
    <2>1. pc # "idle" BY <1>13 DEF FileThrows, DriveWaits, FileWaits
    <2> QED BY <1>0, <1>13, <2>1, ThrowType, WorkFrame DEF FileThrows, history
<1>14. CASE FileAuthExpired
    <2>1. cur \in Docs /\ r \in Rows BY <1>14, <1>h DEF FileAuthExpired, DriveWaits, FileWaits
    <2>2. [r EXCEPT !.state = "awaiting_login", !.discardRequested = FALSE] \in Rows
        BY <2>1, <1>f, StateNames, PatchStateFlag
    <2>3. row' \in [Docs -> Rows] BY <1>0, <1>14, <2>1, <2>2, KeepGoingType, SetRowType DEF FileAuthExpired
    <2> QED BY <1>0, <1>14, <2>3, IdleType, WorkFrame DEF FileAuthExpired, history
<1> QED BY <1>1, <1>2, <1>3, <1>4, <1>5, <1>6, <1>7, <1>8, <1>9, <1>10, <1>11, <1>12, <1>13, <1>14
        DEF Continue

LEMMA RouteType == ASSUME TypeOK, NEW d \in Docs, Route(d) PROVE TypeOK'
<1> DEFINE r == row[d]
<1>0. /\ r \in Rows /\ cache \in Trees \cup {None} /\ blob \in [Docs -> Blobs]
      /\ row \in [Docs -> Rows] /\ WorkerOK
    BY DEF TypeOK, RowsOK, WorldOK
<1>f. TRUE \in BOOLEAN /\ FALSE \in BOOLEAN OBVIOUS
<1>b. [blob EXCEPT ![d].original = TRUE] \in [Docs -> Blobs] BY <1>0 DEF Blobs
<1>1. CASE Upload(d)
    <2>1. row' \in [Docs -> Rows] BY <1>0, <1>1, NewRowType, SetRowType DEF Upload
    <2> QED BY <1>0, <1>1, <1>b, <2>1
            DEF Upload, TypeOK, RowsOK, WorldOK, SessionOK, WorkerOK, BooksOK, remote, session, worker, history, budget
<1>2. CASE UploadAgain(d)
    <2> DEFINE kept == [r EXCEPT !.discardRequested = FALSE]
    <2>1. kept \in Rows BY <1>0, <1>f, PatchFlag
    <2>2. CASE kept.state = "failed"
        <3>1. Restarted(kept) \in Rows BY <2>1, RestartedType
        <3>2. row' \in [Docs -> Rows] BY <1>0, <1>2, <2>2, <3>1, SetRowType DEF UploadAgain
        <3>3. begun' \in [Docs -> Nat] BY <1>2, <2>2, CountTypes DEF UploadAgain, TypeOK, BooksOK
        <3>4. blob' \in [Docs -> Blobs] /\ sent' \in [Docs -> Nat]
            BY <1>0, <1>2, <2>2, PutsBackType DEF UploadAgain, TypeOK, BooksOK
        <3> QED BY <1>0, <1>2, <3>2, <3>3, <3>4
                DEF UploadAgain, TypeOK, RowsOK, WorldOK, SessionOK, WorkerOK, BooksOK, remote, session, worker, budget
    <2>3. CASE kept.state # "failed"
        BY <1>2, <2>1, <2>3, RowFrame DEF UploadAgain, history
    <2> QED BY <2>2, <2>3
<1>3. ASSUME NEW asked \in Places \cup {None}, Approve(d, asked) PROVE TypeOK'
    <2> DEFINE want == IF asked # None THEN asked ELSE Place(r.analysis.folder)
               path == cache[want[1]]
               c    == [folder |-> want[1], path |-> path, new |-> want[2], made |-> FALSE]
    <2>1. want \in Places
        <3>1. CASE asked # None BY <3>1
        <3>2. CASE asked = None
            <4>1. r.analysis \in Analyses \cup {None} /\ r.analysis # None /\ r.analysis.folder # None
                BY <1>0, <1>3, <3>2, RowFields DEF Approve
            <4>2. r.analysis.folder \in Choices BY <4>1, AnalysisFolder
            <4> QED BY <3>2, <4>2, PlaceType
        <3> QED BY <3>1, <3>2
    <2>2. want[1] \in Folders /\ want[2] \in BOOLEAN BY <2>1 DEF Places
    <2>3. cache \in Trees /\ path # Gone BY <1>0, <1>3 DEF Approve
    <2>4. path \in Paths BY <2>2, <2>3, TreePath
    <2>5. c \in Choices
        <3> HIDE DEF want, path
        <3> QED BY <1>f, <2>2, <2>4 DEF Choices
    <2>6. [r EXCEPT !.state = "filing", !.autoFiled = FALSE, !.attempts = 0, !.due = TRUE, !.decision = c] \in Rows
        <3>1. "filing" \in States /\ c \in Choices \cup {None} BY <2>5, StateNames
        <3> HIDE DEF c
        <3> QED BY <1>0, <1>f, <3>1, NoneValues, ZenonT(60) DEF Rows
    <2>7. SetRow(d, [r EXCEPT !.state = "filing", !.autoFiled = FALSE, !.attempts = 0, !.due = TRUE, !.decision = c])
        BY <1>3 DEF Approve
    <2> HIDE DEF c
    <2> QED BY <1>3, <2>6, <2>7, RowFrame DEF Approve
<1>4. CASE Reanalyze(d)
    <2>1. [r EXCEPT !.state = "received", !.reanalyzed = TRUE, !.analysis = None,
                    !.decision = None, !.reviewReason = FALSE, !.prepared = NotPrepared,
                    !.autoFiled = FALSE, !.attempts = 0, !.due = TRUE] \in Rows
        <3>1. "received" \in States BY StateNames
        <3> QED BY <1>0, <1>f, <3>1, NoneValues, ZenonT(60) DEF Rows
    <2> QED BY <1>4, <2>1, RowFrame DEF Reanalyze
<1>5. CASE DiscardNow(d)
    <2>1. [r EXCEPT !.state = "discarded", !.discardRequested = FALSE] \in Rows
        BY <1>0, <1>f, StateNames, PatchStateFlag
    <2> QED BY <1>5, <2>1, RowFrame DEF DiscardNow, history
<1>6. CASE RequestDiscard(d)
    <2> DEFINE b == r.due \/ ~PastTarget(r)
    <2>1. b \in BOOLEAN BY <1>0, RowFields
    <2>2. SetRow(d, [r EXCEPT !.discardRequested = TRUE, !.due = b]) BY <1>6 DEF RequestDiscard
    <2> HIDE DEF b
    <2>3. [r EXCEPT !.discardRequested = TRUE, !.due = b] \in Rows BY <1>0, <1>f, <2>1, PatchFlagDue
    <2> QED BY <1>6, <2>2, <2>3, RowFrame DEF RequestDiscard, history
<1>7. CASE Restore(d)
    BY <1>0, <1>7, RestoredType, RowFrame DEF Restore
<1>8. CASE Retry(d)
    BY <1>0, <1>8, RestartedType, RowFrame DEF Retry
<1> QED BY <1>1, <1>2, <1>3, <1>4, <1>5, <1>6, <1>7, <1>8 DEF Route

\* Logins, Drive, timers, faults and crashes.
LEMMA EnvironmentType == ASSUME TypeOK, Environment PROVE TypeOK'
<1> USE DEF TypeOK, RowsOK, WorldOK, SessionOK, BooksOK
<1>0. /\ row \in [Docs -> Rows] /\ blob \in [Docs -> Blobs] /\ WorkerOK
      /\ sent \in [Docs -> Nat] /\ begun \in [Docs -> Nat] /\ runs \in [Docs -> 0..MaxRuns]
    OBVIOUS
<1>f. TRUE \in BOOLEAN /\ FALSE \in BOOLEAN OBVIOUS
<1>h. pc # "idle" => cur \in Docs /\ snap \in Rows /\ sess \in 0..MaxLogins
    BY <1>0, Held
<1>1. CASE ChangeSettings
    BY <1>1 DEF ChangeSettings, WorkerOK, rows, remote, session, worker, history, budget
<1>2. CASE OnLogin
    <2>1. \A d \in Docs : [row[d] EXCEPT !.state = "filing", !.attempts = 0, !.due = TRUE] \in Rows
        <3>1. "filing" \in States BY StateNames
        <3> QED BY <1>0, <1>f, <3>1, NoneValues, ZenonT(60) DEF Rows
    <2>2. row' \in [Docs -> Rows] BY <1>0, <1>2, <2>1 DEF OnLogin
    <2>3. begun' \in [Docs -> Nat] BY <1>0, <1>2 DEF OnLogin
    <2>4. WorkerOK' BY <1>2 DEF OnLogin, WorkerOK, worker
    <2> QED BY <1>2, <2>2, <2>3, <2>4 DEF OnLogin, remote, budget
<1>3. CASE Logout
    BY <1>3, BoundAssumption DEF Logout, WorkerOK, rows, remote, worker, history, budget
<1>4. CASE RefreshTree
    BY <1>4 DEF RefreshTree, WorkerOK, rows, remote, session, worker, history, budget
<1>5. CASE DriveMakesFolder
    <2>1. snap.decision \in Choices
        BY <1>0, <1>5, <1>h, RowFields DEF DriveMakesFolder, WorkerOK, FileWaits
    <2>2. snap.decision.folder \in Folders BY <2>1, ChoiceFields
    <2> QED BY <1>5, <2>2 DEF DriveMakesFolder, WorkerOK, rows, session, worker, history, budget
<1>6. CASE DriveStores
    <2>1. cur \in Docs /\ snap \in Rows /\ sess \in 0..MaxLogins /\ snap.decision \in Choices
        BY <1>0, <1>6, <1>h, RowFields DEF DriveStores, WorkerOK, FileWaits
    <2>2. Place(snap.decision) \in Places BY <2>1, PlaceType
    <2>3. snap.prepared \in 0..MaxRuns
        <3>1. snap.prepared \in NotPrepared..MaxRuns /\ snap.prepared # NotPrepared
            BY <1>0, <1>6, <2>1, RowFields DEF DriveStores, WorkerOK, SendWaits
        <3> QED BY <3>1, BoundAssumption DEF NotPrepared
    <2>4. drive' \in [Docs -> SUBSET (Places \X (0..MaxRuns))]
        BY <1>6, <2>1, <2>2, <2>3 DEF DriveStores, Stored
    <2>5. WorkerOK' BY <1>6, <2>1, <2>3, ChoiceFields, WaitType DEF DriveStores, Waits, NotPrepared
    <2>6. sent' \in [Docs -> Nat] BY <1>0, <1>6, <2>1 DEF DriveStores
    <2> QED BY <1>6, <2>4, <2>5, <2>6 DEF DriveStores, rows, session, budget
<1>7. ASSUME NEW other \in BOOLEAN, Login(other) PROVE TypeOK'
    <2>1. logins + 1 \in 0..MaxLogins BY <1>7, BoundAssumption DEF Login
    <2> QED BY <1>7, <2>1 DEF Login, WorkerOK, rows, remote, worker, history, budget
<1>8. ASSUME NEW s \in 1..MaxLogins, Expire(s) PROVE TypeOK'
    BY <1>8 DEF Expire, WorkerOK, rows, remote, worker, history, budget
<1>9. CASE Postpones
    <2>1. cur \in Docs BY <1>9, <1>h DEF Postpones, DriveWaits, FileWaits
    <2>2. row' \in [Docs -> Rows] BY <1>0, <1>9, <1>f, <2>1, PatchDue, SetRowType DEF Postpones
    <2>3. faults' \in 0..MaxFaults BY <1>9, FaultType DEF Postpones
    <2>4. WorkerOK' BY <1>9, IdleType DEF Postpones
    <2> QED BY <1>9, <2>2, <2>3, <2>4 DEF Postpones, remote, session, history
<1>10. CASE Crash \/ CrashAfterPut \/ CrashAfterFiled \/ \E d \in Docs : CrashAfterInsert(d)
    <2>1. Dies BY <1>10 DEF Crash, CrashAfterPut, CrashAfterFiled, CrashAfterInsert
    <2>2. crashes' \in 0..MaxCrashes /\ live' \in 0..MaxLogins /\ resume' \in BOOLEAN /\ WorkerOK'
        BY <2>1, DiesType
    <2>3. CASE Crash
        BY <2>2, <2>3 DEF Crash, rows, remote, history
    <2>4. CASE CrashAfterPut
        <3>1. cur \in Docs BY <2>4, <1>h DEF CrashAfterPut
        <3>2. PICK k \in 0..MaxRuns : PutPrepared(k) BY <2>4, BoundAssumption DEF CrashAfterPut
        <3>3. blob' \in [Docs -> Blobs] BY <1>0, <3>1, <3>2 DEF PutPrepared, Blobs
        <3>4. runs' \in [Docs -> 0..MaxRuns] BY <1>0, <3>1, <3>2 DEF PutPrepared
        <3> QED BY <2>2, <2>4, <3>3, <3>4 DEF CrashAfterPut, remote, history
    <2>5. CASE CrashAfterFiled
        <3>1. cur \in Docs BY <2>5, <1>h DEF CrashAfterFiled, Answered
        <3>2. row' \in [Docs -> Rows] BY <1>0, <2>5, <3>1, FiledRowType, SetRowType DEF CrashAfterFiled
        <3>3. blob' \in [Docs -> Blobs] BY <1>0, <2>5, <3>1, DeleteCutType DEF CrashAfterFiled
        <3> QED BY <2>2, <2>5, <3>2, <3>3 DEF CrashAfterFiled, remote, history
    <2>6. ASSUME NEW d \in Docs, CrashAfterInsert(d) PROVE TypeOK'
        <3>1. row' \in [Docs -> Rows] BY <1>0, <2>6, NewRowType, SetRowType DEF CrashAfterInsert
        <3> QED BY <2>2, <2>6, <3>1 DEF CrashAfterInsert, remote, history
    <2> QED BY <1>10, <2>3, <2>4, <2>5, <2>6
<1>11. ASSUME NEW d \in Docs, BecomesDue(d) PROVE TypeOK'
    BY <1>0, <1>11, <1>f, PatchDue, RowFrame DEF BecomesDue, history
<1>12. ASSUME NEW d \in Docs, Purge(d) \/ Sweep(d) PROVE TypeOK'
    <2>1. NoBlob \in Blobs BY <1>f, NoneValues DEF NoBlob, Blobs
    <2>2. "gone" \in States BY StateNames
    <2>3. [row[d] EXCEPT !.state = "gone"] \in Rows BY <1>0, <2>2, PatchState
    <2>4. row' \in [Docs -> Rows]
        BY <1>0, <1>12, <2>3, SetRowType DEF Purge, Sweep
    <2>5. blob' \in [Docs -> Blobs] BY <1>0, <1>12, <2>1 DEF Purge, Sweep
    <2> QED BY <1>12, <2>4, <2>5 DEF Purge, Sweep, WorkerOK, remote, session, worker, history, budget
<1>13. ASSUME NEW d \in Docs, Quarantine(d) PROVE TypeOK'
    <2>1. row' \in [Docs -> Rows] BY <1>0, <1>13, QuarantinedType, SetRowType DEF Quarantine
    <2>2. faults' \in 0..MaxFaults BY <1>13, FaultType DEF Quarantine
    <2> QED BY <1>13, <2>1, <2>2 DEF Quarantine, WorkerOK, remote, session, worker, history
<1>14. ASSUME NEW d \in Docs, PutBackCut(d) PROVE TypeOK'
    <2>1. blob' \in [Docs -> Blobs] /\ sent' \in [Docs -> Nat] BY <1>0, <1>14, PutsBackType DEF PutBackCut
    <2> QED BY <1>14, <2>1, CutType DEF PutBackCut, remote
<1>15. ASSUME NEW d \in Docs, PurgeCut(d) PROVE TypeOK'
    <2>1. blob' \in [Docs -> Blobs] BY <1>0, <1>15, DeleteCutType DEF PurgeCut
    <2> QED BY <1>15, <2>1, CutType DEF PurgeCut, remote, history
<1> QED BY <1>1, <1>2, <1>3, <1>4, <1>5, <1>6, <1>7, <1>8, <1>9, <1>10, <1>11, <1>12, <1>13, <1>14, <1>15
        DEF Environment

LEMMA StepType == TypeOK /\ [Next]_vars => TypeOK'
<1> SUFFICES ASSUME TypeOK, [Next]_vars PROVE TypeOK' OBVIOUS
<1>1. CASE Next BY <1>1, BeginType, RouteType, ContinueType, EnvironmentType DEF Next
<1>2. CASE UNCHANGED vars
    BY <1>2 DEF vars, TypeOK, RowsOK, WorldOK, SessionOK, WorkerOK, BooksOK
<1> QED BY <1>1, <1>2

LEMMA InitType == Init => TypeOK
<1> SUFFICES ASSUME Init PROVE TypeOK OBVIOUS
<1>1. NoBlob \in Blobs BY NoneValues DEF NoBlob, Blobs
<1>2. NewRow \in Rows BY NewRowType
<1>3. RowsOK BY <1>1, <1>2 DEF Init, RowsOK
<1>4. WorldOK BY DEF Init, WorldOK
<1>5. SessionOK
    <2>1. live \in 0..MaxLogins /\ logins \in 0..MaxLogins BY BoundAssumption DEF Init
    <2>2. expired \in SUBSET (1..MaxLogins) /\ resume \in BOOLEAN BY DEF Init
    <2> QED BY <2>1, <2>2 DEF SessionOK
<1>6. BooksOK BY BoundAssumption DEF Init, BooksOK
<1>7. WorkerOK BY BoundAssumption DEF Init, WorkerOK, Waits, FileWaits, SendWaits
<1> QED BY <1>3, <1>4, <1>5, <1>6, <1>7 DEF TypeOK

\* Type correctness: every statement of the repository leaves well-formed rows,
\* the attempts stay within MaxAttempts, and the worker files only with a
\* decision, for every bound and every set of documents.
THEOREM TypeCorrect == Spec => []TypeOK
BY InitType, StepType, PTL DEF Spec

-----------------------------------------------------------------------------
(* An upload is never forgotten. The property alone is not inductive: the   *)
(* row must remember the upload before Drive has it, a row the worker holds *)
(* must be neither filed nor unborn (recording a failure would overwrite a  *)
(* filed row), and a row that was never uploaded must still be blank.       *)

Remembered(r) == r.state \in {"filed", "gone"} \/ PossiblyInDrive(r)

InFlightRemembered == pc \in {"upload", "stored"} => Remembered(row[cur])
HeldIsOpen ==
    pc # "idle" => row[cur].state \notin {"none", "filed"} /\ snap.state \in Workable
UnbornIsBlank == \A d \in Docs : row[d].state = "none" => row[d] = NewRow
UploadInv ==
    TypeOK /\ UploadNeverForgotten /\ InFlightRemembered /\ HeldIsOpen /\ UnbornIsBlank

\* What every statement but the filed transition keeps of a row.
Keeps(r, s) ==
    /\ Remembered(r) => Remembered(s)
    /\ s.state = "none" => s = r
    /\ s.state = "filed" => r.state = "filed"

LEMMA PatchKeeps ==
    ASSUME NEW r, NEW s, s.target = r.target, s.unverified = r.unverified,
           r.state \notin {"filed", "gone"}, s.state \notin {"none", "filed"}
    PROVE  Keeps(r, s)
BY DEF Keeps, Remembered, PossiblyInDrive

LEMMA SameKeeps == ASSUME NEW r PROVE Keeps(r, r)
BY DEF Keeps

\* A patch of columns other than the state.
LEMMA ColumnKeeps ==
    ASSUME NEW r, NEW s, s.state = r.state, r.state # "none",
           s.target = r.target, s.unverified = r.unverified
    PROVE  Keeps(r, s)
BY DEF Keeps, Remembered, PossiblyInDrive

LEMMA ApplyDiscardKeeps == ASSUME NEW r \in Rows PROVE Keeps(r, ApplyDiscard(r))
<1>1. CASE r.discardRequested /\ r.state \in Discardable /\ ~PastTarget(r)
    <2> DEFINE s == [r EXCEPT !.state = "discarded", !.discardRequested = FALSE]
    <2>1. s.state = "discarded" /\ s.target = r.target /\ s.unverified = r.unverified BY DEF Rows
    <2>2. r.state \notin {"filed", "gone"} BY <1>1 DEF Discardable, Resting, Working
    <2>3. ApplyDiscard(r) = s BY <1>1 DEF ApplyDiscard
    <2> HIDE DEF s
    <2> QED BY <2>1, <2>2, <2>3, PatchKeeps
<1>2. CASE ~(r.discardRequested /\ r.state \in Discardable /\ ~PastTarget(r))
    BY <1>2, SameKeeps DEF ApplyDiscard
<1> QED BY <1>1, <1>2

LEMMA MoveOrDiscardKeeps ==
    ASSUME NEW r \in Rows, NEW from, NEW new, r.state = from => Keeps(r, new)
    PROVE  Keeps(r, MoveOrDiscard(r, from, new))
BY ApplyDiscardKeeps DEF MoveOrDiscard, CanMove

LEMMA FailedKeeps ==
    ASSUME NEW r \in Rows, NEW used \in Nat, r.state \notin {"none", "filed"}
    PROVE  Keeps(r, Failed(r, used))
<1>1. CASE r.state = "gone"
    BY <1>1, SameKeeps DEF Failed
<1>2. CASE r.state # "gone" /\ r.discardRequested /\ ~PastTarget(r)
    BY <1>2, ApplyDiscardKeeps DEF Failed
<1>3. CASE ~(r.state = "gone") /\ ~(r.discardRequested /\ ~PastTarget(r)) /\ used >= MaxAttempts
    <2> DEFINE s == [r EXCEPT !.state = "failed", !.attempts = MaxAttempts, !.discardRequested = FALSE]
    <2>1. s.state = "failed" /\ s.target = r.target /\ s.unverified = r.unverified BY DEF Rows
    <2>2. Failed(r, used) = s BY <1>3 DEF Failed
    <2> HIDE DEF s
    <2> QED BY <1>3, <2>1, <2>2, PatchKeeps
<1>4. CASE ~(r.state = "gone") /\ ~(r.discardRequested /\ ~PastTarget(r)) /\ ~(used >= MaxAttempts)
    <2> DEFINE s == [r EXCEPT !.attempts = used, !.due = FALSE]
    <2>1. s.state = r.state /\ s.target = r.target /\ s.unverified = r.unverified BY DEF Rows
    <2>2. Failed(r, used) = s BY <1>4 DEF Failed
    <2> HIDE DEF s
    <2> QED BY <2>1, <2>2, ColumnKeeps
<1> QED BY <1>1, <1>2, <1>3, <1>4

\* The quarantine clears the target, but then it leaves the warning.
LEMMA QuarantinedKeeps ==
    ASSUME NEW r \in Rows, r.state \notin {"none", "gone"}
    PROVE  Keeps(r, Quarantined(r))
<1> DEFINE s == Quarantined(r)
<1>1. /\ s.state = IF r.state \in {"filed", "discarded"} THEN r.state ELSE "failed"
      /\ s.unverified = (r.unverified \/ UploadMayHaveHappened(r))
    BY DEF Quarantined, Rows
<1> HIDE DEF s
<1>2. s.state = "filed" <=> r.state = "filed" BY <1>1
<1>3. s.state # "none" BY <1>1
<1>4. Remembered(r) => Remembered(s)
    BY <1>1, <1>2 DEF Remembered, PossiblyInDrive, UploadMayHaveHappened
<1> QED BY <1>2, <1>3, <1>4 DEF Keeps, s

LEMMA ForgetApprovalSame ==
    ASSUME NEW r \in Rows
    PROVE  ForgetApproval(r).target = r.target /\ ForgetApproval(r).unverified = r.unverified
BY DEF ForgetApproval, Rows

LEMMA RestoredKeeps ==
    ASSUME NEW r \in Rows, r.state = "discarded"
    PROVE  Keeps(r, Restored(r))
<1> DEFINE s == Restored(r)
<1>1. ForgetApproval(r) \in Rows BY ForgetApprovalType
<1>2. /\ s.state = RestoredState(r) /\ s.target = r.target /\ s.unverified = r.unverified
    BY <1>1, ForgetApprovalSame DEF Restored, Rows
<1>3. RestoredState(r) \notin {"none", "filed"} BY DEF RestoredState
<1> HIDE DEF s
<1> QED BY <1>2, <1>3, PatchKeeps DEF s

LEMMA RestartedKeeps ==
    ASSUME NEW r \in Rows, r.state = "failed"
    PROVE  Keeps(r, Restarted(r))
<1> DEFINE s == Restarted(r)
<1>1. s.state \notin {"none", "filed"} /\ s.target = r.target /\ s.unverified = r.unverified
    BY DEF Restarted, Rows
<1> HIDE DEF s
<1> QED BY <1>1, PatchKeeps DEF s

LEMMA SetRowKeeps ==
    ASSUME row \in [Docs -> Rows], NEW d \in Docs, NEW s, SetRow(d, s), Keeps(row[d], s)
    PROVE  (\A e \in Docs : Keeps(row[e], row'[e])) /\ row'[d] = s
BY SameKeeps DEF SetRow

LEMMA UnchangedKeeps ==
    ASSUME UNCHANGED row PROVE \A e \in Docs : Keeps(row[e], row'[e])
BY SameKeeps

\* A step in which no row forgets, Drive stores nothing and no upload begins.
LEMMA QuietStep ==
    ASSUME UploadInv, TypeOK', UNCHANGED drive, \A e \in Docs : Keeps(row[e], row'[e]),
           \/ Idle
           \/ UNCHANGED worker
           \/ /\ pc' \notin {"idle", "upload", "stored"} /\ cur' \in Docs
              /\ row[cur'].state \notin {"none", "filed"} /\ snap'.state \in Workable
    PROVE  UploadInv'
<1>1. UploadNeverForgotten' BY DEF UploadInv, UploadNeverForgotten, Keeps, Remembered
<1>2. UnbornIsBlank' BY DEF UploadInv, UnbornIsBlank, Keeps, NewRow
<1>3. pc # "idle" => cur \in Docs BY Held DEF UploadInv, TypeOK
<1>4. InFlightRemembered' BY <1>3 DEF UploadInv, InFlightRemembered, Keeps, Idle, worker
<1>5. \A e \in Docs : row[e].state \notin {"none", "filed"} => row'[e].state \notin {"none", "filed"}
    BY DEF Keeps
<1>6. HeldIsOpen' BY <1>3, <1>5 DEF UploadInv, HeldIsOpen, Idle, worker
<1> QED BY <1>1, <1>2, <1>4, <1>6 DEF UploadInv

LEMMA RunsWorkable ==
    ASSUME NEW d, NEW states, Runs(d, states)
    PROVE  row[d].state \in Workable /\ row[d].state \notin {"none", "filed", "gone"}
BY DEF Runs, Takes, Due, Workable

\* After BeginStage the worker is idle or holds d as it read it.
LEMMA BeginStageKeeps ==
    ASSUME TypeOK, NEW d \in Docs, NEW r \in Rows, NEW to \in {"analyzing", "preparing"}, NEW patched \in Rows,
           NEW p, BeginStage(d, r, to, p, patched), r.state \in Workable, row[d].state \notin {"none", "filed"},
           patched.target = row[d].target, patched.unverified = row[d].unverified
    PROVE  /\ \A e \in Docs : Keeps(row[e], row'[e])
           /\ Idle \/ Wait(p, d, r, live)
<1> DEFINE new == [patched EXCEPT !.state = to, !.attempts = r.attempts + 1]
<1>0. row \in [Docs -> Rows] /\ row[d] \in Rows BY DEF TypeOK, RowsOK
<1>1. CASE AttemptsUsed(r)
    BY <1>0, <1>1, FailedKeeps, SetRowKeeps, BoundAssumption DEF BeginStage
<1>2. CASE ~AttemptsUsed(r) /\ ~CanMove(row[d], r.state)
    BY <1>0, <1>2, ApplyDiscardKeeps, SetRowKeeps DEF BeginStage
<1>3. CASE ~AttemptsUsed(r) /\ CanMove(row[d], r.state)
    <2>1. new.state = to /\ new.target = row[d].target /\ new.unverified = row[d].unverified
        BY DEF Rows
    <2>2. row[d].state \notin {"filed", "gone"} BY <1>3 DEF CanMove, Workable
    <2>3. r.attempts + 1 \in 0..MaxAttempts BY <1>3, RowFields, BoundAssumption DEF AttemptsUsed
    <2>4. to \in States BY StateNames
    <2>5. new \in Rows BY <2>3, <2>4, PatchStateAttempts
    <2>6. \/ SetRow(d, new) /\ Wait(p, d, r, live)
          \/ SetRow(d, Failed(new, MaxAttempts)) /\ Idle
        BY <1>3 DEF BeginStage
    <2> HIDE DEF new
    <2>7. Keeps(row[d], new) BY <2>1, <2>2, PatchKeeps
    <2>8. Keeps(row[d], Failed(new, MaxAttempts))
        <3>1. Keeps(new, Failed(new, MaxAttempts)) BY <2>1, <2>5, FailedKeeps, BoundAssumption
        <3>2. Failed(new, MaxAttempts).state # "filed" BY <3>1, <2>1 DEF Keeps
        <3> QED BY <2>1, <2>7, <3>1, <3>2 DEF Keeps
    <2> QED BY <1>0, <2>6, <2>7, <2>8, SetRowKeeps
<1> QED BY <1>1, <1>2, <1>3

LEMMA FileRecheckedKeeps ==
    ASSUME TypeOK, NEW d \in Docs, NEW r \in Rows, NEW t, NEW s, FileRechecked(d, r, t, s),
           r.state \in Workable, row[d].state \notin {"none", "filed"}
    PROVE  /\ \A e \in Docs : Keeps(row[e], row'[e])
           /\ \/ Idle
              \/ pc' \in {"folder", "send"} /\ cur' = d /\ snap'.state \in Workable
<1> DEFINE path   == CurrentPath(r.decision, t)
           moved  == [r EXCEPT !.decision.path = path]
           review == [row[d] EXCEPT !.state = "needs_review", !.reviewReason = TRUE, !.attempts = 0]
           redone == [row[d] EXCEPT !.decision = moved.decision]
<1>0. row \in [Docs -> Rows] /\ row[d] \in Rows BY DEF TypeOK, RowsOK
<1>1. moved.state = r.state BY DEF Rows
<1>2. row[d].state = "filing" => Keeps(row[d], review)
    <2>1. review.state = "needs_review" /\ review.target = row[d].target /\ review.unverified = row[d].unverified
        BY <1>0 DEF Rows
    <2> HIDE DEF review
    <2> QED BY <2>1, PatchKeeps
<1>3. row[d].state = "filing" => Keeps(row[d], redone)
    <2> HIDE DEF moved
    <2>1. redone.state = row[d].state /\ redone.target = row[d].target /\ redone.unverified = row[d].unverified
        BY <1>0 DEF Rows
    <2> HIDE DEF redone
    <2> QED BY <2>1, ColumnKeeps
<1>4. \/ SetRow(d, MoveOrDiscard(row[d], "filing", review)) /\ Idle
      \/ UNCHANGED row /\ ResolveFolder(d, r, s)
      \/ SetRow(d, MoveOrDiscard(row[d], "filing", redone)) /\ (Idle \/ ResolveFolder(d, moved, s))
    BY DEF FileRechecked
<1> HIDE DEF moved, review, redone
<1>5. \A e \in Docs : Keeps(row[e], row'[e])
    BY <1>0, <1>2, <1>3, <1>4, MoveOrDiscardKeeps, SetRowKeeps, UnchangedKeeps
<1> QED BY <1>1, <1>4, <1>5 DEF ResolveFolder, Wait

LEMMA BeginUpload == ASSUME UploadInv, NEW d \in Docs, Begin(d) PROVE UploadInv'
<1> DEFINE r == row[d]
<1>0. TypeOK /\ row \in [Docs -> Rows] /\ r \in Rows BY DEF UploadInv, TypeOK, RowsOK
<1>t. TypeOK' BY <1>0, BeginType
<1>1. CASE StepDiscard(d)
    BY <1>0, <1>1, <1>t, ApplyDiscardKeeps, SetRowKeeps, QuietStep DEF StepDiscard, remote
<1>2. CASE AnalyzeParks(d)
    <2> DEFINE s == [r EXCEPT !.state = "received", !.due = FALSE]
    <2>1. s.state = "received" /\ s.target = r.target /\ s.unverified = r.unverified BY <1>0 DEF Rows
    <2>2. SetRow(d, s) BY <1>2 DEF AnalyzeParks
    <2> HIDE DEF s
    <2>3. Keeps(r, s) BY <1>2, <2>1, RunsWorkable, PatchKeeps DEF AnalyzeParks
    <2> QED BY <1>0, <1>2, <1>t, <2>2, <2>3, SetRowKeeps, QuietStep DEF AnalyzeParks, remote
<1>3. CASE AnalyzeWalks(d)
    <2>1. UNCHANGED <<row, drive>> /\ Wait("walk", d, r, live) BY <1>3 DEF AnalyzeWalks, rows, remote
    <2>2. r.state \in Workable /\ r.state \notin {"none", "filed"} BY <1>3, RunsWorkable DEF AnalyzeWalks
    <2> QED BY <1>t, <2>1, <2>2, UnchangedKeeps, QuietStep DEF Wait
<1>4. CASE AnalyzeStarts(d)
    <2>1. r.state \in Workable /\ r.state \notin {"none", "filed"} BY <1>4, RunsWorkable DEF AnalyzeStarts
    <2>2. BeginStage(d, r, "analyzing", "analyze", r) /\ UNCHANGED drive BY <1>4 DEF AnalyzeStarts, remote
    <2>3. (\A e \in Docs : Keeps(row[e], row'[e])) /\ (Idle \/ Wait("analyze", d, r, live))
        BY <1>0, <2>1, <2>2, BeginStageKeeps
    <2> QED BY <1>t, <2>1, <2>2, <2>3, QuietStep DEF Wait
<1>5. CASE PrepareKeeps(d)
    <2> DEFINE s == [r EXCEPT !.state = "ready", !.attempts = 0]
    <2>1. s.state = "ready" /\ s.target = r.target /\ s.unverified = r.unverified BY <1>0 DEF Rows
    <2>2. SetRow(d, s) BY <1>5 DEF PrepareKeeps
    <2> HIDE DEF s
    <2>3. Keeps(r, s) BY <1>5, <2>1, RunsWorkable, PatchKeeps DEF PrepareKeeps
    <2> QED BY <1>0, <1>5, <1>t, <2>2, <2>3, SetRowKeeps, QuietStep DEF PrepareKeeps, remote
<1>6. CASE PrepareStarts(d)
    <2>1. r.state \in Workable /\ r.state \notin {"none", "filed"} BY <1>6, RunsWorkable DEF PrepareStarts
    <2>2. BeginStage(d, r, "preparing", "prepare", Unprepared(r)) /\ UNCHANGED drive
        BY <1>6 DEF PrepareStarts, remote
    <2>3. Unprepared(r) \in Rows BY <1>0, NoneValues, StateNames, PatchPrepared DEF Unprepared
    <2>4. Unprepared(r).target = r.target /\ Unprepared(r).unverified = r.unverified
        BY <1>0 DEF Unprepared, Rows
    <2>5. (\A e \in Docs : Keeps(row[e], row'[e])) /\ (Idle \/ Wait("prepare", d, r, live))
        BY <1>0, <2>1, <2>2, <2>3, <2>4, BeginStageKeeps
    <2> QED BY <1>t, <2>1, <2>2, <2>5, QuietStep DEF Wait
<1>7. CASE DecideAutoFiles(d)
    <2> DEFINE s == [r EXCEPT !.state = "filing", !.decision = r.analysis.folder, !.autoFiled = TRUE, !.attempts = 0]
    <2>1. s.state = "filing" /\ s.target = r.target /\ s.unverified = r.unverified BY <1>0 DEF Rows
    <2>2. SetRow(d, s) BY <1>7 DEF DecideAutoFiles
    <2> HIDE DEF s
    <2>3. Keeps(r, s) BY <1>7, <2>1, RunsWorkable, PatchKeeps DEF DecideAutoFiles
    <2> QED BY <1>0, <1>7, <1>t, <2>2, <2>3, SetRowKeeps, QuietStep DEF DecideAutoFiles, remote
<1>8. CASE DecideReviews(d)
    <2> DEFINE s == [r EXCEPT !.state = "needs_review", !.reviewReason = TRUE, !.attempts = 0]
    <2>1. s.state = "needs_review" /\ s.target = r.target /\ s.unverified = r.unverified BY <1>0 DEF Rows
    <2>2. SetRow(d, s) BY <1>8 DEF DecideReviews
    <2> HIDE DEF s
    <2>3. Keeps(r, s) BY <1>8, <2>1, RunsWorkable, PatchKeeps DEF DecideReviews
    <2> QED BY <1>0, <1>8, <1>t, <2>2, <2>3, SetRowKeeps, QuietStep DEF DecideReviews, remote
<1>9. CASE FileParks(d)
    <2> DEFINE s == [r EXCEPT !.state = "awaiting_login", !.discardRequested = FALSE]
    <2>1. s.state = "awaiting_login" /\ s.target = r.target /\ s.unverified = r.unverified BY <1>0 DEF Rows
    <2>2. SetRow(d, s) BY <1>9 DEF FileParks
    <2> HIDE DEF s
    <2>3. Keeps(r, s) BY <1>9, <2>1, RunsWorkable, PatchKeeps DEF FileParks
    <2> QED BY <1>0, <1>9, <1>t, <2>2, <2>3, SetRowKeeps, QuietStep DEF FileParks, remote
<1>10. CASE FileDecided(d)
    <2> DEFINE s == [r EXCEPT !.state = "needs_review", !.reviewReason = TRUE, !.discardRequested = FALSE]
    <2>1. s.state = "needs_review" /\ s.target = r.target /\ s.unverified = r.unverified BY <1>0 DEF Rows
    <2>2. \/ SetRow(d, s) /\ UNCHANGED worker
          \/ UNCHANGED row /\ ResolveFolder(d, r, live)
        BY <1>10 DEF FileDecided
    <2> HIDE DEF s
    <2>3. r.state \in Workable /\ r.state \notin {"none", "filed", "gone"}
        BY <1>10, RunsWorkable DEF FileDecided, Files
    <2>4. \A e \in Docs : Keeps(row[e], row'[e])
        BY <1>0, <2>1, <2>2, <2>3, PatchKeeps, SetRowKeeps, UnchangedKeeps
    <2>5. UNCHANGED drive BY <1>10 DEF FileDecided, remote
    <2> QED BY <1>t, <2>2, <2>3, <2>4, <2>5, QuietStep DEF ResolveFolder, Wait
<1>11. CASE FileRechecks(d)
    <2>1. FileRechecked(d, r, cache, live) /\ UNCHANGED drive BY <1>11 DEF FileRechecks, remote
    <2>2. r.state \in Workable /\ r.state \notin {"none", "filed"}
        BY <1>11, RunsWorkable DEF FileRechecks, Files
    <2>3. /\ \A e \in Docs : Keeps(row[e], row'[e])
          /\ Idle \/ (pc' \in {"folder", "send"} /\ cur' = d /\ snap'.state \in Workable)
        BY <1>0, <2>1, <2>2, FileRecheckedKeeps
    <2> QED BY <1>t, <2>1, <2>2, <2>3, QuietStep
<1>12. CASE FileWalks(d)
    <2>1. UNCHANGED <<row, drive>> /\ Wait("rewalk", d, r, live) BY <1>12 DEF FileWalks, rows, remote
    <2>2. r.state \in Workable /\ r.state \notin {"none", "filed"} BY <1>12, RunsWorkable DEF FileWalks, Files
    <2> QED BY <1>t, <2>1, <2>2, UnchangedKeeps, QuietStep DEF Wait
<1> QED BY <1>1, <1>2, <1>3, <1>4, <1>5, <1>6, <1>7, <1>8, <1>9, <1>10, <1>11, <1>12 DEF Begin

LEMMA ThrowKeeps ==
    ASSUME UploadInv, pc # "idle", StageThrows(cur, snap.attempts + 1)
    PROVE  (\A e \in Docs : Keeps(row[e], row'[e])) /\ Idle
<1>1. /\ cur \in Docs /\ row \in [Docs -> Rows] /\ row[cur] \in Rows
      /\ row[cur].state \notin {"none", "filed"} /\ snap.attempts + 1 \in Nat
    BY Held, RowFields, BoundAssumption DEF UploadInv, TypeOK, RowsOK, HeldIsOpen
<1> QED BY <1>1, FailedKeeps, SetRowKeeps DEF StageThrows

\* A statement of filing that goes through only while the row is in filing.
LEMMA KeepGoingKeeps ==
    ASSUME NEW r, NEW s, s.target = r.target, s.unverified = r.unverified, s.state \notin {"none", "filed"}
    PROVE  Keeps(r, KeepGoing(r, s))
BY PatchKeeps, SameKeeps DEF KeepGoing

\* The target is saved before the upload begins: from here the row remembers it.
LEMMA SetTargetUpload ==
    ASSUME UploadInv, TypeOK', pc \in FileWaits, NEW x, x.state = snap.state, SetTarget(x), UNCHANGED drive
    PROVE  UploadInv'
<1> DEFINE r == row[cur]
<1>0. /\ cur \in Docs /\ row \in [Docs -> Rows] /\ r \in Rows
      /\ snap.decision \in Choices /\ snap.state \in Workable /\ r.state \notin {"none", "filed"}
    BY Held, RowFields DEF UploadInv, HeldIsOpen, TypeOK, RowsOK, WorkerOK, FileWaits
<1>1. CASE r.state = "filing" /\ SetRow(cur, Targeted(r)) /\ Wait("upload", cur, x, sess)
    <2> DEFINE s == [r EXCEPT !.target = Place(snap.decision)]
    <2>1. s.target = Place(snap.decision) /\ s.state = "filing" /\ s.unverified = r.unverified
        BY <1>0, <1>1 DEF Rows
    <2>2. s.target # None BY <1>0, <2>1, PlaceType, NoneAssumption
    <2>3. Targeted(r) = s BY <1>1 DEF Targeted, KeepGoing
    <2> HIDE DEF s
    <2>4. Remembered(s) /\ Keeps(r, s) BY <1>1, <2>1, <2>2 DEF Keeps, Remembered, PossiblyInDrive
    <2>5. (\A e \in Docs : Keeps(row[e], row'[e])) /\ row'[cur] = s
        BY <1>0, <1>1, <2>3, <2>4, SetRowKeeps
    <2>6. UploadNeverForgotten' BY <2>5 DEF UploadInv, UploadNeverForgotten, Keeps, Remembered
    <2>7. UnbornIsBlank' BY <2>5 DEF UploadInv, UnbornIsBlank, Keeps, NewRow
    <2>8. InFlightRemembered' BY <1>1, <2>4, <2>5 DEF InFlightRemembered, Wait
    <2>9. HeldIsOpen' BY <1>0, <1>1, <2>1, <2>5 DEF HeldIsOpen, Wait
    <2> QED BY <2>6, <2>7, <2>8, <2>9 DEF UploadInv
<1>2. CASE SetRow(cur, ApplyDiscard(r)) /\ Idle
    BY <1>0, <1>2, ApplyDiscardKeeps, SetRowKeeps, QuietStep
<1> QED BY <1>1, <1>2 DEF SetTarget

\* The one statement that makes a row filed; the worker lets go of it.
LEMMA FiledUpload ==
    ASSUME UploadInv, TypeOK', cur \in Docs, row[cur].state # "none", SetRow(cur, FiledRow(row[cur])),
           Idle, UNCHANGED drive
    PROVE  UploadInv'
<1> DEFINE r == row[cur]
           s == FiledRow(r)
<1>0. row \in [Docs -> Rows] /\ r \in Rows BY DEF UploadInv, TypeOK, RowsOK
<1>1. s = r \/ s.state = "filed" BY <1>0 DEF FiledRow, KeepGoing, Rows
<1>2. \A e \in Docs : row'[e] = IF e = cur THEN s ELSE row[e] BY <1>0 DEF SetRow
<1> HIDE DEF s
<1>3. UploadNeverForgotten' BY <1>1, <1>2 DEF UploadInv, UploadNeverForgotten
<1>4. UnbornIsBlank' BY <1>1, <1>2 DEF UploadInv, UnbornIsBlank, NewRow
<1>5. InFlightRemembered' /\ HeldIsOpen' BY DEF InFlightRemembered, HeldIsOpen, Idle
<1> QED BY <1>3, <1>4, <1>5 DEF UploadInv

LEMMA ContinueUpload == ASSUME UploadInv, Continue PROVE UploadInv'
<1> DEFINE r == row[cur]
<1>0. TypeOK /\ row \in [Docs -> Rows] BY DEF UploadInv, TypeOK, RowsOK
<1>t. TypeOK' BY <1>0, ContinueType
<1>h. pc # "idle" => /\ cur \in Docs /\ snap \in Rows /\ r \in Rows
                     /\ r.state \notin {"none", "filed"} /\ snap.state \in Workable
    BY <1>0, Held DEF UploadInv, HeldIsOpen, TypeOK
<1>1. CASE AnalyzeAfterWalk
    <2> DEFINE s == [r EXCEPT !.state = "received", !.due = FALSE]
    <2>0. /\ pc = "walk" /\ cur \in Docs /\ snap \in Rows /\ r \in Rows
          /\ r.state \notin {"none", "filed"} /\ snap.state \in Workable /\ UNCHANGED drive
        BY <1>1, <1>h DEF AnalyzeAfterWalk, remote
    <2>1. s.state = "received" /\ s.target = r.target /\ s.unverified = r.unverified BY <2>0 DEF Rows
    <2>2. \/ SetRow(cur, IF CanMove(r, snap.state) THEN s ELSE r) /\ Idle
          \/ BeginStage(cur, snap, "analyzing", "analyze", r)
        BY <1>1 DEF AnalyzeAfterWalk
    <2> HIDE DEF s
    <2>3. CanMove(r, snap.state) => Keeps(r, s)
        BY <2>0, <2>1, PatchKeeps DEF CanMove, Workable
    <2>4. CASE SetRow(cur, IF CanMove(r, snap.state) THEN s ELSE r) /\ Idle
        BY <1>0, <1>t, <2>0, <2>3, <2>4, SameKeeps, SetRowKeeps, QuietStep
    <2>5. CASE BeginStage(cur, snap, "analyzing", "analyze", r)
        <3>1. (\A e \in Docs : Keeps(row[e], row'[e])) /\ (Idle \/ Wait("analyze", cur, snap, live))
            BY <1>0, <2>0, <2>5, BeginStageKeeps
        <3> QED BY <1>t, <2>0, <3>1, QuietStep DEF Wait
    <2> QED BY <2>2, <2>4, <2>5
<1>2. CASE AnalyzeAnswers
    <2> DEFINE kept == IF snap.target # None THEN r ELSE ForgetApproval(r)
               new(a) == [kept EXCEPT !.state = "preparing", !.analysis = a, !.attempts = 0,
                                      !.reviewReason = ReanalysisReason(a, snap)]
    <2>0. cur \in Docs /\ r \in Rows /\ UNCHANGED drive /\ Idle BY <1>2, <1>h DEF AnalyzeAnswers, remote
    <2>1. PICK a : SetRow(cur, MoveOrDiscard(r, "analyzing", new(a))) BY <1>2 DEF AnalyzeAnswers
    <2>2. kept \in Rows /\ kept.target = r.target /\ kept.unverified = r.unverified
        BY <2>0, ForgetApprovalType, ForgetApprovalSame
    <2>3. new(a).state = "preparing" /\ new(a).target = r.target /\ new(a).unverified = r.unverified
        <3> HIDE DEF kept
        <3> QED BY <2>2 DEF Rows
    <2> HIDE DEF new
    <2>4. r.state = "analyzing" => Keeps(r, new(a)) BY <2>3, PatchKeeps
    <2> QED BY <1>0, <1>t, <2>0, <2>1, <2>4, MoveOrDiscardKeeps, SetRowKeeps, QuietStep
<1>3. CASE AnalyzeThrows
    BY <1>t, <1>3, ThrowKeeps, QuietStep DEF AnalyzeThrows, remote
<1>4. CASE PrepareEnds
    <2>0. cur \in Docs /\ r \in Rows /\ UNCHANGED drive /\ Idle /\ r.state = "preparing"
        BY <1>4, <1>h DEF PrepareEnds, remote, CanMove
    <2>1. PICK k : SetRow(cur, [r EXCEPT !.state = "ready", !.prepared = k, !.attempts = 0])
        BY <1>4 DEF PrepareEnds
    <2> DEFINE s == [r EXCEPT !.state = "ready", !.prepared = k, !.attempts = 0]
    <2>2. s.state = "ready" /\ s.target = r.target /\ s.unverified = r.unverified BY <2>0 DEF Rows
    <2>3. SetRow(cur, s) BY <2>1
    <2> HIDE DEF s
    <2>4. Keeps(r, s) BY <2>0, <2>2, PatchKeeps
    <2> QED BY <1>0, <1>t, <2>0, <2>3, <2>4, SetRowKeeps, QuietStep
<1>5. CASE PrepareDropped
    <2>1. cur \in Docs /\ r \in Rows BY <1>5, <1>h DEF PrepareDropped
    <2> QED BY <1>0, <1>5, <1>t, <2>1, ApplyDiscardKeeps, SetRowKeeps, QuietStep DEF PrepareDropped, remote
<1>6. CASE PrepareThrows
    BY <1>t, <1>6, ThrowKeeps, QuietStep DEF PrepareThrows, remote
<1>7. CASE FileAfterWalk
    <2>1. cur \in Docs /\ snap \in Rows /\ r.state \notin {"none", "filed"} /\ snap.state \in Workable
        BY <1>7, <1>h DEF FileAfterWalk
    <2>2. PICK t : FileRechecked(cur, snap, t, sess) BY <1>7 DEF FileAfterWalk
    <2>3. /\ \A e \in Docs : Keeps(row[e], row'[e])
          /\ Idle \/ (pc' \in {"folder", "send"} /\ cur' = cur /\ snap'.state \in Workable)
        BY <1>0, <2>1, <2>2, FileRecheckedKeeps
    <2> QED BY <1>7, <1>t, <2>1, <2>3, QuietStep DEF FileAfterWalk, remote
<1>8. CASE FolderResolved
    <2> DEFINE s == [r EXCEPT !.decision = [snap.decision EXCEPT !.made = TRUE]]
    <2>0. /\ cur \in Docs /\ r \in Rows /\ UNCHANGED drive /\ Wait("send", cur, snap, sess)
          /\ r.state \notin {"none", "filed"} /\ snap.state \in Workable
        BY <1>8, <1>h DEF FolderResolved, remote
    <2>1. s.state = r.state /\ s.target = r.target /\ s.unverified = r.unverified BY <2>0 DEF Rows
    <2>2. SetRow(cur, KeepGoing(r, s)) BY <1>8 DEF FolderResolved
    <2> HIDE DEF s
    <2>3. Keeps(r, KeepGoing(r, s)) BY <2>0, <2>1, KeepGoingKeeps
    <2>4. \A e \in Docs : Keeps(row[e], row'[e]) BY <1>0, <2>0, <2>2, <2>3, SetRowKeeps
    <2> QED BY <1>t, <2>0, <2>4, QuietStep DEF Wait
<1>9. CASE FolderNameTaken
    <2> DEFINE s == [r EXCEPT !.state = "needs_review", !.reviewReason = TRUE, !.discardRequested = FALSE]
    <2>0. cur \in Docs /\ r \in Rows /\ UNCHANGED drive /\ Idle BY <1>9, <1>h DEF FolderNameTaken, remote
    <2>1. s.state = "needs_review" /\ s.target = r.target /\ s.unverified = r.unverified BY <2>0 DEF Rows
    <2>2. SetRow(cur, KeepGoing(r, s)) BY <1>9 DEF FolderNameTaken
    <2> HIDE DEF s
    <2> QED BY <1>0, <1>t, <2>0, <2>1, <2>2, KeepGoingKeeps, SetRowKeeps, QuietStep
<1>10. CASE Send
    <2>0. /\ pc \in FileWaits /\ pc # "idle" /\ UNCHANGED drive
          /\ cur \in Docs /\ r \in Rows /\ r.state \notin {"none", "filed"} /\ snap.state \in Workable
        BY <1>10, <1>h DEF Send, remote, FileWaits
    <2>1. CASE SetRow(cur, Failed(r, MaxAttempts)) /\ Idle
        BY <1>0, <1>t, <2>0, <2>1, FailedKeeps, SetRowKeeps, QuietStep, BoundAssumption
    <2>r. Read.state = snap.state BY <1>10, <1>h DEF Send, Read, Rows
    <2>2. CASE UNCHANGED row /\ Wait("lookup", cur, Read, sess)
        BY <1>t, <2>0, <2>r, <2>2, UnchangedKeeps, QuietStep DEF Wait
    <2>3. CASE SetTarget(Read) BY <1>t, <2>0, <2>r, <2>3, SetTargetUpload
    <2> QED BY <1>10, <2>1, <2>2, <2>3 DEF Send
<1>11. CASE LookupMisses
    BY <1>11, <1>t, SetTargetUpload DEF LookupMisses, FileWaits, remote
<1>12. CASE Filed
    BY <1>12, <1>t, <1>h, FiledUpload DEF Filed, Answered, remote
<1>13. CASE FileThrows
    <2>1. pc # "idle" BY <1>13 DEF FileThrows, DriveWaits, FileWaits
    <2> QED BY <1>t, <1>13, <2>1, ThrowKeeps, QuietStep DEF FileThrows, remote
<1>14. CASE FileAuthExpired
    <2> DEFINE s == [r EXCEPT !.state = "awaiting_login", !.discardRequested = FALSE]
    <2>0. cur \in Docs /\ r \in Rows /\ UNCHANGED drive /\ Idle
        BY <1>14, <1>h DEF FileAuthExpired, DriveWaits, FileWaits, remote
    <2>1. s.state = "awaiting_login" /\ s.target = r.target /\ s.unverified = r.unverified BY <2>0 DEF Rows
    <2>2. SetRow(cur, KeepGoing(r, s)) BY <1>14 DEF FileAuthExpired
    <2> HIDE DEF s
    <2> QED BY <1>0, <1>t, <2>0, <2>1, <2>2, KeepGoingKeeps, SetRowKeeps, QuietStep
<1> QED BY <1>1, <1>2, <1>3, <1>4, <1>5, <1>6, <1>7, <1>8, <1>9, <1>10, <1>11, <1>12, <1>13, <1>14
        DEF Continue

LEMMA RouteUpload == ASSUME UploadInv, NEW d \in Docs, Route(d) PROVE UploadInv'
<1> DEFINE r == row[d]
<1>0. TypeOK /\ row \in [Docs -> Rows] /\ r \in Rows BY DEF UploadInv, TypeOK, RowsOK
<1>t. TypeOK' BY <1>0, RouteType
\* Every route writes one row and leaves the worker and Drive alone.
<1>q. ASSUME NEW s, SetRow(d, s), Keeps(r, s), UNCHANGED worker, UNCHANGED remote PROVE UploadInv'
    BY <1>0, <1>t, <1>q, SetRowKeeps, QuietStep DEF remote
<1>1. CASE Upload(d)
    <2> DEFINE s == [NewRow EXCEPT !.state = "received"]
    <2>1. SetRow(d, s) /\ UNCHANGED worker /\ UNCHANGED remote /\ r = NewRow
        BY <1>1 DEF Upload, UploadInv, UnbornIsBlank
    <2>2. s.state = "received" /\ ~Remembered(NewRow) BY DEF NewRow, Remembered, PossiblyInDrive
    <2> HIDE DEF s
    <2>3. Keeps(r, s) BY <2>1, <2>2 DEF Keeps
    <2> QED BY <1>q, <2>1, <2>3
<1>2. CASE UploadAgain(d)
    <2> DEFINE kept == [r EXCEPT !.discardRequested = FALSE]
    <2>1. /\ r.state \notin {"none", "gone", "discarded"} /\ UNCHANGED worker /\ UNCHANGED remote
          /\ SetRow(d, IF kept.state = "failed" THEN Restarted(kept) ELSE kept)
        BY <1>2 DEF UploadAgain
    <2>2. kept.state = r.state /\ kept.target = r.target /\ kept.unverified = r.unverified /\ kept \in Rows
        <3>1. FALSE \in BOOLEAN OBVIOUS
        <3>2. kept \in Rows BY <1>0, <3>1, PatchFlag
        <3> QED BY <1>0, <3>2 DEF Rows
    <2> HIDE DEF kept
    <2>3. Keeps(r, kept) BY <2>1, <2>2, ColumnKeeps
    <2>4. kept.state = "failed" => Keeps(r, Restarted(kept))
        <3> SUFFICES ASSUME kept.state = "failed" PROVE Keeps(r, Restarted(kept)) OBVIOUS
        <3>1. Keeps(kept, Restarted(kept)) BY <2>2, RestartedKeeps
        <3>2. Restarted(kept).state # "none"
            BY <2>2 DEF Restarted, Rows
        <3> QED BY <2>2, <2>3, <3>1, <3>2 DEF Keeps
    <2> QED BY <1>q, <2>1, <2>3, <2>4
<1>3. ASSUME NEW asked \in Places \cup {None}, Approve(d, asked) PROVE UploadInv'
    <2> DEFINE s(c) == [r EXCEPT !.state = "filing", !.autoFiled = FALSE, !.attempts = 0, !.due = TRUE, !.decision = c]
    <2>1. PICK c : SetRow(d, s(c)) BY <1>3 DEF Approve
    <2>2. r.state = "needs_review" /\ UNCHANGED worker /\ UNCHANGED remote
        BY <1>3 DEF Approve, CanMove
    <2>3. s(c).state = "filing" /\ s(c).target = r.target /\ s(c).unverified = r.unverified BY <1>0 DEF Rows
    <2> HIDE DEF s
    <2>4. Keeps(r, s(c)) BY <2>2, <2>3, PatchKeeps
    <2> QED BY <1>q, <2>1, <2>2, <2>4
<1>4. CASE Reanalyze(d)
    <2> DEFINE s == [r EXCEPT !.state = "received", !.reanalyzed = TRUE, !.analysis = None,
                      !.decision = None, !.reviewReason = FALSE, !.prepared = NotPrepared,
                      !.autoFiled = FALSE, !.attempts = 0, !.due = TRUE]
    <2>1. r.state = "needs_review" /\ UNCHANGED worker /\ UNCHANGED remote /\ SetRow(d, s)
        BY <1>4 DEF Reanalyze, CanMove
    <2>2. s.state = "received" /\ s.target = r.target /\ s.unverified = r.unverified BY <1>0 DEF Rows
    <2> HIDE DEF s
    <2>3. Keeps(r, s) BY <2>1, <2>2, PatchKeeps
    <2> QED BY <1>q, <2>1, <2>3
<1>5. CASE DiscardNow(d)
    <2> DEFINE s == [r EXCEPT !.state = "discarded", !.discardRequested = FALSE]
    <2>1. r.state \in Resting /\ UNCHANGED worker /\ UNCHANGED remote /\ SetRow(d, s)
        BY <1>5 DEF DiscardNow
    <2>2. s.state = "discarded" /\ s.target = r.target /\ s.unverified = r.unverified BY <1>0 DEF Rows
    <2> HIDE DEF s
    <2>3. Keeps(r, s) BY <2>1, <2>2, PatchKeeps DEF Resting
    <2> QED BY <1>q, <2>1, <2>3
<1>6. CASE RequestDiscard(d)
    <2> DEFINE s == [r EXCEPT !.discardRequested = TRUE, !.due = r.due \/ ~PastTarget(r)]
    <2>1. r.state \in Working /\ UNCHANGED worker /\ UNCHANGED remote /\ SetRow(d, s)
        BY <1>6 DEF RequestDiscard
    <2>2. s.state = r.state /\ s.target = r.target /\ s.unverified = r.unverified BY <1>0 DEF Rows
    <2> HIDE DEF s
    <2>3. Keeps(r, s) BY <2>1, <2>2, ColumnKeeps DEF Working
    <2> QED BY <1>q, <2>1, <2>3
<1>7. CASE Restore(d)
    BY <1>0, <1>7, <1>q, RestoredKeeps DEF Restore, CanMove
<1>8. CASE Retry(d)
    BY <1>0, <1>8, <1>q, RestartedKeeps DEF Retry, CanMove
<1> QED BY <1>1, <1>2, <1>3, <1>4, <1>5, <1>6, <1>7, <1>8 DEF Route

LEMMA EnvironmentUpload == ASSUME UploadInv, Environment PROVE UploadInv'
<1>0. TypeOK /\ row \in [Docs -> Rows] BY DEF UploadInv, TypeOK, RowsOK
<1>t. TypeOK' BY <1>0, EnvironmentType
<1>h. pc # "idle" => /\ cur \in Docs /\ snap \in Rows /\ row[cur] \in Rows
                     /\ row[cur].state \notin {"none", "filed"} /\ snap.state \in Workable
    BY <1>0, Held DEF UploadInv, HeldIsOpen, TypeOK
<1>1. CASE ChangeSettings \/ Logout \/ RefreshTree \/ DriveMakesFolder
           \/ (\E other \in BOOLEAN : Login(other)) \/ \E s \in 1..MaxLogins : Expire(s)
    <2>1. UNCHANGED <<row, drive>> /\ UNCHANGED worker
        BY <1>1 DEF ChangeSettings, Logout, RefreshTree, DriveMakesFolder, Login, Expire, rows, remote, worker
    <2> QED BY <1>t, <2>1, UnchangedKeeps, QuietStep
<1>2. CASE OnLogin
    <2> DEFINE s(e) == [row[e] EXCEPT !.state = "filing", !.attempts = 0, !.due = TRUE]
    <2>1. ASSUME NEW e \in Docs PROVE Keeps(row[e], row'[e])
        <3>1. s(e).state = "filing" /\ s(e).target = row[e].target /\ s(e).unverified = row[e].unverified
            BY <1>0 DEF Rows
        <3>2. row'[e] = IF CanMove(row[e], "awaiting_login") THEN s(e) ELSE row[e] BY <1>2 DEF OnLogin
        <3> HIDE DEF s
        <3> QED BY <3>1, <3>2, PatchKeeps, SameKeeps DEF CanMove
    <2> QED BY <1>t, <1>2, <2>1, QuietStep DEF OnLogin, remote
<1>3. CASE DriveStores
    <2>1. /\ pc = "upload" /\ UNCHANGED row /\ Wait("stored", cur, snap, sess)
          /\ \A e \in Docs : e # cur => drive'[e] = drive[e]
        BY <1>0, <1>3 DEF DriveStores, rows, TypeOK, WorldOK
    <2>2. Remembered(row[cur]) BY <2>1 DEF UploadInv, InFlightRemembered
    <2>3. UploadNeverForgotten'
        BY <2>1, <2>2 DEF UploadInv, UploadNeverForgotten, Remembered
    <2>4. InFlightRemembered' /\ HeldIsOpen' /\ UnbornIsBlank'
        BY <1>h, <2>1, <2>2 DEF UploadInv, InFlightRemembered, HeldIsOpen, UnbornIsBlank, Wait
    <2> QED BY <1>t, <2>3, <2>4 DEF UploadInv
<1>4. CASE Postpones
    <2> DEFINE s == [row[cur] EXCEPT !.due = FALSE]
    <2>1. /\ cur \in Docs /\ row[cur] \in Rows /\ row[cur].state \notin {"none", "filed"}
          /\ SetRow(cur, s) /\ Idle /\ UNCHANGED drive
        BY <1>4, <1>h DEF Postpones, DriveWaits, FileWaits, remote
    <2>2. s.state = row[cur].state /\ s.target = row[cur].target /\ s.unverified = row[cur].unverified
        BY <2>1 DEF Rows
    <2> HIDE DEF s
    <2> QED BY <1>0, <1>t, <2>1, <2>2, ColumnKeeps, SetRowKeeps, QuietStep
<1>5. CASE Crash \/ CrashAfterPut
    <2>1. Idle /\ UNCHANGED <<row, drive>> BY <1>5 DEF Crash, CrashAfterPut, Dies, rows, remote
    <2> QED BY <1>t, <2>1, UnchangedKeeps, QuietStep
<1>6. CASE CrashAfterFiled
    BY <1>6, <1>t, <1>h, FiledUpload DEF CrashAfterFiled, Answered, Dies, remote
<1>7. ASSUME NEW d \in Docs, CrashAfterInsert(d) PROVE UploadInv'
    <2> DEFINE s == [NewRow EXCEPT !.state = "received"]
    <2>1. SetRow(d, s) /\ Idle /\ UNCHANGED drive /\ row[d] = NewRow
        BY <1>7 DEF CrashAfterInsert, Dies, remote, UploadInv, UnbornIsBlank
    <2>2. s.state = "received" /\ ~Remembered(NewRow) BY DEF NewRow, Remembered, PossiblyInDrive
    <2> HIDE DEF s
    <2>3. Keeps(row[d], s) BY <2>1, <2>2 DEF Keeps
    <2> QED BY <1>0, <1>t, <2>1, <2>3, SetRowKeeps, QuietStep
<1>8. ASSUME NEW d \in Docs, BecomesDue(d) PROVE UploadInv'
    <2> DEFINE s == [row[d] EXCEPT !.due = TRUE]
    <2>1. row[d].state \in Workable /\ SetRow(d, s) /\ UNCHANGED drive /\ UNCHANGED worker
        BY <1>8 DEF BecomesDue, remote
    <2>2. s.state = row[d].state /\ s.target = row[d].target /\ s.unverified = row[d].unverified
        BY <1>0 DEF Rows
    <2> HIDE DEF s
    <2>3. Keeps(row[d], s) BY <2>1, <2>2, ColumnKeeps DEF Workable
    <2> QED BY <1>0, <1>t, <2>1, <2>3, SetRowKeeps, QuietStep
<1>9. ASSUME NEW d \in Docs, Purge(d) PROVE UploadInv'
    <2> DEFINE s == [row[d] EXCEPT !.state = "gone"]
    <2>1. row[d].state = "discarded" /\ SetRow(d, s) /\ UNCHANGED drive /\ UNCHANGED worker
        BY <1>9 DEF Purge, remote
    <2>2. s.state = "gone" /\ s.target = row[d].target /\ s.unverified = row[d].unverified
        BY <1>0 DEF Rows
    <2> HIDE DEF s
    <2> QED BY <1>0, <1>t, <2>1, <2>2, PatchKeeps, SetRowKeeps, QuietStep
<1>10. ASSUME NEW d \in Docs, Sweep(d) PROVE UploadInv'
    BY <1>t, <1>10, UnchangedKeeps, QuietStep DEF Sweep, remote
<1>11. ASSUME NEW d \in Docs, Quarantine(d) PROVE UploadInv'
    <2>1. row[d] \in Rows /\ UNCHANGED drive /\ UNCHANGED worker /\ SetRow(d, Quarantined(row[d]))
          /\ row[d].state \notin {"none", "gone"}
        BY <1>0, <1>11 DEF Quarantine, remote
    <2> QED BY <1>0, <1>t, <2>1, QuarantinedKeeps, SetRowKeeps, QuietStep
<1>12. ASSUME NEW d \in Docs, PutBackCut(d) \/ PurgeCut(d) PROVE UploadInv'
    <2>1. UNCHANGED <<row, drive>> /\ (Idle \/ UNCHANGED worker)
        BY <1>12 DEF PutBackCut, PurgeCut, Cut, Dies, remote
    <2> QED BY <1>t, <2>1, UnchangedKeeps, QuietStep
<1> QED BY <1>1, <1>2, <1>3, <1>4, <1>5, <1>6, <1>7, <1>8, <1>9, <1>10, <1>11, <1>12 DEF Environment

LEMMA StepUpload == UploadInv /\ [Next]_vars => UploadInv'
<1> SUFFICES ASSUME UploadInv, [Next]_vars PROVE UploadInv' OBVIOUS
<1>1. CASE Next BY <1>1, BeginUpload, RouteUpload, ContinueUpload, EnvironmentUpload DEF Next
<1>2. CASE UNCHANGED vars
    <2>1. TypeOK' BY <1>2, StepType DEF UploadInv
    <2>2. UNCHANGED <<row, drive>> /\ UNCHANGED worker BY <1>2 DEF vars, worker
    <2> QED BY <2>1, <2>2, UnchangedKeeps, QuietStep
<1> QED BY <1>1, <1>2

LEMMA InitUpload == Init => UploadInv
<1> SUFFICES ASSUME Init PROVE UploadInv OBVIOUS
<1>1. TypeOK BY InitType
<1>2. UploadNeverForgotten /\ UnbornIsBlank BY DEF Init, UploadNeverForgotten, UnbornIsBlank
<1>3. InFlightRemembered /\ HeldIsOpen BY DEF Init, InFlightRemembered, HeldIsOpen
<1> QED BY <1>1, <1>2, <1>3 DEF UploadInv

\* Whatever fails, crashes, expires or is discarded and restored, a document
\* Drive may hold says so in its row until it is filed or the row is purged:
\* the target is saved before the upload (file.ts), no statement but the
\* quarantine clears it, and the quarantine leaves uploadUnverified.
THEOREM UploadRemembered == Spec => []UploadNeverForgotten
<1>1. UploadInv => UploadNeverForgotten BY DEF UploadInv
<1> QED BY <1>1, InitUpload, StepUpload, PTL DEF Spec

-----------------------------------------------------------------------------
(* The row by itself.                                                      *)

\* What each statement of the repository leaves true of the row it writes.
FilingHasDecision(r) == r.state \in {"filing", "awaiting_login"} => r.decision # None
ApprovalIsForgotten(r) ==
    r.decision # None /\ r.target = None =>
        r.state \notin {"none", "received", "analyzing", "preparing", "ready"}
DecidedIsPrepared(r) ==
    r.decision # None \/ r.target # None \/ r.state \in {"ready", "needs_review", "filing", "awaiting_login"}
        => r.prepared # NotPrepared
LookIsRemembered(r) == r.reanalyzed => ~r.autoFiled /\ (r.analysis # None => r.reviewReason)
DiscardIsWorking(r) == r.discardRequested => r.state \in Working
UnreadHasNoAnalysis(r) == r.state \in {"received", "analyzing"} => r.analysis = None
StateFits(r) ==
    /\ FilingHasDecision(r) /\ ApprovalIsForgotten(r) /\ DecidedIsPrepared(r)
    /\ DiscardIsWorking(r) /\ UnreadHasNoAnalysis(r)
Sound(r) == StateFits(r) /\ LookIsRemembered(r)

\* What a write may do while a discard is pending (DiscardNotOverrun).
Obeys(r, s) ==
    r.discardRequested /\ ~PastTarget(r) =>
        /\ s.target \in {r.target, None}
        /\ s.state \in {r.state, "discarded", "needs_review", "awaiting_login", "failed"}
\* A write the promise does not see.
Level(r, s) == Phase(s) = Phase(r) /\ (Remembered(s) <=> Remembered(r))
\* A write that neither decides nor prepares.
Kept(r, s) ==
    /\ s.prepared = r.prepared
    /\ s.decision # None =>
        r.decision # None /\ Place(s.decision) = Place(r.decision) /\ s.target = r.target
Legal(r, s) == Sound(s) /\ Obeys(r, s) /\ Level(r, s) /\ Kept(r, s)
\* Attempts only grow and the row does not enter filing.
Counted(r, s) == s.attempts >= r.attempts /\ (s.state = "filing" => r.state = "filing")

LEMMA SameLegal == ASSUME NEW r \in Rows, Sound(r) PROVE Legal(r, r) /\ Counted(r, r)
<1>1. r.attempts >= r.attempts BY RowFields, BoundAssumption
<1> QED BY <1>1 DEF Legal, Obeys, Level, Kept, Counted

\* A patch of state, flag, due, attempts and reason that neither reaches nor leaves
\* a closed state, and needs no more than the row has.
LEMMA PatchLegal ==
    ASSUME NEW r \in Rows, NEW s \in Rows, Sound(r),
           s.target = r.target, s.unverified = r.unverified, s.decision = r.decision,
           s.prepared = r.prepared, s.analysis = r.analysis, s.reanalyzed = r.reanalyzed,
           s.autoFiled = r.autoFiled, r.reviewReason => s.reviewReason,
           r.state \notin {"none", "filed", "gone"}, s.state \notin {"none", "filed", "gone"},
           StateFits(s),
           Obeys(r, s)
    PROVE  Legal(r, s)
<1>1. Sound(s) BY DEF Sound, LookIsRemembered
<1>2. Phase(s) = "open" /\ Phase(r) = "open" BY DEF Phase
<1>3. Level(r, s) BY <1>2 DEF Level, Remembered, PossiblyInDrive
<1> QED BY <1>1, <1>3 DEF Legal, Kept

LEMMA ApplyDiscardLegal ==
    ASSUME NEW r \in Rows, Sound(r)
    PROVE  Legal(r, ApplyDiscard(r)) /\ Counted(r, ApplyDiscard(r))
<1>1. CASE r.discardRequested /\ r.state \in Discardable /\ ~PastTarget(r)
    <2> DEFINE s == [r EXCEPT !.state = "discarded", !.discardRequested = FALSE]
    <2>0. ApplyDiscard(r) = s /\ s \in Rows BY <1>1, ApplyDiscardType DEF ApplyDiscard
    <2>1. /\ s.state = "discarded" /\ s.target = r.target /\ s.unverified = r.unverified /\ ~s.discardRequested
          /\ s.decision = r.decision /\ s.prepared = r.prepared /\ s.analysis = r.analysis
          /\ s.reanalyzed = r.reanalyzed /\ s.autoFiled = r.autoFiled /\ s.reviewReason = r.reviewReason
          /\ s.attempts = r.attempts
        BY DEF Rows
    <2> HIDE DEF s
    <2>2. r.state \notin {"none", "filed", "gone"} BY <1>1 DEF Discardable, Resting, Working
    <2>3. StateFits(s)
        BY <2>1 DEF Sound, StateFits, FilingHasDecision, ApprovalIsForgotten, DecidedIsPrepared,
                    DiscardIsWorking, UnreadHasNoAnalysis, Working
    <2>4. Obeys(r, s) BY <2>1 DEF Obeys
    <2>5. Legal(r, s) BY <2>0, <2>1, <2>2, <2>3, <2>4, PatchLegal
    <2>6. Counted(r, s) BY <2>1, RowFields, BoundAssumption DEF Counted
    <2> QED BY <2>0, <2>5, <2>6
<1>2. CASE ~(r.discardRequested /\ r.state \in Discardable /\ ~PastTarget(r))
    BY <1>2, SameLegal DEF ApplyDiscard
<1> QED BY <1>1, <1>2

LEMMA MoveOrDiscardLegal ==
    ASSUME NEW r \in Rows, Sound(r), NEW from, NEW new, CanMove(r, from) => Legal(r, new)
    PROVE  Legal(r, MoveOrDiscard(r, from, new))
BY ApplyDiscardLegal DEF MoveOrDiscard

LEMMA KeepGoingLegal ==
    ASSUME NEW r \in Rows, Sound(r), NEW new, r.state = "filing" => Legal(r, new)
    PROVE  Legal(r, KeepGoing(r, new))
BY SameLegal DEF KeepGoing

LEMMA FailedLegal ==
    ASSUME NEW r \in Rows, Sound(r), NEW used \in Nat, r.state \notin {"none", "filed"}
    PROVE  /\ Legal(r, Failed(r, used))
           /\ Failed(r, used).state = "filing" => r.state = "filing"
           /\ Failed(r, used).attempts = r.attempts \/ Failed(r, used).attempts >= used
                \/ Failed(r, used).attempts = MaxAttempts
<1> DEFINE f == Failed(r, used)
<1>1. CASE r.state = "gone"
    BY <1>1, SameLegal DEF Failed
<1>2. CASE r.state # "gone" /\ r.discardRequested /\ ~PastTarget(r)
    <2>1. f = ApplyDiscard(r) BY <1>2 DEF Failed
    <2>2. ApplyDiscard(r).attempts = r.attempts BY DEF ApplyDiscard, Rows
    <2> QED BY <2>1, <2>2, ApplyDiscardLegal DEF Counted
<1>3. CASE ~(r.state = "gone") /\ ~(r.discardRequested /\ ~PastTarget(r)) /\ used >= MaxAttempts
    <2> DEFINE s == [r EXCEPT !.state = "failed", !.attempts = MaxAttempts, !.discardRequested = FALSE]
    <2>0. f = s /\ s \in Rows BY <1>3, FailedType DEF Failed
    <2>1. /\ s.state = "failed" /\ s.target = r.target /\ s.unverified = r.unverified /\ ~s.discardRequested
          /\ s.decision = r.decision /\ s.prepared = r.prepared /\ s.analysis = r.analysis
          /\ s.reanalyzed = r.reanalyzed /\ s.autoFiled = r.autoFiled /\ s.reviewReason = r.reviewReason
          /\ s.attempts = MaxAttempts
        BY DEF Rows
    <2> HIDE DEF s, f
    <2>2. StateFits(s)
        BY <2>1 DEF Sound, StateFits, FilingHasDecision, ApprovalIsForgotten, DecidedIsPrepared,
                    DiscardIsWorking, UnreadHasNoAnalysis, Working
    <2>3. Obeys(r, s) BY <2>1 DEF Obeys
    <2>4. Legal(r, s) BY <1>3, <2>0, <2>1, <2>2, <2>3, PatchLegal
    <2> QED BY <2>0, <2>1, <2>4 DEF f
<1>4. CASE ~(r.state = "gone") /\ ~(r.discardRequested /\ ~PastTarget(r)) /\ ~(used >= MaxAttempts)
    <2> DEFINE s == [r EXCEPT !.attempts = used, !.due = FALSE]
    <2>0. f = s /\ s \in Rows BY <1>4, FailedType DEF Failed
    <2>1. /\ s.state = r.state /\ s.target = r.target /\ s.unverified = r.unverified
          /\ s.discardRequested = r.discardRequested
          /\ s.decision = r.decision /\ s.prepared = r.prepared /\ s.analysis = r.analysis
          /\ s.reanalyzed = r.reanalyzed /\ s.autoFiled = r.autoFiled /\ s.reviewReason = r.reviewReason
          /\ s.attempts = used
        BY DEF Rows
    <2> HIDE DEF s, f
    <2>2. StateFits(s)
        BY <2>1 DEF Sound, StateFits, FilingHasDecision, ApprovalIsForgotten, DecidedIsPrepared,
                    DiscardIsWorking, UnreadHasNoAnalysis, Working
    <2>3. Obeys(r, s) BY <2>1 DEF Obeys
    <2>4. Legal(r, s) BY <1>4, <2>0, <2>1, <2>2, <2>3, PatchLegal
    <2> QED BY <2>0, <2>1, <2>4 DEF f
<1> QED BY <1>1, <1>2, <1>3, <1>4

\* A quarantined row has lost its decision and its analysis: no filing stage can go on
\* with it, and no statement but an upload, a retry, a discard or a restore moves it.
Abandoned(r) ==
    r.state \in {"received", "failed", "discarded", "gone"} /\ r.decision = None /\ r.analysis = None

LEMMA QuarantinedFields ==
    ASSUME NEW r \in Rows
    PROVE  LET s == Quarantined(r) IN
           /\ s.state = IF r.state \in {"filed", "discarded"} THEN r.state ELSE "failed"
           /\ s.unverified = (r.unverified \/ UploadMayHaveHappened(r))
           /\ s.analysis = None /\ s.decision = None /\ s.target = None /\ ~s.discardRequested
           /\ s.prepared = r.prepared /\ s.reanalyzed = r.reanalyzed /\ s.autoFiled = r.autoFiled
           /\ s.attempts = r.attempts
BY DEF Quarantined, Rows

LEMMA QuarantinedLegal ==
    ASSUME NEW r \in Rows, Sound(r), r.state \notin {"none", "gone"}
    PROVE  /\ Legal(r, Quarantined(r)) /\ Counted(r, Quarantined(r))
           /\ r.state # "filed" => Abandoned(Quarantined(r))
<1> DEFINE s == Quarantined(r)
<1>1. /\ s.state = IF r.state \in {"filed", "discarded"} THEN r.state ELSE "failed"
      /\ s.unverified = (r.unverified \/ UploadMayHaveHappened(r))
      /\ s.analysis = None /\ s.decision = None /\ s.target = None /\ ~s.discardRequested
      /\ s.prepared = r.prepared /\ s.reanalyzed = r.reanalyzed /\ s.autoFiled = r.autoFiled
      /\ s.attempts = r.attempts
    BY QuarantinedFields
<1> HIDE DEF s
<1>2. Sound(s)
    BY <1>1 DEF Sound, StateFits, FilingHasDecision, ApprovalIsForgotten, DecidedIsPrepared, LookIsRemembered,
                DiscardIsWorking, UnreadHasNoAnalysis
<1>3. Obeys(r, s) BY <1>1 DEF Obeys
<1>4. Phase(s) = Phase(r) BY <1>1 DEF Phase
<1>5. Remembered(s) <=> Remembered(r) BY <1>1 DEF Remembered, PossiblyInDrive, UploadMayHaveHappened
<1>6. Kept(r, s) BY <1>1 DEF Kept
<1>7. Counted(r, s) BY <1>1, RowFields, BoundAssumption DEF Counted
<1>8. r.state # "filed" => Abandoned(s) BY <1>1 DEF Abandoned
<1> QED BY <1>2, <1>3, <1>4, <1>5, <1>6, <1>7, <1>8 DEF Legal, Level, s

LEMMA RestartedLegal ==
    ASSUME NEW r \in Rows, Sound(r), r.state = "failed"
    PROVE  /\ Legal(r, Restarted(r)) /\ Restarted(r).state \notin Discardable \ Workable
           /\ Abandoned(r) => Abandoned(Restarted(r))
<1> DEFINE s == Restarted(r)
<1>0. s \in Rows BY RestartedType
<1>1. /\ s.state = (IF r.decision # None THEN "filing" ELSE IF r.analysis # None THEN "preparing" ELSE "received")
      /\ s.target = r.target /\ s.unverified = r.unverified /\ s.discardRequested = r.discardRequested
      /\ s.decision = r.decision /\ s.prepared = r.prepared /\ s.analysis = r.analysis
      /\ s.reanalyzed = r.reanalyzed /\ s.autoFiled = r.autoFiled /\ s.reviewReason = r.reviewReason
    BY DEF Restarted, Rows
<1> HIDE DEF s
<1>2. ~r.discardRequested BY DEF Sound, StateFits, DiscardIsWorking, Working
<1>3. StateFits(s)
    BY <1>1, <1>2 DEF Sound, StateFits, FilingHasDecision, ApprovalIsForgotten, DecidedIsPrepared,
                    DiscardIsWorking, UnreadHasNoAnalysis, Working
<1>4. Obeys(r, s) BY <1>2 DEF Obeys
<1>5. Legal(r, s) BY <1>0, <1>1, <1>3, <1>4, PatchLegal
<1> QED BY <1>1, <1>5 DEF s, Abandoned, Workable

LEMMA ForgetApprovalFields ==
    ASSUME NEW r \in Rows
    PROVE  LET s == ForgetApproval(r) IN
           /\ s.decision = (IF r.target # None THEN r.decision ELSE None)
           /\ s.autoFiled = (IF r.target # None THEN r.autoFiled ELSE FALSE)
           /\ s.state = r.state /\ s.attempts = r.attempts /\ s.target = r.target /\ s.unverified = r.unverified
           /\ s.discardRequested = r.discardRequested /\ s.prepared = r.prepared /\ s.analysis = r.analysis
           /\ s.reanalyzed = r.reanalyzed /\ s.reviewReason = r.reviewReason
BY DEF ForgetApproval, Rows

LEMMA RestoredLegal ==
    ASSUME NEW r \in Rows, Sound(r), r.state = "discarded"
    PROVE  /\ Legal(r, Restored(r)) /\ Restored(r).state # "filing" /\ Restored(r).state # "analyzing"
           /\ Abandoned(r) => Abandoned(Restored(r))
<1> DEFINE k == ForgetApproval(r)
           s == Restored(r)
<1>0. k \in Rows BY ForgetApprovalType
<1>1. /\ k.decision = (IF r.target # None THEN r.decision ELSE None)
      /\ k.autoFiled = (IF r.target # None THEN r.autoFiled ELSE FALSE)
      /\ k.target = r.target /\ k.unverified = r.unverified
      /\ k.discardRequested = r.discardRequested /\ k.prepared = r.prepared /\ k.analysis = r.analysis
      /\ k.reanalyzed = r.reanalyzed
    BY ForgetApprovalFields
<1> HIDE DEF k
<1>2. /\ s.state = RestoredState(r) /\ s.reviewReason = (r.analysis # None)
      /\ s.target = k.target /\ s.unverified = k.unverified /\ s.discardRequested = k.discardRequested
      /\ s.decision = k.decision /\ s.prepared = k.prepared /\ s.analysis = k.analysis
      /\ s.reanalyzed = k.reanalyzed /\ s.autoFiled = k.autoFiled
    BY <1>0 DEF Restored, Rows, k
<1>3. ~r.discardRequested BY DEF Sound, StateFits, DiscardIsWorking, Working
<1> HIDE DEF s
<1>4. s.state \in {"received", "preparing", "needs_review"} BY <1>2 DEF RestoredState
<1>5. Sound(s)
    BY <1>1, <1>2, <1>3, <1>4 DEF Sound, StateFits, FilingHasDecision, ApprovalIsForgotten, DecidedIsPrepared, LookIsRemembered,
                DiscardIsWorking, UnreadHasNoAnalysis, RestoredState
<1>6. Level(r, s) BY <1>1, <1>2, <1>4 DEF Level, Phase, Remembered, PossiblyInDrive
<1>7. Obeys(r, s) /\ Kept(r, s) BY <1>1, <1>2, <1>3 DEF Obeys, Kept
<1>8. Abandoned(r) => Abandoned(s) BY <1>1, <1>2 DEF Abandoned, RestoredState
<1> QED BY <1>4, <1>5, <1>6, <1>7, <1>8 DEF Legal, s

-----------------------------------------------------------------------------
(* The row against the inbox, Drive and the counts of its history.         *)

\* r is the row, b its blobs, h what Drive holds, n the files stored since the
\* last decision, c the stage runs begun since the attempts were reset. While
\* there is a blob to send, Drive holds the one a retry would send; the prepared
\* blob is the one the row records, or a purge that was cut short has taken it.
StoredIsTarget(r, b, h, n) ==
    r.decision # None /\ n # 0 =>
        /\ r.target = Place(r.decision)
        /\ b # NoBlob => <<Place(r.decision), b.prepared>> \in h
RecordIsBlob(r, b) ==
    r.state \notin {"filed", "gone"} /\ r.prepared # NotPrepared => b.prepared \in {0, r.prepared}
FiledIsHeld(r, h) == r.state = "filed" => h # {}
BegunIsCounted(r, c) == c <= r.attempts /\ (r.state = "filing" => c = 0)
UnbornIsEmpty(r, b) == r.state = "none" => b = NoBlob
LedgerOK(r, b, h, n, c) ==
    /\ StoredIsTarget(r, b, h, n) /\ RecordIsBlob(r, b) /\ FiledIsHeld(r, h)
    /\ n <= 1 /\ UnbornIsEmpty(r, b) /\ BegunIsCounted(r, c)

AllSound == \A d \in Docs : Sound(row[d])
Ledger   == \A d \in Docs : LedgerOK(row[d], blob[d], drive[d], sent[d], begun[d])

\* What a filing stage waits with is still what the row says, and the bytes it
\* sends what the inbox holds, or the row was quarantined and stays out of filing.
Agrees ==
    /\ row[cur].state = "filing" /\ Place(row[cur].decision) = Place(snap.decision)
    /\ IF pc \in SendWaits THEN blob[cur] # NoBlob /\ snap.prepared = blob[cur].prepared
                          ELSE snap.prepared = row[cur].prepared
    /\ row[cur].target = IF pc \in {"upload", "stored"} THEN Place(snap.decision) ELSE snap.target
FilingAgrees == pc \in FileWaits => Agrees \/ Abandoned(row[cur])
\* A document the analyzer reads, or a walk is for, has no analysis yet.
Unread(r) ==
    /\ r.analysis = None /\ r.state \in {"received", "analyzing", "discarded", "failed", "gone"}
    /\ r.state = "failed" => r.decision = None
AnalyzingSame == pc \in {"walk", "analyze"} => Unread(row[cur]) /\ row[cur].reanalyzed = snap.reanalyzed
PreparingForgot == pc = "prepare" => row[cur].target = None /\ row[cur].prepared = NotPrepared
UploadIsFirst == pc = "upload" => sent[cur] = 0
LookupHasTarget == pc = "lookup" => snap.target = Place(snap.decision)
StoredIsHeld ==
    pc = "stored" =>
        drive[cur] # {} /\ (row[cur].state = "filing" => Stored \in drive[cur])
BegunWithinSnap ==
    pc # "idle" => begun[cur] <= snap.attempts + (IF pc \in {"analyze", "prepare"} THEN 1 ELSE 0)
WorkerInv ==
    /\ FilingAgrees /\ AnalyzingSame /\ PreparingForgot /\ UploadIsFirst /\ LookupHasTarget
    /\ StoredIsHeld /\ BegunWithinSnap

FilingInv == UploadInv /\ AllSound /\ Ledger /\ WorkerInv

\* What a step may not do, all together: overrun a discard, delete the original of
\* a document that is neither filed nor purged, mark it filed over other bytes
\* than it decided on, or break the promise.
OriginalStays(d) ==
    blob[d].original /\ ~blob'[d].original =>
        \/ row[d].state \in {"discarded", "gone"}
        \/ row'[d].state = "filed" /\ drive[d] # {}
FiledRight(d) ==
    row[d].state # "filed" /\ row'[d].state = "filed" =>
        <<Place(row'[d].decision), IF blob[d].prepared = 0 THEN 0 ELSE row'[d].prepared>> \in drive[d]
Careful(d) == OriginalStays(d) /\ FiledRight(d)
PromiseStep == [Promise!Next]_(Promise!promise)
StepOK ==
    /\ \A d \in Docs : Obeys(row[d], row'[d]) /\ Careful(d)
    /\ PromiseStep

LEMMA PhaseStates ==
    ASSUME NEW r, NEW s, Phase(s) = Phase(r)
    PROVE  /\ s.state = "none" <=> r.state = "none"
           /\ s.state = "filed" <=> r.state = "filed"
           /\ s.state = "gone" <=> r.state = "gone"
BY DEF Phase

LEMMA LegalLedger ==
    ASSUME NEW r, NEW s, NEW b, NEW h, NEW n, NEW c, NEW e,
           LedgerOK(r, b, h, n, c), Legal(r, s), BegunIsCounted(s, e)
    PROVE  LedgerOK(s, b, h, n, e)
<1>1. /\ s.state = "none" <=> r.state = "none"
      /\ s.state = "filed" <=> r.state = "filed"
      /\ s.state = "gone" <=> r.state = "gone"
    BY PhaseStates DEF Legal, Level
<1>2. StoredIsTarget(s, b, h, n) BY DEF LedgerOK, StoredIsTarget, Legal, Kept
<1>3. RecordIsBlob(s, b) BY <1>1 DEF LedgerOK, RecordIsBlob, Legal, Kept
<1>4. FiledIsHeld(s, h) BY <1>1 DEF LedgerOK, FiledIsHeld, Legal, Kept
<1>5. UnbornIsEmpty(s, b) BY <1>1 DEF LedgerOK, UnbornIsEmpty
<1> QED BY <1>2, <1>3, <1>4, <1>5 DEF LedgerOK

\* A step that leaves phases, notes, holdings and counts alone is a stutter of the promise.
LEMMA PromiseStutters ==
    ASSUME \A d \in Docs : Level(row[d], row'[d]), UNCHANGED <<drive, sent>>
    PROVE  PromiseStep
<1>1. \A d \in Docs : Phase(row'[d]) = Phase(row[d]) BY DEF Level
<1>2. [d \in Docs |-> Phase(row'[d])] = [d \in Docs |-> Phase(row[d])] BY <1>1
<1>3. \A d \in Docs : (row'[d].state \in {"filed", "gone"} \/ PossiblyInDrive(row'[d]))
                   <=> (row[d].state \in {"filed", "gone"} \/ PossiblyInDrive(row[d]))
    BY DEF Level, Remembered
<1>4. [d \in Docs |-> row'[d].state \in {"filed", "gone"} \/ PossiblyInDrive(row'[d])]
          = [d \in Docs |-> row[d].state \in {"filed", "gone"} \/ PossiblyInDrive(row[d])]
    BY <1>3
<1> QED BY <1>2, <1>4 DEF PromiseStep, Promise!promise

\* A step that writes at most the row, the blobs and the books of one document.
Frame(d) ==
    \A e \in Docs \ {d} :
        UNCHANGED <<row[e], blob[e], drive[e], sent[e], begun[e]>>

LEMMA OneRow ==
    ASSUME AllSound, Ledger, NEW d \in Docs, Frame(d), Sound(row'[d]), Obeys(row[d], row'[d]),
           LedgerOK(row'[d], blob'[d], drive'[d], sent'[d], begun'[d]), Careful(d)
    PROVE  /\ AllSound' /\ Ledger'
           /\ \A e \in Docs : Obeys(row[e], row'[e]) /\ Careful(e)
<1>1. ASSUME NEW e \in Docs, e # d
      PROVE  /\ Sound(row'[e]) /\ LedgerOK(row'[e], blob'[e], drive'[e], sent'[e], begun'[e])
             /\ Obeys(row[e], row'[e]) /\ Careful(e)
    <2>1. UNCHANGED <<row[e], blob[e], drive[e], sent[e], begun[e]>> BY <1>1 DEF Frame
    <2> QED BY <2>1 DEF AllSound, Ledger, Obeys, Careful, OriginalStays, FiledRight
<1> QED BY <1>1 DEF AllSound, Ledger

LEMMA RowFrameOthers ==
    ASSUME TypeOK, NEW d \in Docs, NEW s, SetRow(d, s), UNCHANGED <<blob, drive, sent>>,
           UNCHANGED begun \/ ResetCount(d) \/ BeginCount(d)
    PROVE  Frame(d) /\ row'[d] = s
BY DEF TypeOK, RowsOK, WorldOK, BooksOK, Frame, SetRow, ResetCount, BeginCount

\* A write of one row that the promise does not see.
LEMMA LevelStep ==
    ASSUME TypeOK, AllSound, Ledger, NEW d \in Docs, NEW s, SetRow(d, s),
           Sound(s), Obeys(row[d], s), Level(row[d], s),
           LedgerOK(s, blob[d], drive[d], sent[d], begun'[d]), UNCHANGED <<blob, drive, sent>>,
           UNCHANGED begun \/ ResetCount(d) \/ BeginCount(d)
    PROVE  AllSound' /\ Ledger' /\ StepOK
<1>1. Frame(d) /\ row'[d] = s BY RowFrameOthers
<1>2. Careful(d) BY <1>1, PhaseStates DEF Careful, OriginalStays, FiledRight, Level
<1>3. AllSound' /\ Ledger' /\ \A e \in Docs : Obeys(row[e], row'[e]) /\ Careful(e)
    BY <1>1, <1>2, OneRow
<1>4. \A e \in Docs : Level(row[e], row'[e])
    <2>1. ASSUME NEW e \in Docs, e # d PROVE Level(row[e], row'[e])
        BY <1>1, <2>1 DEF Frame, Level
    <2> QED BY <1>1, <2>1
<1> QED BY <1>3, <1>4, PromiseStutters DEF StepOK

\* Most steps: a legal write of one row, with its attempts counted or reset.
LEMMA LegalStep ==
    ASSUME TypeOK, AllSound, Ledger, NEW d \in Docs, NEW s, SetRow(d, s), Legal(row[d], s),
           UNCHANGED <<blob, drive, sent>>,
           UNCHANGED begun \/ ResetCount(d) \/ BeginCount(d), BegunIsCounted(s, begun'[d])
    PROVE  AllSound' /\ Ledger' /\ StepOK
<1>1. LedgerOK(s, blob[d], drive[d], sent[d], begun'[d]) BY LegalLedger DEF Ledger
<1> QED BY <1>1, LevelStep DEF Legal

\* ... when the write is counted, so that the begun runs stay within the attempts.
LEMMA CountedStep ==
    ASSUME TypeOK, AllSound, Ledger, NEW d \in Docs, NEW s \in Rows, SetRow(d, s), Legal(row[d], s),
           UNCHANGED <<blob, drive, sent>>, UNCHANGED begun, Counted(row[d], s)
    PROVE  AllSound' /\ Ledger' /\ StepOK
<1>1. row[d] \in Rows /\ begun[d] \in Nat BY DEF TypeOK, RowsOK, BooksOK
<1>2. BegunIsCounted(s, begun'[d])
    BY <1>1, RowFields, BoundAssumption DEF Ledger, LedgerOK, BegunIsCounted, Counted
<1> QED BY <1>2, LegalStep

\* ... or its attempts start again.
LEMMA ResetStep ==
    ASSUME TypeOK, AllSound, Ledger, NEW d \in Docs, NEW s \in Rows, SetRow(d, s), Legal(row[d], s),
           UNCHANGED <<blob, drive, sent>>, ResetCount(d)
    PROVE  AllSound' /\ Ledger' /\ StepOK
<1>1. begun'[d] = 0 BY DEF TypeOK, BooksOK, ResetCount
<1>2. BegunIsCounted(s, begun'[d]) BY <1>1, RowFields, BoundAssumption DEF BegunIsCounted
<1> QED BY <1>2, LegalStep

LEMMA UnchangedStep ==
    ASSUME TypeOK, AllSound, Ledger, UNCHANGED <<row, blob, drive, sent, begun>>
    PROVE  AllSound' /\ Ledger' /\ StepOK
<1>1. AllSound' /\ Ledger' BY DEF AllSound, Ledger
<1>2. \A d \in Docs : Obeys(row[d], row'[d]) /\ Careful(d) /\ Level(row[d], row'[d])
    BY DEF Obeys, Careful, OriginalStays, FiledRight, Level
<1> QED BY <1>1, <1>2, PromiseStutters DEF StepOK

-----------------------------------------------------------------------------
(* The worker, while others step.                                          *)

\* What a write of anyone but the worker does to the row the worker waits with.
Outside(r, s) ==
    /\ Abandoned(r) => Abandoned(s)
    /\ r.state = "filing" =>
        \/ Abandoned(s)
        \/ s.state = "filing" /\ s.decision = r.decision /\ s.target = r.target /\ s.prepared = r.prepared
    /\ Unread(r) => Unread(s) /\ s.reanalyzed = r.reanalyzed
    /\ r.target = None => s.target = None
    /\ r.prepared = NotPrepared => s.prepared = NotPrepared

LEMMA IdleWorker == ASSUME Idle PROVE WorkerInv'
BY DEF Idle, WorkerInv, FilingAgrees, AnalyzingSame, PreparingForgot, UploadIsFirst, LookupHasTarget,
       StoredIsHeld, BegunWithinSnap, FileWaits

LEMMA SameOutside == ASSUME NEW r PROVE Outside(r, r)
BY DEF Outside

\* ... and to its blobs and its books.
Beside(d) ==
    /\ Outside(row[d], row'[d])
    /\ row[d].state = "filing" /\ row'[d].state = "filing" => blob'[d] = blob[d]
    /\ sent'[d] \in {sent[d], 0} /\ begun'[d] \in {begun[d], 0}

LEMMA OutsideWorker ==
    ASSUME TypeOK, WorkerInv, UNCHANGED worker, UNCHANGED drive, \A d \in Docs : Beside(d)
    PROVE  WorkerInv'
<1>0. /\ pc # "idle" => cur \in Docs /\ snap \in Rows
      /\ pc' = pc /\ cur' = cur /\ snap' = snap
    BY Held DEF TypeOK, worker
<1>1. FilingAgrees' BY <1>0 DEF WorkerInv, FilingAgrees, FileWaits, SendWaits, Agrees, Beside, Outside, Abandoned
<1>2. AnalyzingSame' BY <1>0 DEF WorkerInv, AnalyzingSame, Beside, Outside
<1>3. PreparingForgot' BY <1>0 DEF WorkerInv, PreparingForgot, Beside, Outside
<1>4. UploadIsFirst' BY <1>0 DEF WorkerInv, UploadIsFirst, Beside
<1>5. LookupHasTarget' BY <1>0 DEF WorkerInv, LookupHasTarget
<1>6. StoredIsHeld'
    <2>1. pc = "stored" /\ row'[cur].state = "filing" => row[cur].state = "filing"
        BY <1>0 DEF WorkerInv, FilingAgrees, FileWaits, Agrees, Beside, Outside, Abandoned
    <2> QED BY <1>0, <2>1 DEF WorkerInv, StoredIsHeld, Stored
<1>7. BegunWithinSnap'
    <2> SUFFICES ASSUME pc # "idle"
                 PROVE  begun'[cur] <= snap.attempts + (IF pc \in {"analyze", "prepare"} THEN 1 ELSE 0)
        BY <1>0 DEF BegunWithinSnap
    <2>1. cur \in Docs /\ snap.attempts \in Nat BY <1>0, RowFields, BoundAssumption
    <2>2. begun[cur] <= snap.attempts + (IF pc \in {"analyze", "prepare"} THEN 1 ELSE 0)
        BY DEF WorkerInv, BegunWithinSnap
    <2>3. begun'[cur] \in {begun[cur], 0} BY <2>1 DEF Beside
    <2> QED BY <2>1, <2>2, <2>3
<1> QED BY <1>1, <1>2, <1>3, <1>4, <1>5, <1>6, <1>7 DEF WorkerInv

LEMMA OneOutside ==
    ASSUME TypeOK, WorkerInv, UNCHANGED worker, UNCHANGED drive, NEW d \in Docs, NEW s, SetRow(d, s),
           Outside(row[d], s), sent' = sent \/ sent' = [sent EXCEPT ![d] = 0], UNCHANGED begun \/ ResetCount(d),
           \/ UNCHANGED blob
           \/ row[d].state # "filing" /\ \A e \in Docs \ {d} : blob'[e] = blob[e]
    PROVE  WorkerInv'
<1>1. \A e \in Docs : Outside(row[e], row'[e])
    BY SameOutside DEF TypeOK, RowsOK, SetRow
<1>2. \A e \in Docs : sent'[e] \in {sent[e], 0} /\ begun'[e] \in {begun[e], 0}
    BY DEF TypeOK, BooksOK, ResetCount
<1>3. ASSUME NEW e \in Docs PROVE Beside(e)
    <2>1. row[e].state = "filing" => blob'[e] = blob[e] OBVIOUS
    <2> QED BY <1>1, <1>2, <2>1 DEF Beside
<1> QED BY <1>3, OutsideWorker

-----------------------------------------------------------------------------
(* step() and the stages up to their first await.                          *)

\* A step of the idle worker that leaves it idle.
LEMMA IdleStays == ASSUME pc = "idle", UNCHANGED worker PROVE WorkerInv'
BY DEF worker, WorkerInv, FilingAgrees, AnalyzingSame, PreparingForgot, UploadIsFirst, LookupHasTarget,
       StoredIsHeld, BegunWithinSnap, FileWaits

LEMMA PromiseDecides ==
    ASSUME \A e \in Docs : Level(row[e], row'[e]), NEW d \in Docs, Phase(row[d]) = "open",
           UNCHANGED drive, sent' = [sent EXCEPT ![d] = 0]
    PROVE  PromiseStep
<1>1. [e \in Docs |-> Phase(row'[e])] = [e \in Docs |-> Phase(row[e])] BY DEF Level
<1>2. \A e \in Docs : (row'[e].state \in {"filed", "gone"} \/ PossiblyInDrive(row'[e]))
                   <=> (row[e].state \in {"filed", "gone"} \/ PossiblyInDrive(row[e]))
    BY DEF Level, Remembered
<1>3. [e \in Docs |-> row'[e].state \in {"filed", "gone"} \/ PossiblyInDrive(row'[e])]
          = [e \in Docs |-> row[e].state \in {"filed", "gone"} \/ PossiblyInDrive(row[e])]
    BY <1>2
<1>4. Promise!Decide(d) BY <1>1, <1>3 DEF Promise!Decide
<1> QED BY <1>4 DEF PromiseStep, Promise!Next

\* A decision: the user's or decide.ts's, over a row that waits for one.
LEMMA DecidedStep ==
    ASSUME TypeOK, AllSound, Ledger, NEW d \in Docs, NEW s \in Rows, SetRow(d, s), Sound(s), Level(row[d], s),
           ~row[d].discardRequested, row[d].state \notin {"none", "filed", "gone"}, s.prepared = row[d].prepared,
           UNCHANGED <<blob, drive>>, sent' = [sent EXCEPT ![d] = 0], ResetCount(d)
    PROVE  AllSound' /\ Ledger' /\ StepOK
<1>1. Frame(d) /\ row'[d] = s /\ sent'[d] = 0 /\ begun'[d] = 0
    BY DEF TypeOK, RowsOK, WorldOK, BooksOK, Frame, SetRow, ResetCount
<1>2. s.state \notin {"none", "filed", "gone"} BY PhaseStates DEF Level
<1>3. LedgerOK(row'[d], blob'[d], drive'[d], sent'[d], begun'[d])
    <2>1. s.attempts \in Nat BY RowFields, BoundAssumption
    <2>2. BegunIsCounted(s, 0) BY <2>1 DEF BegunIsCounted
    <2>3. RecordIsBlob(s, blob[d]) BY DEF Ledger, LedgerOK, RecordIsBlob
    <2>4. StoredIsTarget(s, blob[d], drive[d], 0) /\ FiledIsHeld(s, drive[d]) /\ UnbornIsEmpty(s, blob[d])
        BY <1>2 DEF StoredIsTarget, FiledIsHeld, UnbornIsEmpty
    <2> QED BY <1>1, <2>2, <2>3, <2>4 DEF LedgerOK
<1>4. Obeys(row[d], s) /\ Careful(d) BY <1>1, <1>2 DEF Obeys, Careful, OriginalStays, FiledRight
<1>5. AllSound' /\ Ledger' /\ \A e \in Docs : Obeys(row[e], row'[e]) /\ Careful(e)
    BY <1>1, <1>3, <1>4, OneRow
<1>6. \A e \in Docs : Level(row[e], row'[e])
    <2>1. ASSUME NEW e \in Docs, e # d PROVE Level(row[e], row'[e])
        BY <1>1, <2>1 DEF Frame, Level
    <2> QED BY <1>1, <2>1
<1>7. Phase(row[d]) = "open" BY DEF Phase
<1> QED BY <1>5, <1>6, <1>7, PromiseDecides DEF StepOK

\* The row a stage that runs as `to` leaves.
Started(patched, r, to) == [patched EXCEPT !.state = to, !.attempts = r.attempts + 1]

LEMMA BeginStageFiling ==
    ASSUME TypeOK, AllSound, Ledger, NEW d \in Docs, NEW r \in Rows, NEW to \in {"analyzing", "preparing"},
           NEW patched \in Rows, NEW p, BeginStage(d, r, to, p, patched), UNCHANGED <<blob, drive, sent>>,
           row[d].state \notin {"none", "filed"}, begun[d] <= r.attempts,
           CanMove(row[d], r.state) =>
               /\ Sound(Started(patched, r, to)) /\ Level(row[d], Started(patched, r, to))
               /\ StoredIsTarget(Started(patched, r, to), blob[d], drive[d], sent[d])
               /\ RecordIsBlob(Started(patched, r, to), blob[d])
    PROVE  /\ AllSound' /\ Ledger' /\ StepOK
           /\ \/ Idle
              \/ /\ Wait(p, d, r, live) /\ row'[d] = Started(patched, r, to) /\ begun'[d] = begun[d] + 1
                 /\ CanMove(row[d], r.state)
<1> DEFINE new == Started(patched, r, to)
<1>0. /\ row \in [Docs -> Rows] /\ row[d] \in Rows /\ Sound(row[d]) /\ begun[d] \in Nat
      /\ begun[d] <= row[d].attempts /\ row[d].attempts \in 0..MaxAttempts /\ r.attempts \in 0..MaxAttempts
    BY RowFields DEF TypeOK, RowsOK, BooksOK, AllSound, Ledger, LedgerOK, BegunIsCounted
<1>m. MaxAttempts \in Nat BY BoundAssumption
<1>1. ASSUME NEW x \in Rows, Sound(x), x.state \notin {"none", "filed"}, begun[d] <= x.attempts,
             x.state = "filing" => begun[d] = 0
      PROVE  Legal(x, Failed(x, MaxAttempts)) /\ BegunIsCounted(Failed(x, MaxAttempts), begun[d])
    <2>1. /\ Legal(x, Failed(x, MaxAttempts))
          /\ Failed(x, MaxAttempts).state = "filing" => x.state = "filing"
          /\ Failed(x, MaxAttempts).attempts = x.attempts \/ Failed(x, MaxAttempts).attempts >= MaxAttempts
                \/ Failed(x, MaxAttempts).attempts = MaxAttempts
        BY <1>1, <1>m, FailedLegal
    <2>2. Failed(x, MaxAttempts).attempts \in 0..MaxAttempts /\ x.attempts \in 0..MaxAttempts
        BY <1>m, FailedType, RowFields
    <2> QED BY <1>0, <1>1, <1>m, <2>1, <2>2 DEF BegunIsCounted
<1>2. CASE AttemptsUsed(r)
    <2>1. SetRow(d, Failed(row[d], MaxAttempts)) /\ Idle /\ UNCHANGED begun BY <1>2 DEF BeginStage
    <2>2. row[d].state = "filing" => begun[d] = 0 BY DEF Ledger, LedgerOK, BegunIsCounted
    <2> QED BY <1>0, <1>1, <2>1, <2>2, LegalStep
<1>3. CASE ~AttemptsUsed(r) /\ ~CanMove(row[d], r.state)
    <2>1. SetRow(d, ApplyDiscard(row[d])) /\ Idle /\ UNCHANGED begun BY <1>3 DEF BeginStage
    <2> QED BY <1>0, <2>1, ApplyDiscardLegal, ApplyDiscardType, CountedStep
<1>4. CASE ~AttemptsUsed(r) /\ CanMove(row[d], r.state)
    <2>1. r.attempts + 1 \in 0..MaxAttempts /\ to \in States
        BY <1>4, <1>0, <1>m, StateNames DEF AttemptsUsed
    <2>2. new \in Rows BY <2>1, PatchStateAttempts DEF Started
    <2>3. new.state = to /\ new.attempts = r.attempts + 1 BY DEF Rows, Started
    <2>s. blob[d].original => SetRow(d, new) /\ Wait(p, d, r, live) /\ BeginCount(d)
        BY <1>4 DEF BeginStage, Started
    <2>f. ~blob[d].original => SetRow(d, Failed(new, MaxAttempts)) /\ Idle /\ UNCHANGED begun
        BY <1>4 DEF BeginStage, Started
    <2>4. LedgerOK(new, blob[d], drive[d], sent[d], begun[d])
          /\ LedgerOK(new, blob[d], drive[d], sent[d], begun[d] + 1)
        <3>1. FiledIsHeld(new, drive[d]) /\ UnbornIsEmpty(new, blob[d]) BY <2>3 DEF FiledIsHeld, UnbornIsEmpty
        <3>2. r.attempts \in Nat BY <1>0, <1>m
        <3>3. begun[d] <= r.attempts + 1 /\ begun[d] + 1 <= r.attempts + 1 BY <1>0, <3>2
        <3>4. BegunIsCounted(new, begun[d]) /\ BegunIsCounted(new, begun[d] + 1)
            BY <2>3, <3>3 DEF BegunIsCounted
        <3> QED BY <1>4, <3>1, <3>4 DEF Ledger, LedgerOK
    <2>5. Obeys(row[d], new) /\ Obeys(row[d], Failed(new, MaxAttempts)) BY <1>4 DEF CanMove, Obeys
    <2>6. CASE blob[d].original
        <3>1. SetRow(d, new) /\ Wait(p, d, r, live) /\ BeginCount(d) BY <2>s, <2>6
        <3>2. begun'[d] = begun[d] + 1 /\ row'[d] = new
            BY <3>1 DEF BeginCount, SetRow, TypeOK, BooksOK, RowsOK
        <3>3. AllSound' /\ Ledger' /\ StepOK BY <1>4, <2>4, <2>5, <3>1, <3>2, LevelStep
        <3> QED BY <1>4, <3>1, <3>2, <3>3
    <2>7. CASE ~blob[d].original
        <3>1. SetRow(d, Failed(new, MaxAttempts)) /\ Idle /\ UNCHANGED begun BY <2>f, <2>7
        <3>2. Legal(new, Failed(new, MaxAttempts)) /\ BegunIsCounted(Failed(new, MaxAttempts), begun[d])
            <4>1. begun[d] <= new.attempts BY <2>4 DEF LedgerOK, BegunIsCounted
            <4>2. Sound(new) /\ new.state \notin {"none", "filed"} /\ new.state # "filing" BY <1>4, <2>3
            <4> QED BY <1>1, <2>2, <4>1, <4>2
        <3>3. LedgerOK(Failed(new, MaxAttempts), blob[d], drive[d], sent[d], begun[d])
            BY <2>4, <3>2, LegalLedger
        <3>4. Sound(Failed(new, MaxAttempts)) /\ Level(row[d], Failed(new, MaxAttempts))
            BY <1>4, <3>2 DEF Legal, Level
        <3> QED BY <2>5, <3>1, <3>3, <3>4, LevelStep
    <2> QED BY <2>6, <2>7
<1> QED BY <1>2, <1>3, <1>4

\* Waiting for the analyzer, a walk or the tools: the row as read.
LEMMA WaitsToAnalyze ==
    ASSUME NEW p \in {"walk", "analyze"}, NEW d, NEW r, NEW s, Wait(p, d, r, s),
           Unread(row'[d]), row'[d].reanalyzed = r.reanalyzed,
           begun'[d] <= r.attempts + (IF p = "analyze" THEN 1 ELSE 0)
    PROVE  WorkerInv'
BY DEF Wait, WorkerInv, FilingAgrees, AnalyzingSame, PreparingForgot, UploadIsFirst, LookupHasTarget,
       StoredIsHeld, BegunWithinSnap, FileWaits

LEMMA WaitsToPrepare ==
    ASSUME NEW d, NEW r, NEW s, Wait("prepare", d, r, s),
           row'[d].target = None, row'[d].prepared = NotPrepared, begun'[d] <= r.attempts + 1
    PROVE  WorkerInv'
BY DEF Wait, WorkerInv, FilingAgrees, AnalyzingSame, PreparingForgot, UploadIsFirst, LookupHasTarget,
       StoredIsHeld, BegunWithinSnap, FileWaits

\* A filing stage that waits before it reads the bytes, for the row as read or the one it wrote.
Matches(r, s) ==
    \/ r.state = "filing" /\ Place(r.decision) = Place(s.decision) /\ r.prepared = s.prepared /\ r.target = s.target
    \/ Abandoned(r)
LEMMA WaitsToFile ==
    ASSUME NEW p \in {"rewalk", "folder", "send"}, NEW d, NEW r \in Rows, NEW s, Wait(p, d, r, s),
           Matches(row'[d], r), begun'[d] <= r.attempts
    PROVE  WorkerInv'
<1>1. pc' = p /\ cur' = d /\ snap' = r BY DEF Wait
<1>2. FilingAgrees' BY <1>1 DEF FilingAgrees, Agrees, Matches, SendWaits
<1>3. r.attempts \in Nat BY RowFields, BoundAssumption
<1>4. BegunWithinSnap' BY <1>1, <1>3 DEF BegunWithinSnap
<1> QED BY <1>1, <1>2, <1>4
        DEF WorkerInv, AnalyzingSame, PreparingForgot, UploadIsFirst, LookupHasTarget, StoredIsHeld

LEMMA ResolveFolderWorker ==
    ASSUME NEW d, NEW r \in Rows, NEW s, ResolveFolder(d, r, s), Matches(row'[d], r), begun'[d] <= r.attempts
    PROVE  WorkerInv'
BY WaitsToFile DEF ResolveFolder

LEMMA FileRecheckedFiling ==
    ASSUME TypeOK, AllSound, Ledger, NEW d \in Docs, NEW r \in Rows, NEW t \in Trees \cup {None}, NEW s,
           FileRechecked(d, r, t, s), r.decision # None, Matches(row[d], r), begun[d] <= r.attempts,
           UNCHANGED <<blob, drive, sent, begun>>
    PROVE  AllSound' /\ Ledger' /\ StepOK /\ WorkerInv'
<1> DEFINE path   == CurrentPath(r.decision, t)
           moved  == [r EXCEPT !.decision.path = path]
           review == [row[d] EXCEPT !.state = "needs_review", !.reviewReason = TRUE, !.attempts = 0]
           redone == [row[d] EXCEPT !.decision = moved.decision]
<1>0. /\ row \in [Docs -> Rows] /\ row[d] \in Rows /\ Sound(row[d]) /\ r.decision \in Choices
      /\ begun[d] \in Nat
    BY RowFields DEF TypeOK, RowsOK, BooksOK, AllSound
<1>b. row[d].state = "filing" => begun[d] = 0 BY DEF Ledger, LedgerOK, BegunIsCounted
<1>1. CASE path = Gone
    <2>1. SetRow(d, MoveOrDiscard(row[d], "filing", review)) /\ Idle BY <1>1 DEF FileRechecked
    <2>2. review \in Rows BY <1>0, StateNames, NoneValues, PatchReview
    <2>3. /\ review.state = "needs_review" /\ review.reviewReason /\ review.attempts = 0
          /\ review.target = row[d].target /\ review.unverified = row[d].unverified
          /\ review.discardRequested = row[d].discardRequested
          /\ review.decision = row[d].decision /\ review.prepared = row[d].prepared /\ review.analysis = row[d].analysis
          /\ review.reanalyzed = row[d].reanalyzed /\ review.autoFiled = row[d].autoFiled
        BY <1>0 DEF Rows
    <2> HIDE DEF review
    <2>4. CASE CanMove(row[d], "filing")
        <3>1. StateFits(review) /\ Obeys(row[d], review)
            BY <2>3, <2>4, <1>0 DEF CanMove, Obeys, Sound, StateFits, FilingHasDecision, ApprovalIsForgotten,
                        DecidedIsPrepared, DiscardIsWorking, UnreadHasNoAnalysis
        <3>2. Legal(row[d], review) BY <1>0, <2>2, <2>3, <2>4, <3>1, PatchLegal DEF CanMove
        <3>3. BegunIsCounted(review, begun'[d]) BY <1>b, <2>3, <2>4 DEF BegunIsCounted, CanMove
        <3>4. SetRow(d, review) BY <2>1, <2>4 DEF MoveOrDiscard
        <3> QED BY <2>1, <3>2, <3>3, <3>4, LegalStep, IdleWorker
    <2>5. CASE ~CanMove(row[d], "filing")
        <3>1. SetRow(d, ApplyDiscard(row[d])) BY <2>1, <2>5 DEF MoveOrDiscard
        <3> QED BY <1>0, <2>1, <3>1, ApplyDiscardLegal, ApplyDiscardType, CountedStep, IdleWorker
    <2> QED BY <2>4, <2>5
<1>2. CASE path # Gone /\ path = r.decision.path
    <2>1. UNCHANGED row /\ ResolveFolder(d, r, s) BY <1>2 DEF FileRechecked
    <2> QED BY <2>1, UnchangedStep, ResolveFolderWorker
<1>3. CASE path # Gone /\ path # r.decision.path
    <2>1. path \in Paths BY <1>0, <1>3, ChoiceFields, TreePath DEF CurrentPath
    <2>2. [r.decision EXCEPT !.path = path] \in Choices
        <3> HIDE DEF path
        <3> QED BY <1>0, <2>1, ZenonT(60) DEF Choices
    <2>3. moved = [r EXCEPT !.decision = [r.decision EXCEPT !.path = path]] OBVIOUS
    <2>4. /\ moved \in Rows /\ moved.decision \in Choices /\ moved.decision # None
          /\ Place(moved.decision) = Place(r.decision)
          /\ moved.prepared = r.prepared /\ moved.target = r.target /\ moved.attempts = r.attempts
        <3> HIDE DEF path
        <3>1. moved \in Rows BY <2>2, <2>3, PatchDecision
        <3>2. /\ moved.decision = [r.decision EXCEPT !.path = path]
              /\ moved.prepared = r.prepared /\ moved.target = r.target /\ moved.attempts = r.attempts
            BY <2>3 DEF Rows
        <3>3. Place([r.decision EXCEPT !.path = path]) = Place(r.decision) BY <1>0 DEF Place, Choices
        <3> QED BY <2>2, <3>1, <3>2, <3>3, NoneAssumption
    <2>5. /\ SetRow(d, MoveOrDiscard(row[d], "filing", redone))
          /\ IF CanMove(row[d], "filing") THEN ResolveFolder(d, moved, s) ELSE Idle
        BY <1>3 DEF FileRechecked
    <2> HIDE DEF moved
    <2>6. redone \in Rows BY <1>0, <2>4, PatchDecision
    <2>7. /\ redone.state = row[d].state /\ redone.decision = moved.decision /\ redone.attempts = row[d].attempts
          /\ redone.target = row[d].target /\ redone.unverified = row[d].unverified
          /\ redone.discardRequested = row[d].discardRequested
          /\ redone.prepared = row[d].prepared /\ redone.analysis = row[d].analysis
          /\ redone.reanalyzed = row[d].reanalyzed /\ redone.autoFiled = row[d].autoFiled
          /\ redone.reviewReason = row[d].reviewReason
        BY <1>0 DEF Rows
    <2> HIDE DEF redone
    <2>8. CASE CanMove(row[d], "filing")
        <3>1. SetRow(d, redone) /\ ResolveFolder(d, moved, s) BY <2>5, <2>8 DEF MoveOrDiscard
        <3>2. row[d].state = "filing" /\ ~row[d].discardRequested BY <2>8 DEF CanMove
        <3>3. row[d].decision # None /\ Place(row[d].decision) = Place(r.decision) /\ row[d].prepared = r.prepared
              /\ row[d].target = r.target
            BY <1>0, <3>2 DEF Matches, Abandoned, Sound, StateFits, FilingHasDecision
        <3>4. Sound(redone)
            BY <1>0, <2>4, <2>7, <3>2, <3>3 DEF Sound, StateFits, FilingHasDecision, ApprovalIsForgotten,
                        DecidedIsPrepared, LookIsRemembered, DiscardIsWorking, UnreadHasNoAnalysis
        <3>5. Level(row[d], redone) BY <2>7 DEF Level, Phase, Remembered, PossiblyInDrive
        <3>6. Legal(row[d], redone) BY <2>4, <2>7, <3>2, <3>3, <3>4, <3>5 DEF Legal, Obeys, Kept
        <3>7. BegunIsCounted(redone, begun'[d]) BY <2>7 DEF BegunIsCounted, Ledger, LedgerOK
        <3>8. AllSound' /\ Ledger' /\ StepOK BY <3>1, <3>6, <3>7, LegalStep
        <3>9. Matches(row'[d], moved)
            BY <1>0, <2>4, <2>7, <3>1, <3>2, <3>3 DEF SetRow, Matches
        <3>10. begun'[d] <= moved.attempts BY <2>4
        <3> QED BY <2>4, <3>1, <3>8, <3>9, <3>10, ResolveFolderWorker
    <2>9. CASE ~CanMove(row[d], "filing")
        <3>1. SetRow(d, ApplyDiscard(row[d])) /\ Idle BY <2>5, <2>9 DEF MoveOrDiscard
        <3> QED BY <1>0, <3>1, ApplyDiscardLegal, ApplyDiscardType, CountedStep, IdleWorker
    <2> QED BY <2>8, <2>9
<1> QED BY <1>1, <1>2, <1>3

\* A document that has no tree to be analyzed against goes back to the start.
LEMMA ParkedLegal ==
    ASSUME NEW r \in Rows, Sound(r), r.state \in {"received", "analyzing"}, ~r.discardRequested,
           NEW s, s = [r EXCEPT !.state = "received", !.due = FALSE]
    PROVE  s \in Rows /\ Legal(r, s) /\ Counted(r, s)
<1>f. FALSE \in BOOLEAN OBVIOUS
<1>0. s \in Rows BY <1>f, StateNames, PatchStateDue
<1>1. /\ s.state = "received" /\ s.target = r.target /\ s.unverified = r.unverified
      /\ s.discardRequested = r.discardRequested
      /\ s.decision = r.decision /\ s.prepared = r.prepared /\ s.analysis = r.analysis
      /\ s.reanalyzed = r.reanalyzed /\ s.autoFiled = r.autoFiled /\ s.reviewReason = r.reviewReason
      /\ s.attempts = r.attempts
    BY DEF Rows
<1>2. Counted(r, s) BY <1>1, RowFields, BoundAssumption DEF Counted
<1>3. StateFits(s) /\ Obeys(r, s)
    BY <1>1 DEF Obeys, Sound, StateFits, FilingHasDecision, ApprovalIsForgotten,
                DecidedIsPrepared, DiscardIsWorking, UnreadHasNoAnalysis
<1>4. Legal(r, s) BY <1>0, <1>1, <1>3, PatchLegal
<1> QED BY <1>0, <1>2, <1>4

\* The analyze stage, for a row read as r at once or before a walk.
LEMMA StartsAnalyzing ==
    ASSUME TypeOK, AllSound, Ledger, NEW d \in Docs, NEW r \in Rows,
           BeginStage(d, r, "analyzing", "analyze", row[d]), UNCHANGED <<blob, drive, sent>>,
           row[d].state \notin {"none", "filed"}, begun[d] <= r.attempts,
           CanMove(row[d], r.state) => row[d].state \in {"received", "analyzing"},
           row[d].reanalyzed = r.reanalyzed
    PROVE  AllSound' /\ Ledger' /\ StepOK /\ WorkerInv'
<1> DEFINE q == row[d]
           s == Started(q, r, "analyzing")
<1>0. q \in Rows /\ Sound(q) /\ LedgerOK(q, blob[d], drive[d], sent[d], begun[d])
    BY DEF TypeOK, RowsOK, AllSound, Ledger
<1>2. /\ s.state = "analyzing" /\ s.target = q.target /\ s.unverified = q.unverified
      /\ s.discardRequested = q.discardRequested
      /\ s.decision = q.decision /\ s.prepared = q.prepared /\ s.analysis = q.analysis
      /\ s.reanalyzed = q.reanalyzed /\ s.autoFiled = q.autoFiled /\ s.reviewReason = q.reviewReason
    BY <1>0 DEF Started, Rows
<1>3. ASSUME CanMove(q, r.state)
      PROVE  Sound(s) /\ Level(q, s) /\ StoredIsTarget(s, blob[d], drive[d], sent[d]) /\ RecordIsBlob(s, blob[d])
             /\ Unread(s)
    <2>1. q.state \in {"received", "analyzing"} /\ ~q.discardRequested BY <1>3 DEF CanMove
    <2>2. Sound(s) /\ Level(q, s)
        BY <1>0, <1>2, <2>1 DEF Sound, StateFits, FilingHasDecision, ApprovalIsForgotten, LookIsRemembered,
                DecidedIsPrepared, DiscardIsWorking, UnreadHasNoAnalysis, Level, Phase, Remembered, PossiblyInDrive
    <2>3. StoredIsTarget(s, blob[d], drive[d], sent[d]) /\ RecordIsBlob(s, blob[d])
        BY <1>0, <1>2, <2>1 DEF LedgerOK, StoredIsTarget, RecordIsBlob
    <2>4. Unread(s) BY <1>0, <1>2, <2>1 DEF Unread, Sound, StateFits, UnreadHasNoAnalysis
    <2> QED BY <2>2, <2>3, <2>4
<1>4. /\ AllSound' /\ Ledger' /\ StepOK
      /\ \/ Idle
         \/ /\ Wait("analyze", d, r, live) /\ row'[d] = s /\ begun'[d] = begun[d] + 1
            /\ CanMove(q, r.state)
    BY <1>0, <1>3, BeginStageFiling
<1>5. CASE Idle BY <1>4, <1>5, IdleWorker
<1>6. CASE Wait("analyze", d, r, live) /\ row'[d] = s /\ begun'[d] = begun[d] + 1 /\ CanMove(q, r.state)
    <2>1. Unread(s) /\ s.reanalyzed = r.reanalyzed BY <1>2, <1>3, <1>6
    <2>2. r.attempts \in Nat /\ begun[d] \in Nat BY RowFields, BoundAssumption DEF TypeOK, BooksOK
    <2>3. begun'[d] <= r.attempts + 1 BY <1>6, <2>2
    <2> QED BY <1>4, <1>6, <2>1, <2>3, WaitsToAnalyze
<1> QED BY <1>4, <1>5, <1>6

LEMMA BeginFiling ==
    ASSUME FilingInv, NEW d \in Docs, Begin(d)
    PROVE  AllSound' /\ Ledger' /\ StepOK /\ WorkerInv'
<1> DEFINE r == row[d]
<1>0. /\ TypeOK /\ AllSound /\ Ledger
      /\ row \in [Docs -> Rows] /\ r \in Rows /\ Sound(r) /\ cache \in Trees \cup {None}
      /\ begun[d] <= r.attempts /\ (r.state = "filing" => begun[d] = 0)
    BY DEF FilingInv, UploadInv, TypeOK, RowsOK, WorldOK, AllSound, Ledger, LedgerOK, BegunIsCounted
<1>i. pc = "idle" BY DEF Begin, StepDiscard, AnalyzeParks, AnalyzeWalks, AnalyzeStarts, PrepareKeeps, PrepareStarts,
          DecideAutoFiles, DecideReviews, FileParks, FileDecided, FileRechecks, FileWalks, Files, Runs, Takes
<1>f. TRUE \in BOOLEAN /\ FALSE \in BOOLEAN OBVIOUS
\* A stage that is not filing runs only without a pending discard.
<1>r. ASSUME NEW states, Runs(d, states), "filing" \notin states
      PROVE  r.state \in states /\ ~r.discardRequested /\ r.state \notin {"none", "filed", "gone"}
    BY <1>r, RunsWorkable DEF Runs, PastTarget
<1>1. CASE StepDiscard(d)
    BY <1>0, <1>1, <1>i, ApplyDiscardLegal, ApplyDiscardType, CountedStep, IdleStays DEF StepDiscard, remote, history
<1>2. CASE AnalyzeParks(d)
    <2>1. /\ SetRow(d, [r EXCEPT !.state = "received", !.due = FALSE])
          /\ UNCHANGED <<blob, drive, sent, begun>> /\ UNCHANGED worker
        BY <1>2 DEF AnalyzeParks, remote, history
    <2>2. r.state \in {"received", "analyzing"} /\ ~r.discardRequested BY <1>2, <1>r DEF AnalyzeParks
    <2> QED BY <1>0, <1>i, <2>1, <2>2, ParkedLegal, CountedStep, IdleStays
<1>3. CASE AnalyzeWalks(d)
    <2>1. UNCHANGED <<row, blob, drive, sent, begun>> /\ Wait("walk", d, r, live)
        BY <1>3 DEF AnalyzeWalks, rows, remote, history
    <2>2. r.state \in {"received", "analyzing"} BY <1>3, <1>r DEF AnalyzeWalks
    <2>3. Unread(r) BY <1>0, <2>2 DEF Unread, Sound, StateFits, UnreadHasNoAnalysis
    <2>4. r.attempts + 0 = r.attempts BY <1>0, RowFields, BoundAssumption
    <2> QED BY <1>0, <2>1, <2>3, <2>4, UnchangedStep, WaitsToAnalyze
<1>4. CASE AnalyzeStarts(d)
    <2>1. BeginStage(d, r, "analyzing", "analyze", r) /\ UNCHANGED <<blob, drive, sent>>
        BY <1>4 DEF AnalyzeStarts, remote
    <2>2. r.state \in {"received", "analyzing"} BY <1>4, <1>r DEF AnalyzeStarts
    <2> QED BY <1>0, <2>1, <2>2, StartsAnalyzing
<1>5. CASE PrepareKeeps(d)
    <2> DEFINE s == [r EXCEPT !.state = "ready", !.attempts = 0]
    <2>0. /\ SetRow(d, s) /\ s \in Rows /\ UNCHANGED <<blob, drive, sent>> /\ ResetCount(d) /\ UNCHANGED worker
          /\ r.target # None
        BY <1>0, <1>5, StateNames, NoneValues, PatchStateAttempts DEF PrepareKeeps, remote
    <2>1. /\ s.state = "ready" /\ s.target = r.target /\ s.unverified = r.unverified
          /\ s.discardRequested = r.discardRequested
          /\ s.decision = r.decision /\ s.prepared = r.prepared /\ s.analysis = r.analysis
          /\ s.reanalyzed = r.reanalyzed /\ s.autoFiled = r.autoFiled /\ s.reviewReason = r.reviewReason
        BY <1>0 DEF Rows
    <2>2. r.state \in {"preparing"} /\ ~r.discardRequested BY <1>5, <1>r DEF PrepareKeeps
    <2> HIDE DEF s
    <2>3. StateFits(s) /\ Obeys(r, s)
        BY <1>0, <2>0, <2>1, <2>2 DEF Obeys, Sound, StateFits, FilingHasDecision, ApprovalIsForgotten,
                    DecidedIsPrepared, DiscardIsWorking, UnreadHasNoAnalysis
    <2>4. Legal(r, s) BY <1>0, <2>0, <2>1, <2>2, <2>3, PatchLegal
    <2> QED BY <1>0, <1>i, <2>0, <2>4, ResetStep, IdleStays
<1>6. CASE PrepareStarts(d)
    <2> DEFINE u == Unprepared(r)
               s == Started(u, r, "preparing")
    <2>0. BeginStage(d, r, "preparing", "prepare", u) /\ UNCHANGED <<blob, drive, sent>> /\ r.target = None
        BY <1>6 DEF PrepareStarts, remote
    <2>1. r.state \in {"preparing"} /\ ~r.discardRequested BY <1>6, <1>r DEF PrepareStarts
    <2>u. u \in Rows BY <1>0, NoneValues, StateNames, PatchPrepared DEF Unprepared
    <2>v. /\ u.prepared = NotPrepared /\ u.target = r.target /\ u.unverified = r.unverified
          /\ u.discardRequested = r.discardRequested
          /\ u.decision = r.decision /\ u.analysis = r.analysis
          /\ u.reanalyzed = r.reanalyzed /\ u.autoFiled = r.autoFiled /\ u.reviewReason = r.reviewReason
        BY <1>0 DEF Rows, Unprepared
    <2> HIDE DEF u
    <2>2. /\ s.state = "preparing" /\ s.target = r.target /\ s.unverified = r.unverified
          /\ s.discardRequested = r.discardRequested
          /\ s.decision = r.decision /\ s.prepared = NotPrepared /\ s.analysis = r.analysis
          /\ s.reanalyzed = r.reanalyzed /\ s.autoFiled = r.autoFiled /\ s.reviewReason = r.reviewReason
        BY <2>u, <2>v DEF Started, Rows
    <2>d. r.decision = None BY <1>0, <2>0, <2>1 DEF Sound, StateFits, ApprovalIsForgotten
    <2>5. Sound(s) /\ Level(r, s)
        BY <1>0, <2>0, <2>1, <2>2, <2>d DEF Sound, StateFits, FilingHasDecision, ApprovalIsForgotten,
                LookIsRemembered, DecidedIsPrepared, DiscardIsWorking, UnreadHasNoAnalysis, Level, Phase,
                Remembered, PossiblyInDrive
    <2>6. StoredIsTarget(s, blob[d], drive[d], sent[d]) /\ RecordIsBlob(s, blob[d])
        BY <2>2, <2>d DEF StoredIsTarget, RecordIsBlob
    <2>7. /\ AllSound' /\ Ledger' /\ StepOK
          /\ \/ Idle
             \/ Wait("prepare", d, r, live) /\ row'[d] = s /\ begun'[d] = begun[d] + 1
        BY <1>0, <2>0, <2>1, <2>5, <2>6, <2>u, BeginStageFiling
    <2>8. CASE Idle BY <2>7, <2>8, IdleWorker
    <2>9. CASE Wait("prepare", d, r, live) /\ row'[d] = s /\ begun'[d] = begun[d] + 1
        <3>1. s.target = None /\ s.prepared = NotPrepared BY <2>0, <2>2
        <3>2. r.attempts \in Nat /\ begun[d] \in Nat BY <1>0, RowFields, BoundAssumption DEF TypeOK, BooksOK
        <3>3. begun'[d] <= r.attempts + 1 BY <1>0, <2>9, <3>2
        <3> QED BY <2>7, <2>9, <3>1, <3>3, WaitsToPrepare
    <2> QED BY <2>7, <2>8, <2>9
<1>7. CASE DecideAutoFiles(d)
    <2> DEFINE s == [r EXCEPT !.state = "filing", !.decision = r.analysis.folder, !.autoFiled = TRUE, !.attempts = 0]
    <2>0. /\ SetRow(d, s) /\ UNCHANGED <<blob, drive>> /\ sent' = [sent EXCEPT ![d] = 0] /\ ResetCount(d)
          /\ UNCHANGED worker
          /\ ~r.reviewReason /\ r.analysis # None /\ r.analysis.folder # None
        BY <1>7 DEF DecideAutoFiles, AutoFiles, CanAutoFile, remote
    <2>1. r.state \in {"ready"} /\ ~r.discardRequested BY <1>7, <1>r DEF DecideAutoFiles
    <2>2. r.analysis.folder \in Choices \cup {None} BY <1>0, <2>0, RowFields, AnalysisFolder
    <2>3. s \in Rows BY <1>0, <1>f, <2>2, StateNames, NoneValues, ZenonT(60) DEF Rows
    <2>4. /\ s.state = "filing" /\ s.decision = r.analysis.folder /\ s.target = r.target /\ s.unverified = r.unverified
          /\ s.discardRequested = r.discardRequested /\ s.prepared = r.prepared /\ s.reanalyzed = r.reanalyzed
          /\ s.analysis = r.analysis
        BY <1>0 DEF Rows
    <2> HIDE DEF s
    <2>5. Sound(s) /\ Level(r, s)
        BY <1>0, <2>0, <2>1, <2>4 DEF Sound, StateFits, FilingHasDecision, ApprovalIsForgotten,
                LookIsRemembered, DecidedIsPrepared, DiscardIsWorking, UnreadHasNoAnalysis, Level, Phase,
                Remembered, PossiblyInDrive
    <2> QED BY <1>0, <1>i, <2>0, <2>1, <2>3, <2>4, <2>5, DecidedStep, IdleStays
<1>8. CASE DecideReviews(d)
    <2> DEFINE s == [r EXCEPT !.state = "needs_review", !.reviewReason = TRUE, !.attempts = 0]
    <2>0. SetRow(d, s) /\ s \in Rows /\ UNCHANGED <<blob, drive, sent>> /\ ResetCount(d) /\ UNCHANGED worker
        BY <1>0, <1>8, <1>f, StateNames, NoneValues, PatchReview DEF DecideReviews, remote
    <2>1. /\ s.state = "needs_review" /\ s.target = r.target /\ s.unverified = r.unverified
          /\ s.discardRequested = r.discardRequested
          /\ s.decision = r.decision /\ s.prepared = r.prepared /\ s.analysis = r.analysis
          /\ s.reanalyzed = r.reanalyzed /\ s.autoFiled = r.autoFiled /\ s.reviewReason
        BY <1>0 DEF Rows
    <2>2. r.state \in {"ready"} /\ ~r.discardRequested BY <1>8, <1>r DEF DecideReviews
    <2> HIDE DEF s
    <2>3. StateFits(s) /\ Obeys(r, s)
        BY <1>0, <2>1, <2>2 DEF Obeys, Sound, StateFits, FilingHasDecision, ApprovalIsForgotten,
                    DecidedIsPrepared, DiscardIsWorking, UnreadHasNoAnalysis
    <2>4. Legal(r, s) BY <1>0, <2>0, <2>1, <2>2, <2>3, PatchLegal
    <2> QED BY <1>0, <1>i, <2>0, <2>4, ResetStep, IdleStays
<1>9. CASE FileParks(d)
    <2> DEFINE s == [r EXCEPT !.state = "awaiting_login", !.discardRequested = FALSE]
    <2>0. SetRow(d, s) /\ s \in Rows /\ UNCHANGED <<blob, drive, sent, begun>> /\ UNCHANGED worker
        BY <1>0, <1>9, <1>f, StateNames, PatchStateFlag DEF FileParks, remote, history
    <2>1. /\ s.state = "awaiting_login" /\ s.target = r.target /\ s.unverified = r.unverified
          /\ ~s.discardRequested /\ s.attempts = r.attempts
          /\ s.decision = r.decision /\ s.prepared = r.prepared /\ s.analysis = r.analysis
          /\ s.reanalyzed = r.reanalyzed /\ s.autoFiled = r.autoFiled /\ s.reviewReason = r.reviewReason
        BY <1>0 DEF Rows
    <2>2. r.state = "filing" BY <1>9 DEF FileParks, Runs
    <2> HIDE DEF s
    <2>3. StateFits(s) /\ Obeys(r, s)
        BY <1>0, <2>1, <2>2 DEF Obeys, Sound, StateFits, FilingHasDecision, ApprovalIsForgotten,
                    DecidedIsPrepared, DiscardIsWorking, UnreadHasNoAnalysis
    <2>4. Legal(r, s) BY <1>0, <2>0, <2>1, <2>2, <2>3, PatchLegal
    <2>5. BegunIsCounted(s, begun'[d]) BY <1>0, <2>0, <2>1 DEF BegunIsCounted
    <2> QED BY <1>0, <1>i, <2>0, <2>4, <2>5, LegalStep, IdleStays
<1>10. CASE FileDecided(d)
    <2>1. r.state = "filing" /\ UNCHANGED <<blob, drive, sent, begun>> BY <1>10 DEF FileDecided, Files, Runs, remote, history
    <2>2. r.decision # None BY <1>0, <2>1 DEF Sound, StateFits, FilingHasDecision
    <2>3. UNCHANGED row /\ ResolveFolder(d, r, live) BY <1>10, <2>2 DEF FileDecided
    <2>4. Matches(r, r) BY <2>1 DEF Matches
    <2> QED BY <1>0, <2>1, <2>3, <2>4, UnchangedStep, ResolveFolderWorker
<1>11. CASE FileRechecks(d)
    <2>1. /\ r.state = "filing" /\ UNCHANGED <<blob, drive, sent, begun>> /\ cache # None /\ r.decision # None
          /\ FileRechecked(d, r, cache, live)
        BY <1>11 DEF FileRechecks, Files, Runs, Rechecked, remote, history
    <2>2. Matches(r, r) BY <2>1 DEF Matches
    <2> QED BY <1>0, <2>1, <2>2, FileRecheckedFiling
<1>12. CASE FileWalks(d)
    <2>1. r.state = "filing" /\ UNCHANGED <<row, blob, drive, sent, begun>> /\ Wait("rewalk", d, r, live)
        BY <1>12 DEF FileWalks, Files, Runs, rows, remote, history
    <2>2. Matches(r, r) BY <2>1 DEF Matches
    <2> QED BY <1>0, <2>1, <2>2, UnchangedStep, WaitsToFile
<1> QED BY <1>1, <1>2, <1>3, <1>4, <1>5, <1>6, <1>7, <1>8, <1>9, <1>10, <1>11, <1>12 DEF Begin

-----------------------------------------------------------------------------
(* The routes.                                                             *)

LEMMA RestoredOutside ==
    ASSUME NEW r \in Rows, r.state = "discarded" PROVE Outside(r, Restored(r))
<1> DEFINE k == ForgetApproval(r)
           s == Restored(r)
<1>0. k \in Rows BY ForgetApprovalType
<1>1. /\ k.decision = (IF r.target # None THEN r.decision ELSE None) /\ k.target = r.target
      /\ k.prepared = r.prepared /\ k.analysis = r.analysis /\ k.reanalyzed = r.reanalyzed
    BY ForgetApprovalFields
<1> HIDE DEF k
<1>2. /\ s.state = RestoredState(r) /\ s.target = k.target /\ s.decision = k.decision
      /\ s.prepared = k.prepared /\ s.analysis = k.analysis /\ s.reanalyzed = k.reanalyzed
    BY <1>0 DEF Restored, Rows, k
<1> HIDE DEF s
<1>3. Outside(r, s) BY <1>1, <1>2 DEF Outside, Abandoned, Unread, RestoredState
<1> QED BY <1>3 DEF s

LEMMA RestartedOutside ==
    ASSUME NEW r \in Rows, r.state = "failed" PROVE Outside(r, Restarted(r))
<1> DEFINE s == Restarted(r)
<1>1. /\ s.state = (IF r.decision # None THEN "filing" ELSE IF r.analysis # None THEN "preparing" ELSE "received")
      /\ s.target = r.target /\ s.decision = r.decision
      /\ s.prepared = r.prepared /\ s.analysis = r.analysis /\ s.reanalyzed = r.reanalyzed
    BY DEF Restarted, Rows
<1> HIDE DEF s
<1>2. Outside(r, s) BY <1>1 DEF Outside, Abandoned, Unread
<1> QED BY <1>2 DEF s

\* The same bytes uploaded again withdraw a pending discard.
LEMMA FlagCleared ==
    ASSUME NEW r \in Rows, Sound(r), NEW s, s = [r EXCEPT !.discardRequested = FALSE]
    PROVE  /\ s \in Rows /\ Legal(r, s) /\ Counted(r, s) /\ Outside(r, s) /\ s.state = r.state
           /\ ~s.discardRequested /\ s.target = r.target /\ s.analysis = r.analysis /\ s.reanalyzed = r.reanalyzed
           /\ s.decision = r.decision
<1>f. FALSE \in BOOLEAN OBVIOUS
<1>0. s \in Rows BY <1>f, PatchFlag
<1>1. /\ s.state = r.state /\ s.target = r.target /\ s.unverified = r.unverified /\ ~s.discardRequested
      /\ s.decision = r.decision /\ s.prepared = r.prepared /\ s.analysis = r.analysis
      /\ s.reanalyzed = r.reanalyzed /\ s.autoFiled = r.autoFiled /\ s.reviewReason = r.reviewReason
      /\ s.attempts = r.attempts
    BY DEF Rows
<1>2. Sound(s)
    BY <1>1 DEF Sound, StateFits, FilingHasDecision, ApprovalIsForgotten, DecidedIsPrepared, LookIsRemembered,
            DiscardIsWorking, UnreadHasNoAnalysis
<1>3. Level(r, s) BY <1>1 DEF Level, Phase, Remembered, PossiblyInDrive
<1>4. Obeys(r, s) /\ Kept(r, s) /\ Outside(r, s) BY <1>1 DEF Obeys, Kept, Outside, Abandoned, Unread
<1>5. Counted(r, s) BY <1>1, RowFields, BoundAssumption DEF Counted
<1> QED BY <1>0, <1>1, <1>2, <1>3, <1>4, <1>5 DEF Legal

\* A write together with the original's bytes.
LEMMA UploadedStep ==
    ASSUME TypeOK, AllSound, Ledger, NEW d \in Docs, NEW s, SetRow(d, s), Sound(s), Obeys(row[d], s),
           blob' = [blob EXCEPT ![d].original = TRUE] \/ UNCHANGED blob, s.state # "filed",
           LedgerOK(s, blob'[d], drive[d], sent'[d], begun'[d]), UNCHANGED drive,
           UNCHANGED sent \/ sent' = [sent EXCEPT ![d] = 0], UNCHANGED begun \/ ResetCount(d)
    PROVE  /\ AllSound' /\ Ledger'
           /\ \A e \in Docs : Obeys(row[e], row'[e]) /\ Careful(e)
<1>1. Frame(d) /\ row'[d] = s
    BY DEF TypeOK, RowsOK, WorldOK, BooksOK, Frame, SetRow, ResetCount
<1>2. Careful(d) BY <1>1 DEF Careful, OriginalStays, FiledRight, TypeOK, RowsOK, Blobs
<1> QED BY <1>1, <1>2, OneRow

\* A lost original is put back, which counts as a decision; one that is there stays.
LEMMA PutsBackLedger ==
    ASSUME TypeOK, NEW d \in Docs, PutsBack(d), NEW s, NEW c, s.state # "none",
           LedgerOK(s, blob[d], drive[d], sent[d], c)
    PROVE  /\ LedgerOK(s, blob'[d], drive[d], sent'[d], c)
           /\ IF blob[d].original THEN sent' = sent ELSE sent' = [sent EXCEPT ![d] = 0]
           /\ blob' = [blob EXCEPT ![d].original = TRUE]
<1>0. blob \in [Docs -> Blobs] /\ sent \in [Docs -> Nat] BY DEF TypeOK, RowsOK, BooksOK
<1>1. blob'[d].prepared = blob[d].prepared BY <1>0 DEF PutsBack, Blobs
<1>2. blob[d].original => blob'[d] = blob[d] /\ sent'[d] = sent[d] BY <1>0 DEF PutsBack, Blobs
<1>3. ~blob[d].original => sent'[d] = 0 BY <1>0 DEF PutsBack
<1>4. StoredIsTarget(s, blob'[d], drive[d], sent'[d]) BY <1>2, <1>3 DEF LedgerOK, StoredIsTarget
<1>5. RecordIsBlob(s, blob'[d]) BY <1>1 DEF LedgerOK, RecordIsBlob
<1> QED BY <1>2, <1>3, <1>4, <1>5 DEF LedgerOK, UnbornIsEmpty, PutsBack

\* The inbox takes a document: the promise's Take.
LEMMA PromiseTakes ==
    ASSUME TypeOK, UploadInv, NEW d \in Docs, row[d].state = "none", SetRow(d, [NewRow EXCEPT !.state = "received"]),
           UNCHANGED <<drive, sent>>
    PROVE  PromiseStep
<1> DEFINE s == [NewRow EXCEPT !.state = "received"]
<1>1. /\ row \in [Docs -> Rows] /\ row[d] = NewRow
    BY DEF UploadInv, UnbornIsBlank, TypeOK, RowsOK
<1>2. s.state = "received" /\ s.target = None /\ s.unverified = FALSE BY DEF NewRow
<1>3. row' = [row EXCEPT ![d] = s] BY DEF SetRow
<1> HIDE DEF s
<1>4. Phase(row[d]) = "none" /\ Phase(s) = "open" BY <1>1, <1>2 DEF Phase, NewRow
<1>5. [e \in Docs |-> Phase(row'[e])] = [[e \in Docs |-> Phase(row[e])] EXCEPT ![d] = "open"]
    BY <1>1, <1>3, <1>4
<1>6. \A e \in Docs : (row'[e].state \in {"filed", "gone"} \/ PossiblyInDrive(row'[e]))
                  <=> (row[e].state \in {"filed", "gone"} \/ PossiblyInDrive(row[e]))
    <2>1. ASSUME NEW e \in Docs, e # d PROVE row'[e] = row[e] BY <1>1, <1>3, <2>1
    <2>2. row'[d] = s BY <1>1, <1>3
    <2>3. ~(s.state \in {"filed", "gone"} \/ PossiblyInDrive(s)) BY <1>2 DEF PossiblyInDrive
    <2>4. ~(row[d].state \in {"filed", "gone"} \/ PossiblyInDrive(row[d])) BY <1>1 DEF PossiblyInDrive, NewRow
    <2> QED BY <2>1, <2>2, <2>3, <2>4
<1>7. [e \in Docs |-> row'[e].state \in {"filed", "gone"} \/ PossiblyInDrive(row'[e])]
          = [e \in Docs |-> row[e].state \in {"filed", "gone"} \/ PossiblyInDrive(row[e])]
    BY <1>6
<1>8. Promise!Take(d) BY <1>4, <1>5, <1>7 DEF Promise!Take
<1> QED BY <1>8 DEF PromiseStep, Promise!Next

LEMMA TakenLedger ==
    ASSUME FilingInv, NEW d \in Docs, row[d].state = "none", NEW b \in Blobs,
           NEW s, s = [NewRow EXCEPT !.state = "received"]
    PROVE  /\ Sound(s) /\ Obeys(row[d], s) /\ Outside(row[d], s)
           /\ LedgerOK(s, b, drive[d], sent[d], begun[d])
<1>1. row[d] = NewRow BY DEF FilingInv, UploadInv, UnbornIsBlank
<1>2. /\ s.state = "received" /\ s.target = None /\ s.decision = None /\ s.prepared = NotPrepared
      /\ s.analysis = None /\ s.attempts = 0 /\ s.reanalyzed = FALSE /\ s.discardRequested = FALSE
    BY DEF NewRow
<1>3. Sound(s) BY <1>2 DEF Sound, StateFits, FilingHasDecision, ApprovalIsForgotten, DecidedIsPrepared,
            LookIsRemembered, DiscardIsWorking, UnreadHasNoAnalysis
<1>4. Obeys(row[d], s) /\ Outside(row[d], s)
    BY <1>1, <1>2 DEF Obeys, Outside, Abandoned, Unread, NewRow
<1>5. begun[d] <= 0 /\ sent[d] <= 1 BY <1>1 DEF FilingInv, Ledger, LedgerOK, BegunIsCounted, NewRow
<1>6. LedgerOK(s, b, drive[d], sent[d], begun[d])
    BY <1>2, <1>5 DEF LedgerOK, StoredIsTarget, RecordIsBlob, FiledIsHeld, UnbornIsEmpty, BegunIsCounted
<1> QED BY <1>3, <1>4, <1>6

LEMMA RouteFiling ==
    ASSUME FilingInv, NEW d \in Docs, Route(d)
    PROVE  AllSound' /\ Ledger' /\ StepOK /\ WorkerInv'
<1> DEFINE r == row[d]
<1>0. /\ TypeOK /\ AllSound /\ Ledger /\ WorkerInv /\ UploadInv
      /\ row \in [Docs -> Rows] /\ r \in Rows /\ Sound(r) /\ cache \in Trees \cup {None}
      /\ blob[d] \in Blobs /\ LedgerOK(r, blob[d], drive[d], sent[d], begun[d])
    BY DEF FilingInv, UploadInv, TypeOK, RowsOK, WorldOK, AllSound, Ledger
<1>f. TRUE \in BOOLEAN /\ FALSE \in BOOLEAN OBVIOUS
<1>1. CASE Upload(d)
    <2> DEFINE s == [NewRow EXCEPT !.state = "received"]
    <2>0. /\ r.state = "none" /\ SetRow(d, s) /\ blob' = [blob EXCEPT ![d].original = TRUE]
          /\ UNCHANGED <<drive, sent, begun>> /\ UNCHANGED worker
        BY <1>1 DEF Upload, remote, history
    <2>1. blob'[d] \in Blobs /\ begun'[d] = begun[d] BY <1>0, <2>0, <1>f DEF TypeOK, RowsOK, Blobs
    <2>2. /\ Sound(s) /\ Obeys(r, s) /\ Outside(r, s) /\ LedgerOK(s, blob'[d], drive[d], sent[d], begun'[d])
        BY <2>0, <2>1, TakenLedger
    <2>3. PromiseStep BY <1>0, <2>0, PromiseTakes
    <2>s. s.state # "filed" BY DEF NewRow
    <2> HIDE DEF s
    <2>4. /\ AllSound' /\ Ledger'
          /\ \A e \in Docs : Obeys(row[e], row'[e]) /\ Careful(e)
        BY <1>0, <2>0, <2>2, <2>s, UploadedStep
    <2>b. \A e \in Docs \ {d} : blob'[e] = blob[e] BY <1>0, <2>0 DEF TypeOK, RowsOK
    <2>5. WorkerInv' BY <1>0, <2>0, <2>2, <2>b, OneOutside
    <2> QED BY <2>3, <2>4, <2>5 DEF StepOK
<1>2. CASE UploadAgain(d)
    <2> DEFINE kept == [r EXCEPT !.discardRequested = FALSE]
    <2>0. /\ r.state \notin {"none", "gone", "discarded"} /\ UNCHANGED drive /\ UNCHANGED worker
          /\ IF kept.state = "failed"
             THEN SetRow(d, Restarted(kept)) /\ ResetCount(d) /\ PutsBack(d)
             ELSE SetRow(d, kept) /\ UNCHANGED <<blob, sent, begun>>
        BY <1>2 DEF UploadAgain, remote, history
    <2>1. /\ kept \in Rows /\ Legal(r, kept) /\ Counted(r, kept) /\ Outside(r, kept) /\ kept.state = r.state
          /\ ~kept.discardRequested /\ kept.target = r.target /\ kept.analysis = r.analysis
          /\ kept.reanalyzed = r.reanalyzed /\ kept.decision = r.decision
        BY <1>0, FlagCleared
    <2> HIDE DEF kept
    <2>2. CASE kept.state = "failed"
        <3> DEFINE s == Restarted(kept)
        <3>1. Legal(kept, s) /\ Outside(kept, s) /\ s \in Rows
            BY <2>1, <2>2, RestartedLegal, RestartedOutside, RestartedType DEF Legal
        <3>2. SetRow(d, s) /\ ResetCount(d) /\ PutsBack(d) BY <2>0, <2>2
        <3> HIDE DEF s
        <3>3. Outside(r, s) BY <2>1, <2>2, <3>1 DEF Outside, Abandoned, Unread
        <3>4. Sound(s) /\ Level(r, s) BY <2>1, <3>1 DEF Legal, Level
        <3>5. Obeys(r, s)
            BY <1>0, <2>1, <2>2 DEF Obeys, Sound, StateFits, DiscardIsWorking, Working
        <3>6. begun'[d] = 0 BY <1>0, <3>2 DEF ResetCount, TypeOK, BooksOK
        <3>7. s.attempts \in Nat BY <3>1, RowFields, BoundAssumption
        <3>8. LedgerOK(s, blob[d], drive[d], sent[d], 0)
            <4>1. BegunIsCounted(s, 0) BY <3>7 DEF BegunIsCounted
            <4>2. BegunIsCounted(kept, begun[d])
                <5>1. begun[d] \in Nat /\ r.attempts \in Nat /\ kept.attempts \in Nat
                    BY <1>0, <2>1, RowFields, BoundAssumption DEF TypeOK, BooksOK
                <5>2. begun[d] <= r.attempts /\ kept.attempts >= r.attempts
                    BY <1>0, <2>1 DEF BegunIsCounted, LedgerOK, Counted
                <5> QED BY <2>2, <5>1, <5>2 DEF BegunIsCounted
            <4>3. LedgerOK(kept, blob[d], drive[d], sent[d], begun[d]) BY <1>0, <2>1, <4>2, LegalLedger
            <4> QED BY <3>1, <4>1, <4>3, LegalLedger
        <3>9. s.state \notin {"none", "filed", "gone"}
            BY <2>2, <3>1, PhaseStates DEF Legal, Level
        <3>10. /\ LedgerOK(s, blob'[d], drive[d], sent'[d], begun'[d])
               /\ IF blob[d].original THEN sent' = sent ELSE sent' = [sent EXCEPT ![d] = 0]
               /\ blob' = [blob EXCEPT ![d].original = TRUE]
            BY <1>0, <3>2, <3>6, <3>8, <3>9, PutsBackLedger
        <3>11. /\ AllSound' /\ Ledger'
               /\ \A e \in Docs : Obeys(row[e], row'[e]) /\ Careful(e)
            BY <1>0, <2>0, <3>2, <3>4, <3>5, <3>9, <3>10, UploadedStep
        <3>12. \A e \in Docs : Level(row[e], row'[e])
            BY <1>0, <3>2, <3>4 DEF SetRow, Level
        <3>13. PromiseStep
            <4>1. Phase(r) = "open" BY <2>1, <2>2 DEF Phase
            <4> QED BY <2>0, <3>10, <3>12, <4>1, PromiseStutters, PromiseDecides
        <3>14. WorkerInv'
            <4>1. r.state # "filing" /\ \A e \in Docs \ {d} : blob'[e] = blob[e]
                BY <1>0, <2>1, <2>2, <3>10 DEF TypeOK, RowsOK
            <4> QED BY <1>0, <2>0, <3>2, <3>3, <3>10, <4>1, OneOutside
        <3> QED BY <3>11, <3>13, <3>14 DEF StepOK
    <2>3. CASE kept.state # "failed"
        BY <1>0, <2>0, <2>1, <2>3, CountedStep, OneOutside
    <2> QED BY <2>2, <2>3
<1>3. ASSUME NEW asked \in Places \cup {None}, Approve(d, asked)
      PROVE  AllSound' /\ Ledger' /\ StepOK /\ WorkerInv'
    <2> DEFINE want == IF asked # None THEN asked ELSE Place(r.analysis.folder)
               path == cache[want[1]]
               c    == [folder |-> want[1], path |-> path, new |-> want[2], made |-> FALSE]
               s    == [r EXCEPT !.state = "filing", !.autoFiled = FALSE, !.attempts = 0, !.due = TRUE, !.decision = c]
    <2>1. want \in Places
        <3>1. CASE asked # None BY <3>1
        <3>2. CASE asked = None
            <4>1. r.analysis \in Analyses \cup {None} /\ r.analysis # None /\ r.analysis.folder # None
                BY <1>0, <1>3, <3>2, RowFields DEF Approve
            <4>2. r.analysis.folder \in Choices BY <4>1, AnalysisFolder
            <4> QED BY <3>2, <4>2, PlaceType
        <3> QED BY <3>1, <3>2
    <2>2. want[1] \in Folders /\ want[2] \in BOOLEAN BY <2>1 DEF Places
    <2>3. cache \in Trees /\ path # Gone BY <1>0, <1>3 DEF Approve
    <2>4. path \in Paths BY <2>2, <2>3, TreePath
    <2>5. c \in Choices
        <3> HIDE DEF want, path
        <3> QED BY <1>f, <2>2, <2>4 DEF Choices
    <2>6. SetRow(d, s) BY <1>3 DEF Approve
    <2> HIDE DEF c
    <2>7. s \in Rows
        <3>1. "filing" \in States /\ c \in Choices \cup {None} BY <2>5, StateNames
        <3> QED BY <1>0, <1>f, <3>1, NoneValues, ZenonT(60) DEF Rows
    <2>8. /\ s.state = "filing" /\ s.decision = c /\ ~s.autoFiled /\ s.target = r.target /\ s.unverified = r.unverified
          /\ s.discardRequested = r.discardRequested /\ s.prepared = r.prepared /\ s.reanalyzed = r.reanalyzed
          /\ s.analysis = r.analysis /\ s.reviewReason = r.reviewReason
        BY <1>0 DEF Rows
    <2>9. /\ r.state = "needs_review" /\ ~r.discardRequested /\ UNCHANGED <<blob, drive>> /\ UNCHANGED worker
          /\ sent' = [sent EXCEPT ![d] = 0] /\ ResetCount(d)
        BY <1>3 DEF Approve, CanMove, remote
    <2> HIDE DEF s
    <2>10. c # None BY <2>5, NoneAssumption
    <2>11. Sound(s) /\ Level(r, s) /\ Outside(r, s)
        BY <1>0, <2>8, <2>9, <2>10 DEF Sound, StateFits, FilingHasDecision, ApprovalIsForgotten,
                LookIsRemembered, DecidedIsPrepared, DiscardIsWorking, UnreadHasNoAnalysis, Level, Phase,
                Remembered, PossiblyInDrive, Outside, Abandoned, Unread
    <2> QED BY <1>0, <2>6, <2>7, <2>8, <2>9, <2>11, DecidedStep, OneOutside
<1>4. CASE Reanalyze(d)
    <2> DEFINE s == [r EXCEPT !.state = "received", !.reanalyzed = TRUE, !.analysis = None,
                      !.decision = None, !.reviewReason = FALSE, !.prepared = NotPrepared,
                      !.autoFiled = FALSE, !.attempts = 0, !.due = TRUE]
    <2>0. /\ r.state = "needs_review" /\ ~r.discardRequested /\ r.target = None /\ SetRow(d, s)
          /\ UNCHANGED <<blob, drive, sent>> /\ UNCHANGED worker /\ ResetCount(d)
        BY <1>4 DEF Reanalyze, CanMove, PossiblyInDrive, remote
    <2>1. /\ s.state = "received" /\ s.decision = None /\ ~s.autoFiled /\ s.target = r.target
          /\ s.unverified = r.unverified /\ s.analysis = None
          /\ s.discardRequested = r.discardRequested /\ s.prepared = NotPrepared /\ s.attempts = 0
        BY <1>0 DEF Rows
    <2> HIDE DEF s
    <2>2. Sound(s) /\ Level(r, s) /\ Outside(r, s) /\ Obeys(r, s)
        BY <2>0, <2>1 DEF Sound, StateFits, FilingHasDecision, ApprovalIsForgotten,
                LookIsRemembered, DecidedIsPrepared, DiscardIsWorking, UnreadHasNoAnalysis, Level, Phase,
                Remembered, PossiblyInDrive, Outside, Abandoned, Unread, Obeys
    <2>3. begun'[d] = 0 BY <1>0, <2>0 DEF ResetCount, TypeOK, BooksOK
    <2>4. LedgerOK(s, blob[d], drive[d], sent[d], begun'[d])
        BY <1>0, <2>1, <2>3 DEF LedgerOK, StoredIsTarget, RecordIsBlob, FiledIsHeld, UnbornIsEmpty, BegunIsCounted
    <2> QED BY <1>0, <2>0, <2>2, <2>4, LevelStep, OneOutside
<1>5. CASE DiscardNow(d)
    <2> DEFINE s == [r EXCEPT !.state = "discarded", !.discardRequested = FALSE]
    <2>0. /\ r.state \in Resting /\ SetRow(d, s) /\ UNCHANGED <<blob, drive, sent, begun>> /\ UNCHANGED worker
          /\ s \in Rows
        BY <1>0, <1>5, <1>f, StateNames, PatchStateFlag DEF DiscardNow, remote, history
    <2>1. /\ s.state = "discarded" /\ s.target = r.target /\ s.unverified = r.unverified
          /\ ~s.discardRequested /\ s.attempts = r.attempts
          /\ s.decision = r.decision /\ s.prepared = r.prepared /\ s.analysis = r.analysis
          /\ s.reanalyzed = r.reanalyzed /\ s.autoFiled = r.autoFiled /\ s.reviewReason = r.reviewReason
        BY <1>0 DEF Rows
    <2> HIDE DEF s
    <2>2. StateFits(s) /\ Obeys(r, s)
        BY <1>0, <2>1 DEF Obeys, Sound, StateFits, FilingHasDecision, ApprovalIsForgotten,
                    DecidedIsPrepared, DiscardIsWorking, UnreadHasNoAnalysis
    <2>3. Legal(r, s) BY <1>0, <2>0, <2>1, <2>2, PatchLegal DEF Resting
    <2>4. Counted(r, s) BY <1>0, <2>1, RowFields, BoundAssumption DEF Counted
    <2>5. Outside(r, s) BY <2>0, <2>1 DEF Outside, Abandoned, Unread, Resting
    <2> QED BY <1>0, <2>0, <2>3, <2>4, <2>5, CountedStep, OneOutside
<1>6. CASE RequestDiscard(d)
    <2> DEFINE b == r.due \/ ~PastTarget(r)
               s == [r EXCEPT !.discardRequested = TRUE, !.due = b]
    <2>0. r.state \in Working /\ SetRow(d, s) /\ UNCHANGED <<blob, drive, sent, begun>> /\ UNCHANGED worker
        BY <1>6 DEF RequestDiscard, remote, history
    <2>b. b \in BOOLEAN BY <1>0, RowFields
    <2> HIDE DEF b
    <2>c. s \in Rows BY <1>0, <1>f, <2>b, PatchFlagDue
    <2>1. /\ s.state = r.state /\ s.target = r.target /\ s.unverified = r.unverified /\ s.attempts = r.attempts
          /\ s.decision = r.decision /\ s.prepared = r.prepared /\ s.analysis = r.analysis
          /\ s.reanalyzed = r.reanalyzed /\ s.autoFiled = r.autoFiled /\ s.reviewReason = r.reviewReason
        BY <1>0 DEF Rows
    <2> HIDE DEF s
    <2>2. StateFits(s) /\ Obeys(r, s)
        BY <1>0, <2>0, <2>1 DEF Obeys, Sound, StateFits, FilingHasDecision, ApprovalIsForgotten,
                    DecidedIsPrepared, DiscardIsWorking, UnreadHasNoAnalysis
    <2>3. Legal(r, s) BY <1>0, <2>0, <2>1, <2>2, <2>c, PatchLegal DEF Working
    <2>4. Counted(r, s) BY <1>0, <2>1, RowFields, BoundAssumption DEF Counted
    <2>5. Outside(r, s) BY <2>0, <2>1 DEF Outside, Abandoned, Unread, Working
    <2> QED BY <1>0, <2>0, <2>3, <2>4, <2>5, <2>c, CountedStep, OneOutside
<1>7. CASE Restore(d)
    <2>1. /\ r.state = "discarded" /\ SetRow(d, Restored(r)) /\ ResetCount(d)
          /\ UNCHANGED <<blob, drive, sent>> /\ UNCHANGED worker
        BY <1>7 DEF Restore, CanMove, remote
    <2> QED BY <1>0, <2>1, RestoredLegal, RestoredOutside, RestoredType, ResetStep, OneOutside
<1>8. CASE Retry(d)
    <2>1. /\ r.state = "failed" /\ SetRow(d, Restarted(r)) /\ ResetCount(d)
          /\ UNCHANGED <<blob, drive, sent>> /\ UNCHANGED worker
        BY <1>8 DEF Retry, CanMove, remote
    <2> QED BY <1>0, <2>1, RestartedLegal, RestartedOutside, RestartedType, ResetStep, OneOutside
<1> QED BY <1>1, <1>2, <1>3, <1>4, <1>5, <1>6, <1>7, <1>8 DEF Route

-----------------------------------------------------------------------------
(* The answers the worker waits for.                                       *)

\* What every answer finds.
LEMMA HeldRow ==
    ASSUME FilingInv, pc # "idle"
    PROVE  /\ TypeOK /\ AllSound /\ Ledger /\ WorkerInv /\ row \in [Docs -> Rows]
           /\ cur \in Docs /\ snap \in Rows /\ sess \in 0..MaxLogins /\ row[cur] \in Rows /\ Sound(row[cur])
           /\ LedgerOK(row[cur], blob[cur], drive[cur], sent[cur], begun[cur])
           /\ row[cur].state \notin {"none", "filed"} /\ snap.state \in Workable
           /\ begun[cur] \in Nat /\ sent[cur] \in Nat
BY Held DEF FilingInv, UploadInv, HeldIsOpen, TypeOK, RowsOK, BooksOK, AllSound, Ledger

LEMMA ThrowLegal ==
    ASSUME FilingInv, pc # "idle"
    PROVE  LET s == Failed(row[cur], snap.attempts + 1) IN
           s \in Rows /\ Legal(row[cur], s) /\ BegunIsCounted(s, begun[cur])
<1> DEFINE r == row[cur]
           s == Failed(r, snap.attempts + 1)
<1>0. /\ cur \in Docs /\ snap \in Rows /\ r \in Rows /\ Sound(r) /\ r.state \notin {"none", "filed"}
      /\ BegunIsCounted(r, begun[cur]) /\ begun[cur] \in Nat
    BY HeldRow DEF LedgerOK
<1>1. snap.attempts \in Nat /\ snap.attempts + 1 \in Nat /\ r.attempts \in 0..MaxAttempts /\ MaxAttempts \in Nat
    BY <1>0, RowFields, BoundAssumption
<1>2. s \in Rows BY <1>0, <1>1, FailedType
<1>3. /\ Legal(r, s) /\ (s.state = "filing" => r.state = "filing")
      /\ s.attempts = r.attempts \/ s.attempts >= snap.attempts + 1 \/ s.attempts = MaxAttempts
    BY <1>0, <1>1, FailedLegal
<1>4. begun[cur] <= snap.attempts + 1
    <2>1. begun[cur] <= snap.attempts + (IF pc \in {"analyze", "prepare"} THEN 1 ELSE 0)
        BY HeldRow DEF WorkerInv, BegunWithinSnap
    <2> QED BY <1>0, <1>1, <2>1
<1>5. begun[cur] <= r.attempts BY <1>0 DEF BegunIsCounted
<1>6. s.attempts \in 0..MaxAttempts BY <1>2, RowFields
<1> HIDE DEF s
<1>7. begun[cur] <= s.attempts BY <1>0, <1>1, <1>3, <1>4, <1>5, <1>6
<1>8. BegunIsCounted(s, begun[cur]) BY <1>0, <1>3, <1>7 DEF BegunIsCounted
<1> QED BY <1>2, <1>3, <1>8 DEF s

LEMMA ThrowFiling ==
    ASSUME FilingInv, pc # "idle", StageThrows(cur, snap.attempts + 1), UNCHANGED <<blob, drive, sent, begun>>
    PROVE  AllSound' /\ Ledger' /\ StepOK /\ WorkerInv'
<1>1. BegunIsCounted(Failed(row[cur], snap.attempts + 1), begun'[cur]) BY ThrowLegal
<1>2. SetRow(cur, Failed(row[cur], snap.attempts + 1)) /\ Idle BY DEF StageThrows
<1> QED BY <1>1, <1>2, HeldRow, ThrowLegal, LegalStep, IdleWorker

\* The prepared blob is written or removed, whatever becomes of the row, as long as
\* the row describes no blob.
LEMMA PutStep ==
    ASSUME TypeOK, AllSound, Ledger, NEW d \in Docs, NEW s, SetRow(d, s), Legal(row[d], s),
           BegunIsCounted(s, begun[d]), row[d].prepared = NotPrepared, row[d].state # "none",
           NEW k, blob' = [blob EXCEPT ![d].prepared = k], UNCHANGED <<drive, sent, begun>>
    PROVE  AllSound' /\ Ledger' /\ StepOK
<1>1. /\ Frame(d) /\ row'[d] = s /\ blob'[d].original = blob[d].original
    BY DEF TypeOK, RowsOK, WorldOK, BooksOK, Frame, SetRow, Blobs
<1>2. LedgerOK(s, blob[d], drive[d], sent[d], begun[d]) BY LegalLedger DEF Ledger
<1>3. RecordIsBlob(s, blob'[d]) /\ StoredIsTarget(s, blob'[d], drive[d], sent[d])
    <2>1. s.prepared = NotPrepared BY DEF Legal, Kept
    <2>2. s.decision = None BY <2>1 DEF Legal, Sound, StateFits, DecidedIsPrepared
    <2> QED BY <2>1, <2>2 DEF RecordIsBlob, StoredIsTarget
<1>4. UnbornIsEmpty(s, blob'[d]) BY PhaseStates DEF UnbornIsEmpty, Legal, Level
<1>5. LedgerOK(row'[d], blob'[d], drive'[d], sent'[d], begun'[d]) BY <1>1, <1>2, <1>3, <1>4 DEF LedgerOK
<1>6. Careful(d) BY <1>1, PhaseStates DEF Careful, OriginalStays, FiledRight, Legal, Level
<1>7. AllSound' /\ Ledger' /\ \A e \in Docs : Obeys(row[e], row'[e]) /\ Careful(e)
    BY <1>1, <1>5, <1>6, OneRow DEF Legal
<1>8. \A e \in Docs : Level(row[e], row'[e])
    <2>1. ASSUME NEW e \in Docs, e # d PROVE Level(row[e], row'[e])
        BY <1>1, <2>1 DEF Frame, Level
    <2> QED BY <1>1, <2>1 DEF Legal
<1> QED BY <1>7, <1>8, PromiseStutters DEF StepOK

\* One row's note or phase changes as an action of the promise says.
LEMMA PromiseRow ==
    ASSUME row \in [Docs -> Rows], NEW d \in Docs, NEW s, SetRow(d, s), UNCHANGED <<drive, sent>>, Phase(row[d]) = "open",
           \/ Phase(s) = "open" /\ Remembered(s)
           \/ Phase(s) = "filed" /\ Remembered(row[d]) /\ drive[d] # {}
           \/ Phase(s) = "gone"
    PROVE  PromiseStep
<1>1. row' = [row EXCEPT ![d] = s] BY DEF SetRow
<1>2. [e \in Docs |-> Phase(row'[e])] = [[e \in Docs |-> Phase(row[e])] EXCEPT ![d] = Phase(s)]
    BY <1>1
<1> DEFINE N(r) == r.state \in {"filed", "gone"} \/ PossiblyInDrive(r)
<1>3. [e \in Docs |-> N(row'[e])] = [[e \in Docs |-> N(row[e])] EXCEPT ![d] = N(s)]
    <2> HIDE DEF N
    <2> QED BY <1>1
<1>n. N(s) = Remembered(s) /\ N(row[d]) = Remembered(row[d]) BY DEF Remembered
<1>4. CASE Phase(s) = "open" /\ Remembered(s)
    <2>1. N(s) = TRUE BY <1>4, <1>n
    <2>2. [[e \in Docs |-> Phase(row[e])] EXCEPT ![d] = Phase(s)] = [e \in Docs |-> Phase(row[e])]
        <3> HIDE DEF N
        <3> QED BY <1>4
    <2>3. [e \in Docs |-> Phase(row'[e])] = [e \in Docs |-> Phase(row[e])] BY <1>2, <2>2
    <2>4. [e \in Docs |-> N(row'[e])] = [[e \in Docs |-> N(row[e])] EXCEPT ![d] = TRUE] BY <1>3, <2>1
    <2>5. Promise!Note(d) BY <2>3, <2>4 DEF Promise!Note
    <2> QED BY <2>5 DEF PromiseStep, Promise!Next
<1>5. CASE Phase(s) = "filed" /\ Remembered(row[d]) /\ drive[d] # {}
    <2>1. N(s) = TRUE /\ N(row[d]) = TRUE BY <1>5, <1>n DEF Phase
    <2>2. [[e \in Docs |-> N(row[e])] EXCEPT ![d] = TRUE] = [e \in Docs |-> N(row[e])]
        <3> HIDE DEF N
        <3> QED BY <2>1
    <2>3. [e \in Docs |-> Phase(row'[e])] = [[e \in Docs |-> Phase(row[e])] EXCEPT ![d] = "filed"] BY <1>2, <1>5
    <2>4. [e \in Docs |-> N(row'[e])] = [e \in Docs |-> N(row[e])] BY <1>3, <2>1, <2>2
    <2>5. Promise!File(d) BY <1>5, <2>3, <2>4 DEF Promise!File
    <2> QED BY <2>5 DEF PromiseStep, Promise!Next
<1>6. CASE Phase(s) = "gone"
    <2>1. N(s) = TRUE BY <1>6 DEF Phase
    <2>2. [e \in Docs |-> Phase(row'[e])] = [[e \in Docs |-> Phase(row[e])] EXCEPT ![d] = "gone"] BY <1>2, <1>6
    <2>3. [e \in Docs |-> N(row'[e])] = [[e \in Docs |-> N(row[e])] EXCEPT ![d] = TRUE] BY <1>3, <2>1
    <2>4. Promise!Delete(d) BY <2>2, <2>3 DEF Promise!Delete
    <2> QED BY <2>4 DEF PromiseStep, Promise!Next
<1> QED BY <1>4, <1>5, <1>6

\* What is sent for a row still in filing is what that row decided and what its
\* inbox holds.
LEMMA StoredIsRecorded ==
    ASSUME FilingInv, pc \in FileWaits, row[cur].state = "filing"
    PROVE  /\ Agrees /\ row[cur].decision \in Choices /\ snap.decision \in Choices
           /\ Place(row[cur].decision) = Place(snap.decision) /\ Place(snap.decision) # None
           /\ row[cur].decision # None /\ row[cur].prepared # NotPrepared
           /\ blob[cur].prepared \in {0, row[cur].prepared}
           /\ pc \in SendWaits =>
                  blob[cur] # NoBlob /\ Stored = <<Place(row[cur].decision), blob[cur].prepared>>
<1> DEFINE r == row[cur]
<1>0. /\ pc # "idle" BY DEF FileWaits
<1>1. /\ r \in Rows /\ Sound(r) /\ LedgerOK(r, blob[cur], drive[cur], sent[cur], begun[cur]) /\ WorkerInv /\ snap \in Rows
    BY <1>0, HeldRow
<1>2. Agrees BY <1>1 DEF WorkerInv, FilingAgrees, Abandoned
<1>3. r.decision # None /\ r.prepared # NotPrepared
    BY <1>1 DEF Sound, StateFits, FilingHasDecision, DecidedIsPrepared
<1>4. snap.decision # None BY DEF FilingInv, UploadInv, TypeOK, WorkerOK
<1>5. r.decision \in Choices /\ snap.decision \in Choices BY <1>1, <1>3, <1>4, RowFields
<1>6. Place(snap.decision) # None BY <1>5, PlaceType, NoneAssumption
<1>7. Place(r.decision) = Place(snap.decision) BY <1>2 DEF Agrees
<1>8. blob[cur].prepared \in {0, r.prepared} BY <1>1, <1>3 DEF LedgerOK, RecordIsBlob
<1>9. pc \in SendWaits => blob[cur] # NoBlob /\ Stored = <<Place(r.decision), blob[cur].prepared>>
    BY <1>2, <1>7 DEF Agrees, Stored
<1> QED BY <1>2, <1>3, <1>5, <1>6, <1>7, <1>8, <1>9

\* The bytes read for a row still in filing are the inbox's, and there are some.
LEMMA ReadIsBlob ==
    ASSUME FilingInv, pc = "send", row[cur].state = "filing", ~(Bytes(cur, snap) = 0 /\ ~blob[cur].original)
    PROVE  blob[cur] # NoBlob /\ Read.prepared = blob[cur].prepared
<1>1. pc \in FileWaits /\ pc \notin SendWaits BY DEF FileWaits, SendWaits
<1>2. Agrees /\ row[cur].prepared # NotPrepared BY <1>1, StoredIsRecorded
<1>3. snap.prepared # NotPrepared BY <1>1, <1>2 DEF Agrees
<1>4. Bytes(cur, snap) = blob[cur].prepared BY <1>3 DEF Bytes
<1>5. TypeOK BY DEF FilingInv, UploadInv
<1>6. Read.prepared = Bytes(cur, snap) BY <1>5, ReadType
<1>7. blob[cur] # NoBlob BY <1>4 DEF NoBlob
<1> QED BY <1>4, <1>6, <1>7

LEMMA SetTargetFiling ==
    ASSUME FilingInv, pc \in {"send", "lookup"}, NEW x \in Rows, SetTarget(x),
           x.decision = snap.decision, x.attempts = snap.attempts,
           row[cur].state = "filing" =>
               sent[cur] = 0 /\ blob[cur] # NoBlob /\ x.prepared = blob[cur].prepared,
           UNCHANGED <<blob, drive, sent, begun>>
    PROVE  AllSound' /\ Ledger' /\ StepOK /\ WorkerInv'
<1> DEFINE r == row[cur]
           s == [r EXCEPT !.target = Place(snap.decision)]
<1>i. pc # "idle" /\ pc \in FileWaits BY DEF FileWaits
<1>0. /\ TypeOK /\ AllSound /\ Ledger /\ WorkerInv /\ row \in [Docs -> Rows]
      /\ cur \in Docs /\ r \in Rows /\ Sound(r) /\ snap \in Rows
      /\ LedgerOK(r, blob[cur], drive[cur], sent[cur], begun[cur])
    BY <1>i, HeldRow
<1>1. CASE r.state = "filing" /\ (r.discardRequested => snap.target # None)
    <2>1. /\ Agrees /\ r.decision \in Choices /\ Place(r.decision) = Place(snap.decision) /\ Place(snap.decision) # None
        BY <1>1, <1>i, StoredIsRecorded
    <2>2. SetRow(cur, s) /\ Wait("upload", cur, x, sess)
        BY <1>1 DEF SetTarget, Targeted, KeepGoing
    <2>3. /\ s.state = r.state /\ s.target = Place(snap.decision) /\ s.unverified = r.unverified
          /\ s.discardRequested = r.discardRequested /\ s.attempts = r.attempts
          /\ s.decision = r.decision /\ s.prepared = r.prepared /\ s.analysis = r.analysis
          /\ s.reanalyzed = r.reanalyzed /\ s.autoFiled = r.autoFiled /\ s.reviewReason = r.reviewReason
        BY <1>0 DEF Rows
    <2> HIDE DEF s
    <2>4. r.decision # None BY <1>0, <1>1 DEF Sound, StateFits, FilingHasDecision
    <2>5. Sound(s)
        BY <1>0, <1>1, <2>1, <2>3, <2>4 DEF Sound, StateFits, FilingHasDecision, ApprovalIsForgotten,
                LookIsRemembered, DecidedIsPrepared, DiscardIsWorking, UnreadHasNoAnalysis
    <2>6. Obeys(r, s) BY <1>1, <1>i, <2>1 DEF Obeys, PastTarget, Agrees
    <2>7. LedgerOK(s, blob[cur], drive[cur], sent[cur], begun[cur])
        BY <1>0, <1>1, <2>3 DEF LedgerOK, StoredIsTarget, RecordIsBlob, FiledIsHeld, UnbornIsEmpty, BegunIsCounted
    <2>8. Frame(cur) /\ row'[cur] = s BY <1>0, <2>2, RowFrameOthers
    <2>9. Careful(cur) BY <1>1, <2>3, <2>8 DEF Careful, OriginalStays, FiledRight
    <2>10. AllSound' /\ Ledger' /\ \A e \in Docs : Obeys(row[e], row'[e]) /\ Careful(e)
        BY <1>0, <2>5, <2>6, <2>7, <2>8, <2>9, OneRow
    <2>11. PromiseStep
        <3>1. Phase(r) = "open" /\ Phase(s) = "open" BY <1>1, <2>3 DEF Phase
        <3>2. Remembered(s) BY <2>1, <2>3 DEF Remembered, PossiblyInDrive
        <3> QED BY <1>0, <2>2, <3>1, <3>2, PromiseRow
    <2>12. WorkerInv'
        <3>1. pc' = "upload" /\ cur' = cur /\ snap' = x BY <2>2 DEF Wait
        <3>2. FilingAgrees' BY <1>1, <2>1, <2>3, <2>8, <3>1 DEF FilingAgrees, Agrees, SendWaits
        <3>3. UploadIsFirst' BY <1>1, <3>1 DEF UploadIsFirst
        <3>4. BegunWithinSnap' BY <1>0, <1>i, <3>1 DEF WorkerInv, BegunWithinSnap
        <3> QED BY <3>1, <3>2, <3>3, <3>4 DEF WorkerInv, AnalyzingSame, PreparingForgot, LookupHasTarget, StoredIsHeld
    <2> QED BY <2>10, <2>11, <2>12 DEF StepOK
<1>2. CASE ~(r.state = "filing" /\ (r.discardRequested => snap.target # None))
    <2>1. SetRow(cur, ApplyDiscard(r)) /\ Idle BY <1>2 DEF SetTarget
    <2> QED BY <1>0, <2>1, ApplyDiscardLegal, ApplyDiscardType, CountedStep, IdleWorker
<1> QED BY <1>1, <1>2

\* A delete that was cut short leaves nothing that the row does not record.
LEMMA RemainsLedger ==
    ASSUME NEW r, NEW b \in Blobs, NEW h, NEW n, NEW c, NEW x \in Remains(b), r.state # "none",
           LedgerOK(r, b, h, n, c)
    PROVE  LedgerOK(r, x, h, n, c)
<1>1. \/ x = b
      \/ x = NoBlob
      \/ b # NoBlob /\ x.prepared = b.prepared
    BY DEF Remains, Blobs, NoBlob
<1>2. StoredIsTarget(r, x, h, n) BY <1>1 DEF LedgerOK, StoredIsTarget
<1>3. RecordIsBlob(r, x) BY <1>1 DEF LedgerOK, RecordIsBlob, NoBlob
<1> QED BY <1>2, <1>3 DEF LedgerOK, UnbornIsEmpty

LEMMA DeleteIsCut ==
    ASSUME NEW d, blob' = [blob EXCEPT ![d] = NoBlob] PROVE DeleteCut(d)
BY DEF DeleteCut, Remains

\* The answer that the file is in Drive.
LEMMA FiledFiling ==
    ASSUME FilingInv, Answered, SetRow(cur, FiledRow(row[cur])), Idle, UNCHANGED <<drive, sent, begun>>,
           IF row[cur].state = "filing" THEN DeleteCut(cur) ELSE UNCHANGED blob
    PROVE  AllSound' /\ Ledger' /\ StepOK /\ WorkerInv'
<1> DEFINE r == row[cur]
           s == [r EXCEPT !.state = "filed", !.discardRequested = FALSE]
<1>i. pc # "idle" /\ pc \in FileWaits /\ pc \in {"stored", "lookup"} BY DEF FileWaits, Answered
<1>0. /\ TypeOK /\ AllSound /\ Ledger /\ WorkerInv /\ row \in [Docs -> Rows]
      /\ cur \in Docs /\ r \in Rows /\ Sound(r) /\ snap \in Rows
      /\ LedgerOK(r, blob[cur], drive[cur], sent[cur], begun[cur])
    BY <1>i, HeldRow
<1>1. CASE r.state # "filing"
    <2>1. SetRow(cur, r) /\ UNCHANGED blob BY <1>1 DEF FiledRow, KeepGoing
    <2>2. UNCHANGED row BY <1>0, <2>1 DEF SetRow
    <2> QED BY <1>0, <2>1, <2>2, UnchangedStep, IdleWorker
<1>2. CASE r.state = "filing"
    <2>1. /\ Agrees /\ Place(r.decision) = Place(snap.decision) /\ Place(snap.decision) # None
          /\ r.prepared # NotPrepared /\ blob[cur].prepared \in {0, r.prepared}
          /\ Stored = <<Place(r.decision), blob[cur].prepared>>
        BY <1>2, <1>i, StoredIsRecorded DEF SendWaits
    <2>2. SetRow(cur, s) BY <1>2 DEF FiledRow, KeepGoing
    <2>3. /\ s.state = "filed" /\ s.target = r.target /\ s.unverified = r.unverified
          /\ ~s.discardRequested /\ s.attempts = r.attempts
          /\ s.decision = r.decision /\ s.prepared = r.prepared /\ s.analysis = r.analysis
          /\ s.reanalyzed = r.reanalyzed /\ s.autoFiled = r.autoFiled /\ s.reviewReason = r.reviewReason
        BY <1>0 DEF Rows
    <2> HIDE DEF s
    <2>4. <<Place(r.decision), blob[cur].prepared>> \in drive[cur]
        <3>1. CASE pc = "stored"
            BY <1>0, <1>2, <2>1, <3>1 DEF WorkerInv, StoredIsHeld
        <3>2. CASE pc # "stored" BY <2>1, <3>2 DEF Answered
        <3> QED BY <3>1, <3>2
    <2>5. r.target # None
        BY <1>0, <1>i, <2>1 DEF Agrees, WorkerInv, LookupHasTarget
    <2>6. Sound(s)
        BY <1>0, <1>2, <2>3, <2>5 DEF Sound, StateFits, FilingHasDecision, ApprovalIsForgotten,
                LookIsRemembered, DecidedIsPrepared, DiscardIsWorking, UnreadHasNoAnalysis
    <2>7. Obeys(r, s) BY <1>2, <2>5 DEF Obeys, PastTarget
    <2>b. PICK b \in Remains(blob[cur]) : blob' = [blob EXCEPT ![cur] = b] BY <1>2 DEF DeleteCut
    <2>c. blob'[cur] = b /\ \A e \in Docs \ {cur} : blob'[e] = blob[e] BY <1>0, <2>b DEF TypeOK, RowsOK
    <2>d. LedgerOK(r, b, drive[cur], sent[cur], begun[cur])
        BY <1>0, <1>2, RemainsLedger DEF TypeOK, RowsOK
    <2>8. LedgerOK(s, blob'[cur], drive[cur], sent[cur], begun[cur])
        BY <1>0, <2>3, <2>4, <2>c, <2>d DEF LedgerOK, StoredIsTarget, RecordIsBlob, FiledIsHeld, UnbornIsEmpty, BegunIsCounted
    <2>9. Frame(cur) /\ row'[cur] = s
        BY <1>0, <2>2, <2>c DEF TypeOK, RowsOK, WorldOK, BooksOK, Frame, SetRow
    <2>10. Careful(cur) BY <2>1, <2>3, <2>4, <2>9 DEF Careful, OriginalStays, FiledRight
    <2>11. AllSound' /\ Ledger' /\ \A e \in Docs : Obeys(row[e], row'[e]) /\ Careful(e)
        BY <1>0, <2>6, <2>7, <2>8, <2>9, <2>10, OneRow
    <2>12. Phase(r) = "open" /\ Phase(s) = "filed" /\ Remembered(r)
        BY <1>2, <2>3, <2>5 DEF Phase, Remembered, PossiblyInDrive
    <2>13. PromiseStep BY <1>0, <2>2, <2>4, <2>12, PromiseRow
    <2> QED BY <2>11, <2>13, IdleWorker DEF StepOK
<1> QED BY <1>1, <1>2

\* The row the analyzer's answer leaves.
Analyzed(r, forget, a, reason) ==
    [(IF forget THEN ForgetApproval(r) ELSE r)
        EXCEPT !.state = "preparing", !.analysis = a, !.attempts = 0, !.reviewReason = reason]

LEMMA AnalyzedLegal ==
    ASSUME NEW r \in Rows, Sound(r), NEW forget \in BOOLEAN, NEW a \in Analyses \cup {None}, NEW reason \in BOOLEAN,
           r.state = "analyzing", ~r.discardRequested, r.reanalyzed => reason
    PROVE  Analyzed(r, forget, a, reason) \in Rows /\ Legal(r, Analyzed(r, forget, a, reason))
<1> DEFINE k == IF forget THEN ForgetApproval(r) ELSE r
           s == Analyzed(r, forget, a, reason)
<1>0. k \in Rows BY ForgetApprovalType
<1>1. /\ \/ k.decision = r.decision /\ k.autoFiled = r.autoFiled
         \/ k.decision = None /\ k.autoFiled = FALSE
      /\ k.target = r.target /\ k.unverified = r.unverified
      /\ k.discardRequested = r.discardRequested /\ k.prepared = r.prepared /\ k.reanalyzed = r.reanalyzed
    <2>1. CASE forget BY <2>1, ForgetApprovalFields
    <2>2. CASE ~forget BY <2>2
    <2> QED BY <2>1, <2>2
<1> HIDE DEF k
<1>2. s = [k EXCEPT !.state = "preparing", !.analysis = a, !.attempts = 0, !.reviewReason = reason]
    BY DEF Analyzed, k
<1>3. /\ s.state = "preparing" /\ s.analysis = a /\ s.reviewReason = reason
      /\ s.target = k.target /\ s.unverified = k.unverified /\ s.discardRequested = k.discardRequested
      /\ s.decision = k.decision /\ s.prepared = k.prepared
      /\ s.reanalyzed = k.reanalyzed /\ s.autoFiled = k.autoFiled
    BY <1>0, <1>2 DEF Rows
<1>4. s \in Rows BY <1>0, <1>2, StateNames, NoneValues, ZenonT(60) DEF Rows
<1> HIDE DEF s
<1>5. Sound(s)
    BY <1>1, <1>3 DEF Sound, StateFits, FilingHasDecision, ApprovalIsForgotten, LookIsRemembered,
                DecidedIsPrepared, DiscardIsWorking, UnreadHasNoAnalysis
<1>6. Level(r, s) BY <1>1, <1>3 DEF Level, Phase, Remembered, PossiblyInDrive
<1>7. Obeys(r, s) /\ Kept(r, s) BY <1>1, <1>3 DEF Obeys, Kept
<1> QED BY <1>4, <1>5, <1>6, <1>7 DEF Legal, s

LEMMA ContinueFiling ==
    ASSUME FilingInv, Continue
    PROVE  AllSound' /\ Ledger' /\ StepOK /\ WorkerInv'
<1> DEFINE r == row[cur]
<1>h. pc # "idle" =>
          /\ TypeOK /\ AllSound /\ Ledger /\ WorkerInv /\ row \in [Docs -> Rows]
          /\ cur \in Docs /\ snap \in Rows /\ sess \in 0..MaxLogins /\ r \in Rows /\ Sound(r)
          /\ LedgerOK(r, blob[cur], drive[cur], sent[cur], begun[cur])
          /\ r.state \notin {"none", "filed"} /\ snap.state \in Workable
    BY HeldRow
<1>f. TRUE \in BOOLEAN /\ FALSE \in BOOLEAN OBVIOUS
<1>1. CASE AnalyzeAfterWalk
    <2> DEFINE s == [r EXCEPT !.state = "received", !.due = FALSE]
    <2>0. /\ pc = "walk" /\ UNCHANGED <<blob, drive, sent>>
          /\ TypeOK /\ AllSound /\ Ledger /\ row \in [Docs -> Rows] /\ cur \in Docs /\ snap \in Rows
          /\ r \in Rows /\ Sound(r) /\ r.state \notin {"none", "filed"} /\ snap.state \in Workable
        BY <1>1, <1>h DEF AnalyzeAfterWalk, remote
    <2>1. PICK t \in Trees \cup {cache} :
            IF t = None
            THEN /\ SetRow(cur, IF CanMove(r, snap.state) THEN s ELSE r) /\ Idle /\ UNCHANGED begun
            ELSE BeginStage(cur, snap, "analyzing", "analyze", r)
        BY <1>1 DEF AnalyzeAfterWalk
    <2>2. Unread(r) /\ r.reanalyzed = snap.reanalyzed BY <1>h, <2>0 DEF WorkerInv, AnalyzingSame
    <2>3. CanMove(r, snap.state) => r.state \in {"received", "analyzing"} /\ ~r.discardRequested
        BY <2>0, <2>2 DEF CanMove, Unread, Workable
    <2>4. CASE t = None
        <3>1. CanMove(r, snap.state) => s \in Rows /\ Legal(r, s) /\ Counted(r, s) BY <2>0, <2>3, ParkedLegal
        <3> DEFINE n == IF CanMove(r, snap.state) THEN s ELSE r
        <3> HIDE DEF s
        <3>2. n \in Rows /\ Legal(r, n) /\ Counted(r, n) BY <2>0, <3>1, SameLegal
        <3>3. SetRow(cur, n) /\ Idle /\ UNCHANGED begun BY <2>1, <2>4
        <3> QED BY <2>0, <3>2, <3>3, CountedStep, IdleWorker
    <2>5. CASE t # None
        <3>1. BeginStage(cur, snap, "analyzing", "analyze", r) BY <2>1, <2>5
        <3>2. begun[cur] <= snap.attempts
            <4>1. begun[cur] <= snap.attempts + 0 BY <1>h, <2>0 DEF WorkerInv, BegunWithinSnap
            <4>2. snap.attempts \in Nat BY <2>0, RowFields, BoundAssumption
            <4> QED BY <4>1, <4>2
        <3> QED BY <2>0, <2>2, <2>3, <3>1, <3>2, StartsAnalyzing
    <2> QED BY <2>4, <2>5
<1>2. CASE AnalyzeAnswers
    <2>0. /\ pc = "analyze" /\ Idle /\ UNCHANGED <<blob, drive, sent>>
          /\ TypeOK /\ AllSound /\ Ledger /\ cur \in Docs /\ snap \in Rows /\ r \in Rows /\ Sound(r)
        BY <1>2, <1>h DEF AnalyzeAnswers, remote
    <2>1. PICK a \in Analyses \cup {None} :
            /\ SetRow(cur, MoveOrDiscard(r, "analyzing",
                    [(IF snap.target # None THEN r ELSE ForgetApproval(r))
                        EXCEPT !.state = "preparing", !.analysis = a, !.attempts = 0,
                               !.reviewReason = ReanalysisReason(a, snap)]))
            /\ IF CanMove(r, "analyzing") THEN ResetCount(cur) ELSE UNCHANGED begun
        BY <1>2 DEF AnalyzeAnswers
    <2> DEFINE forget == snap.target = None
               reason == ReanalysisReason(a, snap)
               s == Analyzed(r, forget, a, reason)
    <2>2. SetRow(cur, MoveOrDiscard(r, "analyzing", s)) BY <2>1 DEF Analyzed
    <2>3. forget \in BOOLEAN /\ reason \in BOOLEAN /\ (r.reanalyzed => reason)
        <3>1. r.reanalyzed = snap.reanalyzed BY <1>h, <2>0 DEF WorkerInv, AnalyzingSame
        <3>2. snap.reanalyzed \in BOOLEAN BY <2>0, RowFields
        <3> QED BY <3>1, <3>2 DEF ReanalysisReason
    <2> HIDE DEF forget, reason
    <2>4. CASE CanMove(r, "analyzing")
        <3>1. s \in Rows /\ Legal(r, s) BY <2>0, <2>3, <2>4, AnalyzedLegal DEF CanMove
        <3>2. SetRow(cur, s) /\ ResetCount(cur) BY <2>1, <2>2, <2>4 DEF MoveOrDiscard
        <3> HIDE DEF s
        <3> QED BY <2>0, <3>1, <3>2, ResetStep, IdleWorker
    <2>5. CASE ~CanMove(r, "analyzing")
        <3>1. SetRow(cur, ApplyDiscard(r)) /\ UNCHANGED begun BY <2>1, <2>2, <2>5 DEF MoveOrDiscard
        <3> QED BY <2>0, <3>1, ApplyDiscardLegal, ApplyDiscardType, CountedStep, IdleWorker
    <2> QED BY <2>4, <2>5
<1>3. CASE AnalyzeThrows
    <2>1. pc # "idle" BY <1>3 DEF AnalyzeThrows
    <2> QED BY <1>3, <2>1, ThrowFiling DEF AnalyzeThrows, remote, history
<1>4. CASE PrepareEnds
    <2>0. /\ pc = "prepare" /\ Idle /\ CanMove(r, "preparing") /\ ResetCount(cur) /\ UNCHANGED <<drive, sent>>
          /\ TypeOK /\ AllSound /\ Ledger /\ row \in [Docs -> Rows] /\ cur \in Docs /\ r \in Rows /\ Sound(r)
          /\ LedgerOK(r, blob[cur], drive[cur], sent[cur], begun[cur])
        BY <1>4, <1>h DEF PrepareEnds, remote
    <2>1. PICK k \in 0..MaxRuns :
            /\ blob' = [blob EXCEPT ![cur].prepared = k]
            /\ SetRow(cur, [r EXCEPT !.state = "ready", !.prepared = k, !.attempts = 0])
        BY <1>4 DEF PrepareEnds, PutPrepared
    <2> DEFINE s == [r EXCEPT !.state = "ready", !.prepared = k, !.attempts = 0]
    <2>2. SetRow(cur, s) BY <2>1
    <2>3. /\ s.state = "ready" /\ s.target = r.target /\ s.unverified = r.unverified
          /\ s.discardRequested = r.discardRequested /\ s.attempts = 0
          /\ s.decision = r.decision /\ s.prepared = k /\ s.analysis = r.analysis
          /\ s.reanalyzed = r.reanalyzed /\ s.autoFiled = r.autoFiled /\ s.reviewReason = r.reviewReason
        BY <2>0 DEF Rows
    <2> HIDE DEF s
    <2>4. k # NotPrepared BY <2>1, BoundAssumption DEF NotPrepared
    <2>5. r.target = None BY <1>h, <2>0 DEF WorkerInv, PreparingForgot
    <2>6. Sound(s) /\ Obeys(r, s) /\ Level(r, s)
        BY <2>0, <2>3, <2>4, <2>5 DEF CanMove, Sound, StateFits, FilingHasDecision, ApprovalIsForgotten,
                LookIsRemembered, DecidedIsPrepared, DiscardIsWorking, UnreadHasNoAnalysis, Obeys, Level, Phase,
                Remembered, PossiblyInDrive
    <2>7. /\ Frame(cur) /\ row'[cur] = s /\ begun'[cur] = 0 /\ blob'[cur].prepared = k
          /\ blob'[cur].original = blob[cur].original
        BY <2>0, <2>1, <2>2 DEF TypeOK, RowsOK, WorldOK, BooksOK, Frame, SetRow, ResetCount, Blobs
    <2>8. s.decision = None BY <2>6, <2>3, <2>5 DEF Sound, StateFits, ApprovalIsForgotten
    <2>9. LedgerOK(s, blob'[cur], drive[cur], sent[cur], 0)
        BY <2>0, <2>3, <2>7, <2>8 DEF LedgerOK, StoredIsTarget, RecordIsBlob, FiledIsHeld, UnbornIsEmpty, BegunIsCounted
    <2>10. Careful(cur) BY <2>3, <2>7 DEF Careful, OriginalStays, FiledRight
    <2>11. LedgerOK(row'[cur], blob'[cur], drive'[cur], sent'[cur], begun'[cur]) BY <2>0, <2>7, <2>9
    <2>12. AllSound' /\ Ledger' /\ \A e \in Docs : Obeys(row[e], row'[e]) /\ Careful(e)
        BY <2>0, <2>6, <2>7, <2>10, <2>11, OneRow
    <2>13. \A e \in Docs : Level(row[e], row'[e])
        <3>1. ASSUME NEW e \in Docs, e # cur PROVE Level(row[e], row'[e])
            BY <2>7, <3>1 DEF Frame, Level
        <3> QED BY <2>6, <2>7, <3>1
    <2> QED BY <2>0, <2>12, <2>13, PromiseStutters, IdleWorker DEF StepOK
<1>5. CASE PrepareDropped
    <2>0. /\ pc = "prepare" /\ Idle /\ UNCHANGED <<drive, sent, begun>> /\ SetRow(cur, ApplyDiscard(r))
          /\ blob' = [blob EXCEPT ![cur].prepared = 0]
          /\ TypeOK /\ AllSound /\ Ledger /\ cur \in Docs /\ r \in Rows /\ Sound(r) /\ r.state # "none"
        BY <1>5, <1>h DEF PrepareDropped, remote, history
    <2>1. r.prepared = NotPrepared BY <1>h, <2>0 DEF WorkerInv, PreparingForgot
    <2>2. Legal(r, ApplyDiscard(r)) /\ Counted(r, ApplyDiscard(r)) BY <2>0, ApplyDiscardLegal
    <2>3. BegunIsCounted(ApplyDiscard(r), begun[cur])
        <3>1. ApplyDiscard(r) \in Rows BY <2>0, ApplyDiscardType
        <3>2. begun[cur] \in Nat /\ r.attempts \in Nat /\ ApplyDiscard(r).attempts \in Nat
            BY <2>0, <3>1, RowFields, BoundAssumption DEF TypeOK, BooksOK
        <3>3. BegunIsCounted(r, begun[cur]) BY <2>0 DEF Ledger, LedgerOK
        <3> QED BY <2>2, <3>2, <3>3 DEF Counted, BegunIsCounted
    <2> QED BY <2>0, <2>1, <2>2, <2>3, PutStep, IdleWorker
<1>6. CASE PrepareThrows
    <2>0. /\ pc = "prepare" /\ Idle /\ UNCHANGED <<drive, sent, begun>> /\ SetRow(cur, Failed(r, snap.attempts + 1))
          /\ TypeOK /\ AllSound /\ Ledger /\ cur \in Docs /\ r.state # "none"
        BY <1>6, <1>h DEF PrepareThrows, StageThrows, remote, history
    <2>1. PICK k : blob' = [blob EXCEPT ![cur].prepared = k] BY <1>6 DEF PrepareThrows, PutPrepared
    <2>2. r.prepared = NotPrepared BY <1>h, <2>0 DEF WorkerInv, PreparingForgot
    <2>3. Legal(r, Failed(r, snap.attempts + 1)) /\ BegunIsCounted(Failed(r, snap.attempts + 1), begun[cur])
        BY <2>0, ThrowLegal
    <2> QED BY <2>0, <2>1, <2>2, <2>3, PutStep, IdleWorker
<1>7. CASE FileAfterWalk
    <2>0. pc = "rewalk" /\ pc \in FileWaits /\ UNCHANGED <<blob, drive, sent, begun>>
        BY <1>7 DEF FileAfterWalk, FileWaits, remote, history
    <2>1. PICK t \in Trees \cup {cache} : FileRechecked(cur, snap, t, sess) BY <1>7 DEF FileAfterWalk
    <2>2. t \in Trees \cup {None} BY <1>h, <2>0 DEF TypeOK, WorldOK
    <2>3. snap.decision # None BY <1>h, <2>0 DEF TypeOK, WorkerOK
    <2>4. Matches(r, snap) BY <1>h, <2>0 DEF WorkerInv, FilingAgrees, Agrees, Matches, SendWaits
    <2>5. begun[cur] <= snap.attempts
        <3>1. begun[cur] <= snap.attempts + 0 BY <1>h, <2>0 DEF WorkerInv, BegunWithinSnap
        <3>2. snap.attempts \in Nat BY <1>h, <2>0, RowFields, BoundAssumption
        <3> QED BY <3>1, <3>2
    <2> QED BY <1>h, <2>0, <2>1, <2>2, <2>3, <2>4, <2>5, FileRecheckedFiling
<1>8. CASE FolderResolved
    <2> DEFINE c == [snap.decision EXCEPT !.made = TRUE]
               s == [r EXCEPT !.decision = c]
    <2>0. /\ pc = "folder" /\ pc \in FileWaits /\ UNCHANGED <<blob, drive, sent, begun>>
          /\ SetRow(cur, KeepGoing(r, s)) /\ Wait("send", cur, snap, sess)
        BY <1>8 DEF FolderResolved, FileWaits, remote, history
    <2>1. /\ TypeOK /\ AllSound /\ Ledger /\ row \in [Docs -> Rows] /\ cur \in Docs /\ r \in Rows /\ Sound(r) /\ snap \in Rows
          /\ LedgerOK(r, blob[cur], drive[cur], sent[cur], begun[cur])
        BY <1>h, <2>0
    <2>2. snap.decision \in Choices
        BY <2>0, <2>1, RowFields DEF TypeOK, WorkerOK
    <2>3. c \in Choices /\ Place(c) = Place(snap.decision)
        <3>1. c \in Choices BY <1>f, <2>2, ZenonT(60) DEF Choices
        <3>2. Place(c) = Place(snap.decision) BY <2>2 DEF Place, Choices
        <3> QED BY <3>1, <3>2
    <2>4. c # None BY <2>3, NoneAssumption
    <2> HIDE DEF c
    <2>5. s \in Rows BY <2>1, <2>3, PatchDecision
    <2>6. /\ s.state = r.state /\ s.target = r.target /\ s.unverified = r.unverified
          /\ s.discardRequested = r.discardRequested /\ s.attempts = r.attempts
          /\ s.decision = c /\ s.prepared = r.prepared /\ s.analysis = r.analysis
          /\ s.reanalyzed = r.reanalyzed /\ s.autoFiled = r.autoFiled /\ s.reviewReason = r.reviewReason
        BY <2>1 DEF Rows
    <2> HIDE DEF s
    <2>7. Matches(r, snap) BY <1>h, <2>0 DEF WorkerInv, FilingAgrees, Agrees, Matches, SendWaits
    <2>8. ASSUME r.state = "filing" PROVE Legal(r, s) /\ Matches(s, snap)
        <3>1. /\ r.decision # None /\ Place(r.decision) = Place(snap.decision)
              /\ r.prepared = snap.prepared /\ r.target = snap.target
            BY <2>1, <2>7, <2>8 DEF Matches, Abandoned, Sound, StateFits, FilingHasDecision
        <3>2. Sound(s)
            BY <2>1, <2>4, <2>6, <2>8, <3>1 DEF Sound, StateFits, FilingHasDecision, ApprovalIsForgotten,
                DecidedIsPrepared, LookIsRemembered, DiscardIsWorking, UnreadHasNoAnalysis
        <3>3. Level(r, s) BY <2>6 DEF Level, Phase, Remembered, PossiblyInDrive
        <3>4. Obeys(r, s) /\ Kept(r, s) BY <2>3, <2>6, <3>1 DEF Obeys, Kept
        <3>5. Matches(s, snap) BY <2>3, <2>6, <2>8, <3>1 DEF Matches
        <3> QED BY <3>2, <3>3, <3>4, <3>5 DEF Legal
    <2> DEFINE n == KeepGoing(r, s)
    <2>9. Legal(r, n) /\ Matches(n, snap) /\ n.attempts = r.attempts /\ (n.state = "filing" => r.state = "filing")
        BY <2>1, <2>6, <2>7, <2>8, SameLegal DEF KeepGoing
    <2> HIDE DEF n
    <2>10. BegunIsCounted(n, begun'[cur]) BY <2>0, <2>1, <2>9 DEF BegunIsCounted, LedgerOK
    <2>11. SetRow(cur, n) /\ row'[cur] = n BY <2>0, <2>1 DEF SetRow, n
    <2>12. begun'[cur] <= snap.attempts
        <3>1. begun[cur] <= snap.attempts + 0 BY <1>h, <2>0 DEF WorkerInv, BegunWithinSnap
        <3>2. snap.attempts \in Nat BY <2>1, RowFields, BoundAssumption
        <3> QED BY <2>0, <3>1, <3>2
    <2>13. AllSound' /\ Ledger' /\ StepOK BY <2>0, <2>1, <2>9, <2>10, <2>11, LegalStep
    <2> QED BY <2>0, <2>1, <2>9, <2>11, <2>12, <2>13, WaitsToFile
<1>9. CASE FolderNameTaken
    <2> DEFINE s == [r EXCEPT !.state = "needs_review", !.reviewReason = TRUE, !.discardRequested = FALSE]
    <2>0. /\ pc = "folder" /\ Idle /\ UNCHANGED <<blob, drive, sent, begun>> /\ SetRow(cur, KeepGoing(r, s))
        BY <1>9 DEF FolderNameTaken, remote, history
    <2>1. /\ TypeOK /\ AllSound /\ Ledger /\ cur \in Docs /\ r \in Rows /\ Sound(r) BY <1>h, <2>0
    <2>2. s \in Rows BY <1>f, <2>1, StateNames, NoneValues, PatchReview
    <2>3. /\ s.state = "needs_review" /\ s.target = r.target /\ s.unverified = r.unverified
          /\ ~s.discardRequested /\ s.attempts = r.attempts
          /\ s.decision = r.decision /\ s.prepared = r.prepared /\ s.analysis = r.analysis
          /\ s.reanalyzed = r.reanalyzed /\ s.autoFiled = r.autoFiled /\ s.reviewReason
        BY <2>1 DEF Rows
    <2> HIDE DEF s
    <2>4. r.state = "filing" => Legal(r, s) /\ Counted(r, s)
        <3> SUFFICES ASSUME r.state = "filing" PROVE Legal(r, s) /\ Counted(r, s) OBVIOUS
        <3>1. StateFits(s) /\ Obeys(r, s)
            BY <2>1, <2>3 DEF Obeys, Sound, StateFits, FilingHasDecision, ApprovalIsForgotten,
                    DecidedIsPrepared, DiscardIsWorking, UnreadHasNoAnalysis
        <3>2. Counted(r, s) BY <2>1, <2>3, RowFields, BoundAssumption DEF Counted
        <3> QED BY <2>1, <2>2, <2>3, <3>1, <3>2, PatchLegal
    <2> DEFINE n == KeepGoing(r, s)
    <2>5. n \in Rows /\ Legal(r, n) /\ Counted(r, n) BY <2>1, <2>2, <2>4, SameLegal DEF KeepGoing
    <2> HIDE DEF n
    <2>6. SetRow(cur, n) BY <2>0 DEF n
    <2> QED BY <2>0, <2>1, <2>5, <2>6, CountedStep, IdleWorker
<1>10. CASE Send
    <2>0. /\ pc = "send" /\ pc \in FileWaits /\ UNCHANGED <<blob, drive, sent, begun>>
        BY <1>10 DEF Send, FileWaits, remote, history
    <2>1. /\ TypeOK /\ AllSound /\ Ledger /\ row \in [Docs -> Rows] /\ cur \in Docs /\ r \in Rows /\ Sound(r) /\ snap \in Rows
          /\ LedgerOK(r, blob[cur], drive[cur], sent[cur], begun[cur]) /\ r.state \notin {"none", "filed"}
        BY <1>h, <2>0
    <2>2. CASE Bytes(cur, snap) = 0 /\ ~blob[cur].original
        <3>1. SetRow(cur, Failed(r, MaxAttempts)) /\ Idle BY <1>10, <2>2 DEF Send
        <3> DEFINE s == Failed(r, MaxAttempts)
        <3>2. MaxAttempts \in Nat /\ r.attempts \in 0..MaxAttempts /\ begun[cur] \in Nat
            BY <2>1, RowFields, BoundAssumption DEF TypeOK, BooksOK
        <3>3. /\ Legal(r, s) /\ (s.state = "filing" => r.state = "filing")
              /\ s.attempts = r.attempts \/ s.attempts >= MaxAttempts \/ s.attempts = MaxAttempts
            BY <2>1, <3>2, FailedLegal
        <3>4. s \in Rows BY <2>1, <3>2, FailedType
        <3>5. s.attempts \in 0..MaxAttempts BY <3>4, RowFields
        <3> HIDE DEF s
        <3>6. s.attempts >= r.attempts BY <3>2, <3>3, <3>5
        <3> QED BY <2>0, <2>1, <3>1, <3>3, <3>4, <3>6, CountedStep, IdleWorker DEF s, Counted
    <2>3. CASE ~(Bytes(cur, snap) = 0 /\ ~blob[cur].original) /\ LooksFirst
        <3>1. UNCHANGED row /\ Wait("lookup", cur, Read, sess) BY <1>10, <2>3 DEF Send
        <3>2. /\ Read.decision = snap.decision /\ Read.target = snap.target /\ Read.attempts = snap.attempts
            BY <2>0, <2>1, ReadType
        <3>3. r.state = "filing" => blob[cur] # NoBlob /\ Read.prepared = blob[cur].prepared
            BY <2>0, <2>3, ReadIsBlob
        <3>4. pc' = "lookup" /\ cur' = cur /\ snap' = Read BY <3>1 DEF Wait
        <3>5. FilingAgrees'
            BY <1>h, <2>0, <3>1, <3>2, <3>3, <3>4 DEF WorkerInv, FilingAgrees, Agrees, Abandoned, SendWaits
        <3>6. LookupHasTarget' BY <2>3, <3>2, <3>4 DEF LookupHasTarget, LooksFirst
        <3>7. BegunWithinSnap' BY <1>h, <2>0, <3>2, <3>4 DEF WorkerInv, BegunWithinSnap
        <3>8. WorkerInv'
            BY <3>4, <3>5, <3>6, <3>7 DEF WorkerInv, AnalyzingSame, PreparingForgot, UploadIsFirst, StoredIsHeld
        <3> QED BY <2>0, <2>1, <3>1, <3>8, UnchangedStep
    <2>4. CASE ~(Bytes(cur, snap) = 0 /\ ~blob[cur].original) /\ ~LooksFirst
        <3>1. SetTarget(Read) BY <1>10, <2>4 DEF Send
        <3>2. ASSUME r.state = "filing"
              PROVE  sent[cur] = 0 /\ blob[cur] # NoBlob /\ Read.prepared = blob[cur].prepared
            <4>1. Agrees /\ Place(r.decision) = Place(snap.decision) BY <2>0, <3>2, StoredIsRecorded
            <4>2. r.target # Place(r.decision) BY <2>0, <2>4, <4>1 DEF Agrees, LooksFirst
            <4>3. r.decision # None BY <2>1, <3>2 DEF Sound, StateFits, FilingHasDecision
            <4>4. sent[cur] = 0 BY <2>1, <4>2, <4>3 DEF LedgerOK, StoredIsTarget, TypeOK, BooksOK
            <4> QED BY <2>0, <2>4, <3>2, <4>4, ReadIsBlob
        <3>3. Read \in Rows /\ Read.decision = snap.decision /\ Read.attempts = snap.attempts
            BY <2>0, <2>1, ReadType
        <3> QED BY <2>0, <3>1, <3>2, <3>3, SetTargetFiling
    <2> QED BY <2>2, <2>3, <2>4
<1>11. CASE LookupMisses
    <2>0. /\ pc = "lookup" /\ pc \in FileWaits /\ UNCHANGED <<blob, drive, sent, begun>> /\ SetTarget(snap)
          /\ Stored \notin drive[cur] /\ pc \in SendWaits
        BY <1>11 DEF LookupMisses, FileWaits, SendWaits, remote, history
    <2>1. ASSUME r.state = "filing"
          PROVE  sent[cur] = 0 /\ blob[cur] # NoBlob /\ snap.prepared = blob[cur].prepared
        <3>1. /\ Agrees /\ r.decision # None /\ blob[cur] # NoBlob
              /\ Stored = <<Place(r.decision), blob[cur].prepared>>
            BY <2>0, <2>1, StoredIsRecorded
        <3>2. sent[cur] = 0 BY <1>h, <2>0, <3>1 DEF LedgerOK, StoredIsTarget
        <3>3. snap.prepared = blob[cur].prepared BY <2>0, <3>1 DEF Agrees
        <3> QED BY <3>1, <3>2, <3>3
    <2>2. snap \in Rows BY <1>h, <2>0
    <2> QED BY <2>0, <2>1, <2>2, SetTargetFiling
<1>12. CASE Filed
    <2>1. IF r.state = "filing" THEN DeleteCut(cur) ELSE UNCHANGED blob BY <1>12, DeleteIsCut DEF Filed
    <2> QED BY <1>12, <2>1, FiledFiling DEF Filed, remote, history
<1>13. CASE FileThrows
    <2>1. pc # "idle" BY <1>13 DEF FileThrows, DriveWaits, FileWaits
    <2> QED BY <1>13, <2>1, ThrowFiling DEF FileThrows, remote, history
<1>14. CASE FileAuthExpired
    <2> DEFINE s == [r EXCEPT !.state = "awaiting_login", !.discardRequested = FALSE]
    <2>0. /\ pc # "idle" /\ Idle /\ UNCHANGED <<blob, drive, sent, begun>> /\ SetRow(cur, KeepGoing(r, s))
        BY <1>14 DEF FileAuthExpired, DriveWaits, FileWaits, remote, history
    <2>1. /\ TypeOK /\ AllSound /\ Ledger /\ cur \in Docs /\ r \in Rows /\ Sound(r) BY <1>h, <2>0
    <2>2. s \in Rows BY <1>f, <2>1, StateNames, PatchStateFlag
    <2>3. /\ s.state = "awaiting_login" /\ s.target = r.target /\ s.unverified = r.unverified
          /\ ~s.discardRequested /\ s.attempts = r.attempts
          /\ s.decision = r.decision /\ s.prepared = r.prepared /\ s.analysis = r.analysis
          /\ s.reanalyzed = r.reanalyzed /\ s.autoFiled = r.autoFiled /\ s.reviewReason = r.reviewReason
        BY <2>1 DEF Rows
    <2> HIDE DEF s
    <2>4. r.state = "filing" => Legal(r, s) /\ Counted(r, s)
        <3> SUFFICES ASSUME r.state = "filing" PROVE Legal(r, s) /\ Counted(r, s) OBVIOUS
        <3>1. StateFits(s) /\ Obeys(r, s)
            BY <2>1, <2>3 DEF Obeys, Sound, StateFits, FilingHasDecision, ApprovalIsForgotten,
                    DecidedIsPrepared, DiscardIsWorking, UnreadHasNoAnalysis
        <3>2. Counted(r, s) BY <2>1, <2>3, RowFields, BoundAssumption DEF Counted
        <3> QED BY <2>1, <2>2, <2>3, <3>1, <3>2, PatchLegal
    <2> DEFINE n == KeepGoing(r, s)
    <2>5. n \in Rows /\ Legal(r, n) /\ Counted(r, n) BY <2>1, <2>2, <2>4, SameLegal DEF KeepGoing
    <2> HIDE DEF n
    <2>6. SetRow(cur, n) BY <2>0 DEF n
    <2> QED BY <2>0, <2>1, <2>5, <2>6, CountedStep, IdleWorker
<1> QED BY <1>1, <1>2, <1>3, <1>4, <1>5, <1>6, <1>7, <1>8, <1>9, <1>10, <1>11, <1>12, <1>13, <1>14 DEF Continue

-----------------------------------------------------------------------------
(* Logins, timers, faults, Drive.                                          *)

LEMMA DueLegal ==
    ASSUME NEW r \in Rows, Sound(r), NEW b \in BOOLEAN, NEW s, s = [r EXCEPT !.due = b]
    PROVE  s \in Rows /\ Legal(r, s) /\ Counted(r, s) /\ Outside(r, s)
<1>0. s \in Rows BY PatchDue
<1>1. /\ s.state = r.state /\ s.target = r.target /\ s.unverified = r.unverified
      /\ s.discardRequested = r.discardRequested /\ s.attempts = r.attempts
      /\ s.decision = r.decision /\ s.prepared = r.prepared /\ s.analysis = r.analysis
      /\ s.reanalyzed = r.reanalyzed /\ s.autoFiled = r.autoFiled /\ s.reviewReason = r.reviewReason
    BY DEF Rows
<1>2. Sound(s)
    BY <1>1 DEF Sound, StateFits, FilingHasDecision, ApprovalIsForgotten, DecidedIsPrepared, LookIsRemembered,
            DiscardIsWorking, UnreadHasNoAnalysis
<1>3. Level(r, s) BY <1>1 DEF Level, Phase, Remembered, PossiblyInDrive
<1>4. Obeys(r, s) /\ Kept(r, s) /\ Outside(r, s) BY <1>1 DEF Obeys, Kept, Outside, Abandoned, Unread
<1>5. Counted(r, s) BY <1>1, RowFields, BoundAssumption DEF Counted
<1> QED BY <1>0, <1>2, <1>3, <1>4, <1>5 DEF Legal

\* What a login does to a row that waits for one.
LEMMA ResumedLegal ==
    ASSUME NEW r \in Rows, Sound(r), CanMove(r, "awaiting_login"),
           NEW s, s = [r EXCEPT !.state = "filing", !.attempts = 0, !.due = TRUE]
    PROVE  Legal(r, s) /\ Outside(r, s) /\ BegunIsCounted(s, 0)
<1>0. s \in Rows
    <2>1. "filing" \in States /\ TRUE \in BOOLEAN BY StateNames
    <2> QED BY <2>1, NoneValues, ZenonT(60) DEF Rows
<1>1. /\ s.state = "filing" /\ s.target = r.target /\ s.unverified = r.unverified
      /\ s.discardRequested = r.discardRequested /\ s.attempts = 0
      /\ s.decision = r.decision /\ s.prepared = r.prepared /\ s.analysis = r.analysis
      /\ s.reanalyzed = r.reanalyzed /\ s.autoFiled = r.autoFiled /\ s.reviewReason = r.reviewReason
    BY DEF Rows
<1>2. r.state = "awaiting_login" /\ ~r.discardRequested BY DEF CanMove
<1>3. StateFits(s) /\ Obeys(r, s)
    BY <1>1, <1>2 DEF Obeys, Sound, StateFits, FilingHasDecision, ApprovalIsForgotten,
                DecidedIsPrepared, DiscardIsWorking, UnreadHasNoAnalysis
<1>4. Legal(r, s) BY <1>0, <1>1, <1>2, <1>3, PatchLegal
<1>5. Outside(r, s) BY <1>1, <1>2 DEF Outside, Abandoned, Unread
<1>6. BegunIsCounted(s, 0) BY <1>1 DEF BegunIsCounted
<1> QED BY <1>4, <1>5, <1>6

LEMMA QuarantinedOutside ==
    ASSUME NEW r \in Rows, Sound(r), r.state \notin {"none", "gone"}
    PROVE  Outside(r, Quarantined(r))
<1> DEFINE s == Quarantined(r)
<1>1. /\ s.state = IF r.state \in {"filed", "discarded"} THEN r.state ELSE "failed"
      /\ s.analysis = None /\ s.decision = None /\ s.target = None
      /\ s.prepared = r.prepared /\ s.reanalyzed = r.reanalyzed
    BY QuarantinedFields
<1>2. r.state # "filed" => Abandoned(s) BY QuarantinedLegal
<1> HIDE DEF s
<1>3. Outside(r, s) BY <1>1, <1>2 DEF Outside, Abandoned, Unread
<1> QED BY <1>3 DEF s

LEMMA PurgedStep ==
    ASSUME TypeOK, AllSound, Ledger, WorkerInv, NEW d \in Docs, Purge(d)
    PROVE  AllSound' /\ Ledger' /\ StepOK /\ WorkerInv'
<1> DEFINE r == row[d]
           s == [r EXCEPT !.state = "gone"]
<1>0. /\ r.state = "discarded" /\ SetRow(d, s) /\ blob' = [blob EXCEPT ![d] = NoBlob]
      /\ UNCHANGED <<drive, sent, begun>> /\ UNCHANGED worker
      /\ row \in [Docs -> Rows] /\ r \in Rows /\ Sound(r) /\ LedgerOK(r, blob[d], drive[d], sent[d], begun[d])
    BY DEF Purge, remote, history, TypeOK, RowsOK, AllSound, Ledger
<1>1. /\ s.state = "gone" /\ s.target = r.target /\ s.unverified = r.unverified
      /\ s.discardRequested = r.discardRequested /\ s.attempts = r.attempts
      /\ s.decision = r.decision /\ s.prepared = r.prepared /\ s.analysis = r.analysis
      /\ s.reanalyzed = r.reanalyzed /\ s.autoFiled = r.autoFiled /\ s.reviewReason = r.reviewReason
    BY <1>0 DEF Rows
<1> HIDE DEF s
<1>2. ~r.discardRequested BY <1>0 DEF Sound, StateFits, DiscardIsWorking, Working
<1>3. Sound(s) /\ Obeys(r, s)
    BY <1>0, <1>1, <1>2 DEF Obeys, Sound, StateFits, FilingHasDecision, ApprovalIsForgotten, LookIsRemembered,
                DecidedIsPrepared, DiscardIsWorking, UnreadHasNoAnalysis
<1>4. Frame(d) /\ row'[d] = s
    BY <1>0 DEF TypeOK, RowsOK, WorldOK, BooksOK, Frame, SetRow
<1>5. LedgerOK(s, blob'[d], drive[d], sent[d], begun[d])
    BY <1>0, <1>1 DEF LedgerOK, StoredIsTarget, RecordIsBlob, FiledIsHeld, UnbornIsEmpty, BegunIsCounted
<1>6. LedgerOK(row'[d], blob'[d], drive'[d], sent'[d], begun'[d]) BY <1>0, <1>4, <1>5
<1>7. Careful(d) BY <1>0, <1>1, <1>4 DEF Careful, OriginalStays, FiledRight
<1>8. AllSound' /\ Ledger' /\ \A e \in Docs : Obeys(row[e], row'[e]) /\ Careful(e)
    BY <1>3, <1>4, <1>6, <1>7, OneRow
<1>9. PromiseStep
    <2>1. Phase(r) = "open" /\ Phase(s) = "gone" BY <1>0, <1>1 DEF Phase
    <2> QED BY <1>0, <2>1, PromiseRow
<1>10. Outside(r, s) BY <1>0, <1>1 DEF Outside, Abandoned, Unread
<1>11. \A e \in Docs \ {d} : blob'[e] = blob[e] BY <1>0 DEF TypeOK, RowsOK
<1>12. WorkerInv' BY <1>0, <1>10, <1>11, OneOutside
<1> QED BY <1>8, <1>9, <1>12 DEF StepOK

\* Blobs of a discarded row, or of one that needs none, are deleted in part or whole.
LEMMA DeletedStep ==
    ASSUME TypeOK, AllSound, Ledger, NEW d \in Docs, row[d].state = "discarded" \/ Orphaned(row[d]), blob[d] # NoBlob,
           DeleteCut(d), UNCHANGED <<row, drive, sent, begun>>
    PROVE  /\ AllSound' /\ Ledger' /\ StepOK
           /\ UNCHANGED worker /\ WorkerInv => WorkerInv'
<1>0. /\ row[d].state \in {"none", "gone", "filed", "discarded"} /\ blob \in [Docs -> Blobs]
      /\ Sound(row[d]) /\ LedgerOK(row[d], blob[d], drive[d], sent[d], begun[d])
    BY DEF Orphaned, TypeOK, RowsOK, AllSound, Ledger
<1>1. row[d].state # "none" BY <1>0 DEF LedgerOK, UnbornIsEmpty
<1>2. PICK b \in Remains(blob[d]) : blob' = [blob EXCEPT ![d] = b] BY DEF DeleteCut
<1>3. blob'[d] = b /\ \A e \in Docs \ {d} : blob'[e] = blob[e] BY <1>0, <1>2
<1>4. Frame(d) BY <1>3 DEF Frame
<1>5. LedgerOK(row'[d], blob'[d], drive'[d], sent'[d], begun'[d]) BY <1>0, <1>1, <1>3, RemainsLedger
<1>6. Careful(d) BY <1>0, <1>1 DEF Careful, OriginalStays, FiledRight, LedgerOK, FiledIsHeld
<1>7. Sound(row'[d]) /\ Obeys(row[d], row'[d]) BY <1>0 DEF Obeys
<1>8. AllSound' /\ Ledger' /\ \A e \in Docs : Obeys(row[e], row'[e]) /\ Careful(e)
    BY <1>4, <1>5, <1>6, <1>7, OneRow
<1>9. \A e \in Docs : Level(row[e], row'[e]) BY DEF Level
<1>10. PromiseStep BY <1>9, PromiseStutters
<1>11. ASSUME NEW e \in Docs PROVE Beside(e)
    <2>1. row[e].state = "filing" => blob'[e] = blob[e] BY <1>0, <1>3
    <2> QED BY <2>1, SameOutside DEF Beside
<1>12. UNCHANGED worker /\ WorkerInv => WorkerInv' BY <1>11, OutsideWorker
<1> QED BY <1>8, <1>10, <1>12 DEF StepOK

LEMMA SweptStep ==
    ASSUME TypeOK, AllSound, Ledger, WorkerInv, NEW d \in Docs, Sweep(d)
    PROVE  AllSound' /\ Ledger' /\ StepOK /\ WorkerInv'
<1>1. /\ Orphaned(row[d]) /\ blob[d] # NoBlob /\ DeleteCut(d)
      /\ UNCHANGED <<row, drive, sent, begun>> /\ UNCHANGED worker
    BY DeleteIsCut DEF Sweep, remote, history
<1> QED BY <1>1, DeletedStep

LEMMA PurgeCutStep ==
    ASSUME TypeOK, AllSound, Ledger, WorkerInv, NEW d \in Docs, PurgeCut(d)
    PROVE  AllSound' /\ Ledger' /\ StepOK /\ WorkerInv'
<1>1. /\ row[d].state = "discarded" \/ Orphaned(row[d])
      /\ blob[d] # NoBlob /\ DeleteCut(d) /\ UNCHANGED <<row, drive, sent, begun>>
      /\ Idle \/ UNCHANGED worker
    BY DEF PurgeCut, Cut, Dies, remote, history
<1> QED BY <1>1, DeletedStep, IdleWorker

\* A failed document whose original is put back, and no more.
LEMMA PutBackStep ==
    ASSUME TypeOK, AllSound, Ledger, WorkerInv, NEW d \in Docs, PutBackCut(d)
    PROVE  AllSound' /\ Ledger' /\ StepOK /\ WorkerInv'
<1>0. /\ row[d].state = "failed" /\ ~blob[d].original /\ PutsBack(d) /\ UNCHANGED <<row, drive, begun>>
      /\ Idle \/ UNCHANGED worker
      /\ row \in [Docs -> Rows] /\ Sound(row[d]) /\ LedgerOK(row[d], blob[d], drive[d], sent[d], begun[d])
    BY DEF PutBackCut, Cut, Dies, remote, TypeOK, RowsOK, AllSound, Ledger
<1>1. /\ LedgerOK(row[d], blob'[d], drive[d], sent'[d], begun[d])
      /\ sent' = [sent EXCEPT ![d] = 0] /\ blob' = [blob EXCEPT ![d].original = TRUE]
    BY <1>0, PutsBackLedger
<1>2. SetRow(d, row[d]) BY <1>0 DEF SetRow
<1>3. Obeys(row[d], row[d]) BY DEF Obeys
<1>4. LedgerOK(row[d], blob'[d], drive[d], sent'[d], begun'[d]) BY <1>0, <1>1
<1>5. AllSound' /\ Ledger' /\ \A e \in Docs : Obeys(row[e], row'[e]) /\ Careful(e)
    BY <1>0, <1>1, <1>2, <1>3, <1>4, UploadedStep
<1>6. PromiseStep
    <2>1. \A e \in Docs : Level(row[e], row'[e]) BY <1>0 DEF Level
    <2>2. Phase(row[d]) = "open" BY <1>0 DEF Phase
    <2> QED BY <1>0, <1>1, <2>1, <2>2, PromiseDecides
<1>7. ASSUME UNCHANGED worker PROVE WorkerInv'
    <2>1. \A e \in Docs \ {d} : blob'[e] = blob[e] BY <1>1 DEF TypeOK, RowsOK
    <2> QED BY <1>0, <1>1, <1>2, <1>7, <2>1, SameOutside, OneOutside
<1> QED BY <1>0, <1>5, <1>6, <1>7, IdleWorker DEF StepOK

LEMMA PromiseStores ==
    ASSUME NEW d \in Docs, Remembered(row[d]), sent[d] = 0, UNCHANGED row, sent' = [sent EXCEPT ![d] = 1],
           NEW x, drive'[d] = drive[d] \cup {x}, \A e \in Docs \ {d} : drive'[e] = drive[e]
    PROVE  PromiseStep
<1>1. [e \in Docs |-> drive'[e] # {}] = [[e \in Docs |-> drive[e] # {}] EXCEPT ![d] = TRUE] OBVIOUS
<1>2. [e \in Docs |-> row[e].state \in {"filed", "gone"} \/ PossiblyInDrive(row[e])][d] BY DEF Remembered
<1>3. Promise!Store(d) BY <1>1, <1>2 DEF Promise!Store
<1> QED BY <1>3 DEF PromiseStep, Promise!Next

LEMMA StoredStep ==
    ASSUME FilingInv, DriveStores
    PROVE  AllSound' /\ Ledger' /\ StepOK /\ WorkerInv'
<1> DEFINE r == row[cur]
           x == Stored
<1>i. pc = "upload" /\ pc # "idle" /\ pc \in FileWaits /\ pc \in SendWaits
    BY DEF DriveStores, FileWaits, SendWaits
<1>0. /\ drive' = [drive EXCEPT ![cur] = @ \cup {x}] /\ sent' = [sent EXCEPT ![cur] = @ + 1]
      /\ UNCHANGED <<row, blob, begun>> /\ Wait("stored", cur, snap, sess)
      /\ TypeOK /\ AllSound /\ Ledger /\ WorkerInv /\ row \in [Docs -> Rows]
      /\ cur \in Docs /\ r \in Rows /\ Sound(r)
      /\ LedgerOK(r, blob[cur], drive[cur], sent[cur], begun[cur])
    BY <1>i, HeldRow DEF DriveStores, rows
<1> HIDE DEF x
<1>1. sent[cur] = 0 BY <1>0, <1>i DEF WorkerInv, UploadIsFirst
<1>2. /\ drive'[cur] = drive[cur] \cup {x} /\ sent'[cur] = 1
      /\ sent' = [sent EXCEPT ![cur] = 1]
      /\ \A e \in Docs \ {cur} : drive'[e] = drive[e] /\ sent'[e] = sent[e]
    BY <1>0, <1>1 DEF TypeOK, WorldOK, BooksOK
<1>3. ASSUME r.state = "filing"
      PROVE  x = <<Place(r.decision), blob[cur].prepared>> /\ Agrees /\ Place(r.decision) = Place(snap.decision)
    BY <1>i, <1>3, StoredIsRecorded DEF x
<1>4. r.state = "filing" \/ r.decision = None BY <1>0, <1>i DEF WorkerInv, FilingAgrees, Agrees, Abandoned
<1>5. LedgerOK(r, blob[cur], drive'[cur], 1, begun[cur])
    <2>1. StoredIsTarget(r, blob[cur], drive'[cur], 1)
        BY <1>i, <1>2, <1>3, <1>4 DEF StoredIsTarget, Agrees
    <2>2. FiledIsHeld(r, drive'[cur]) BY <1>0, <1>2 DEF LedgerOK, FiledIsHeld
    <2> QED BY <1>0, <2>1, <2>2 DEF LedgerOK
<1>6. Ledger'
    <2>1. ASSUME NEW e \in Docs, e # cur PROVE LedgerOK(row'[e], blob'[e], drive'[e], sent'[e], begun'[e])
        BY <1>0, <1>2, <2>1 DEF Ledger
    <2> QED BY <1>0, <1>2, <1>5, <2>1 DEF Ledger
<1>7. AllSound' BY <1>0 DEF AllSound
<1>8. \A d \in Docs : Obeys(row[d], row'[d]) /\ Careful(d) BY <1>0 DEF Obeys, Careful, OriginalStays, FiledRight
<1>9. PromiseStep
    <2>1. Remembered(r) BY <1>i DEF FilingInv, UploadInv, InFlightRemembered
    <2>2. cur \in Docs /\ UNCHANGED row BY <1>0
    <2>3. drive'[cur] = drive[cur] \cup {x} /\ \A e \in Docs \ {cur} : drive'[e] = drive[e] BY <1>2
    <2>4. sent[cur] = 0 /\ sent' = [sent EXCEPT ![cur] = 1] BY <1>1, <1>2
    <2> QED BY <2>1, <2>2, <2>3, <2>4, PromiseStores
<1>10. WorkerInv'
    <2>1. pc' = "stored" /\ cur' = cur /\ snap' = snap /\ row'[cur'] = r BY <1>0 DEF Wait
    <2>2. FilingAgrees' BY <1>0, <1>i, <2>1 DEF WorkerInv, FilingAgrees, Agrees, SendWaits
    <2>3. StoredIsHeld'
        <3>1. Stored' = x /\ x \in drive'[cur] BY <1>2, <2>1 DEF Stored, x
        <3> QED BY <2>1, <3>1 DEF StoredIsHeld
    <2>4. BegunWithinSnap' BY <1>0, <1>i, <2>1 DEF WorkerInv, BegunWithinSnap
    <2> QED BY <2>1, <2>2, <2>3, <2>4 DEF WorkerInv, AnalyzingSame, PreparingForgot, UploadIsFirst, LookupHasTarget
<1> QED BY <1>6, <1>7, <1>8, <1>9, <1>10 DEF StepOK

LEMMA ResumedStep ==
    ASSUME TypeOK, AllSound, Ledger, WorkerInv, OnLogin
    PROVE  AllSound' /\ Ledger' /\ StepOK /\ WorkerInv'
<1> DEFINE s(e) == [row[e] EXCEPT !.state = "filing", !.attempts = 0, !.due = TRUE]
<1>0. /\ UNCHANGED <<blob, drive, sent>> /\ UNCHANGED worker BY DEF OnLogin, remote
<1>1. ASSUME NEW e \in Docs
      PROVE  /\ Legal(row[e], row'[e]) /\ Outside(row[e], row'[e]) /\ BegunIsCounted(row'[e], begun'[e])
             /\ begun'[e] \in {begun[e], 0}
    <2>1. /\ row'[e] = (IF CanMove(row[e], "awaiting_login") THEN s(e) ELSE row[e])
          /\ begun'[e] = (IF CanMove(row[e], "awaiting_login") THEN 0 ELSE begun[e])
        BY DEF OnLogin
    <2>2. row[e] \in Rows /\ Sound(row[e]) /\ BegunIsCounted(row[e], begun[e])
        BY DEF TypeOK, RowsOK, AllSound, Ledger, LedgerOK
    <2>3. CanMove(row[e], "awaiting_login") =>
              Legal(row[e], s(e)) /\ Outside(row[e], s(e)) /\ BegunIsCounted(s(e), 0)
        BY <2>2, ResumedLegal
    <2> HIDE DEF s
    <2> QED BY <2>1, <2>2, <2>3, SameLegal, SameOutside
<1>2. AllSound' BY <1>1 DEF AllSound, Legal
<1>3. Ledger'
    <2>1. ASSUME NEW e \in Docs PROVE LedgerOK(row'[e], blob'[e], drive'[e], sent'[e], begun'[e])
        <3>1. LedgerOK(row[e], blob[e], drive[e], sent[e], begun[e]) BY DEF Ledger
        <3>2. LedgerOK(row'[e], blob[e], drive[e], sent[e], begun'[e]) BY <1>1, <3>1, LegalLedger
        <3> QED BY <1>0, <3>2
    <2> QED BY <2>1 DEF Ledger
<1>4. \A e \in Docs : Obeys(row[e], row'[e]) /\ Careful(e) /\ Level(row[e], row'[e])
    BY <1>0, <1>1, PhaseStates DEF Legal, Level, Careful, OriginalStays, FiledRight
<1>5. PromiseStep BY <1>0, <1>4, PromiseStutters
<1>6. \A e \in Docs : Beside(e) BY <1>0, <1>1 DEF Beside
<1>7. WorkerInv' BY <1>0, <1>6, OutsideWorker
<1> QED BY <1>2, <1>3, <1>4, <1>5, <1>7 DEF StepOK

LEMMA UnseenStep ==
    ASSUME TypeOK, AllSound, Ledger, WorkerInv, UNCHANGED <<row, blob, drive, sent, begun>>, UNCHANGED worker
    PROVE  AllSound' /\ Ledger' /\ StepOK /\ WorkerInv'
<1>1. AllSound' /\ Ledger' /\ StepOK BY UnchangedStep
<1>2. \A e \in Docs : Beside(e) BY SameOutside DEF Beside
<1>3. WorkerInv' BY <1>2, OutsideWorker
<1> QED BY <1>1, <1>3

LEMMA EnvironmentFiling ==
    ASSUME FilingInv, Environment
    PROVE  AllSound' /\ Ledger' /\ StepOK /\ WorkerInv'
<1>0. TypeOK /\ AllSound /\ Ledger /\ WorkerInv /\ UploadInv /\ row \in [Docs -> Rows]
    BY DEF FilingInv, UploadInv, TypeOK, RowsOK
<1>f. TRUE \in BOOLEAN /\ FALSE \in BOOLEAN OBVIOUS
<1>1. CASE ChangeSettings \/ Logout \/ RefreshTree \/ DriveMakesFolder
           \/ (\E other \in BOOLEAN : Login(other)) \/ \E s \in 1..MaxLogins : Expire(s)
    <2>1. UNCHANGED <<row, blob, drive, sent, begun>> /\ UNCHANGED worker
        BY <1>1 DEF ChangeSettings, Logout, RefreshTree, DriveMakesFolder, Login, Expire, rows, remote, history, worker
    <2> QED BY <1>0, <2>1, UnseenStep
<1>2. CASE OnLogin BY <1>0, <1>2, ResumedStep
<1>3. CASE DriveStores BY <1>3, StoredStep
<1>4. CASE Postpones
    <2> DEFINE s == [row[cur] EXCEPT !.due = FALSE]
    <2>1. pc # "idle" /\ SetRow(cur, s) /\ Idle /\ UNCHANGED <<blob, drive, sent, begun>>
        BY <1>4 DEF Postpones, DriveWaits, FileWaits, remote, history
    <2>2. cur \in Docs /\ row[cur] \in Rows /\ Sound(row[cur]) BY <2>1, HeldRow
    <2>3. s \in Rows /\ Legal(row[cur], s) /\ Counted(row[cur], s) BY <1>f, <2>2, DueLegal
    <2> HIDE DEF s
    <2> QED BY <1>0, <2>1, <2>2, <2>3, CountedStep, IdleWorker
<1>5. CASE Crash
    <2>1. Idle /\ UNCHANGED <<row, blob, drive, sent, begun>> BY <1>5 DEF Crash, Dies, rows, remote, history
    <2> QED BY <1>0, <2>1, UnchangedStep, IdleWorker
<1>6. CASE CrashAfterPut
    <2>1. pc = "prepare" /\ Idle /\ UNCHANGED <<row, drive, sent, begun>>
        BY <1>6 DEF CrashAfterPut, Dies, remote, history
    <2>2. PICK k : blob' = [blob EXCEPT ![cur].prepared = k] BY <1>6 DEF CrashAfterPut, PutPrepared
    <2>3. /\ cur \in Docs /\ row[cur] \in Rows /\ Sound(row[cur]) /\ row[cur].state # "none"
          /\ BegunIsCounted(row[cur], begun[cur])
        BY <2>1, HeldRow DEF LedgerOK
    <2>4. row[cur].prepared = NotPrepared BY <1>0, <2>1 DEF WorkerInv, PreparingForgot
    <2>5. SetRow(cur, row[cur]) BY <1>0, <2>1, <2>3 DEF SetRow
    <2>6. Legal(row[cur], row[cur]) BY <2>3, SameLegal
    <2> QED BY <1>0, <2>1, <2>2, <2>3, <2>4, <2>5, <2>6, PutStep, IdleWorker
<1>7. CASE CrashAfterFiled BY <1>7, FiledFiling DEF CrashAfterFiled, Dies, remote, history
<1>8. ASSUME NEW d \in Docs, CrashAfterInsert(d) PROVE AllSound' /\ Ledger' /\ StepOK /\ WorkerInv'
    <2> DEFINE s == [NewRow EXCEPT !.state = "received"]
    <2>0. /\ row[d].state = "none" /\ SetRow(d, s) /\ Idle /\ UNCHANGED <<blob, drive, sent, begun>>
          /\ blob[d] \in Blobs
        BY <1>0, <1>8 DEF CrashAfterInsert, Dies, remote, history, TypeOK, RowsOK
    <2>1. Sound(s) /\ Obeys(row[d], s) /\ LedgerOK(s, blob[d], drive[d], sent[d], begun[d])
        BY <2>0, TakenLedger
    <2>2. PromiseStep BY <1>0, <2>0, PromiseTakes
    <2>s. s.state # "filed" BY DEF NewRow
    <2> HIDE DEF s
    <2>3. LedgerOK(s, blob'[d], drive[d], sent[d], begun'[d]) BY <2>0, <2>1
    <2>4. /\ AllSound' /\ Ledger'
          /\ \A e \in Docs : Obeys(row[e], row'[e]) /\ Careful(e)
        BY <1>0, <2>0, <2>1, <2>3, <2>s, UploadedStep
    <2> QED BY <2>0, <2>2, <2>4, IdleWorker DEF StepOK
<1>9. ASSUME NEW d \in Docs, BecomesDue(d) PROVE AllSound' /\ Ledger' /\ StepOK /\ WorkerInv'
    <2> DEFINE s == [row[d] EXCEPT !.due = TRUE]
    <2>1. SetRow(d, s) /\ UNCHANGED <<blob, drive, sent, begun>> /\ UNCHANGED worker
        BY <1>9 DEF BecomesDue, remote, history
    <2>2. row[d] \in Rows /\ Sound(row[d]) BY <1>0 DEF AllSound
    <2>3. s \in Rows /\ Legal(row[d], s) /\ Counted(row[d], s) /\ Outside(row[d], s) BY <1>f, <2>2, DueLegal
    <2> HIDE DEF s
    <2> QED BY <1>0, <2>1, <2>3, CountedStep, OneOutside
<1>10. ASSUME NEW d \in Docs, Quarantine(d) PROVE AllSound' /\ Ledger' /\ StepOK /\ WorkerInv'
    <2>1. /\ SetRow(d, Quarantined(row[d])) /\ UNCHANGED <<blob, drive, sent, begun>> /\ UNCHANGED worker
          /\ row[d].state \notin {"none", "gone"} /\ row[d] \in Rows /\ Sound(row[d])
        BY <1>0, <1>10 DEF Quarantine, remote, history, AllSound
    <2> QED BY <1>0, <2>1, QuarantinedLegal, QuarantinedOutside, QuarantinedType, CountedStep, OneOutside
<1> QED BY <1>0, <1>1, <1>2, <1>3, <1>4, <1>5, <1>6, <1>7, <1>8, <1>9, <1>10, PurgedStep, SweptStep, PutBackStep, PurgeCutStep
        DEF Environment

-----------------------------------------------------------------------------
(* The theorems.                                                           *)

LEMMA StepFiling == FilingInv /\ [Next]_vars => FilingInv' /\ StepOK
<1> SUFFICES ASSUME FilingInv, [Next]_vars PROVE FilingInv' /\ StepOK OBVIOUS
<1>0. TypeOK /\ AllSound /\ Ledger /\ WorkerInv BY DEF FilingInv, UploadInv
<1>1. UploadInv' BY StepUpload DEF FilingInv
<1>2. AllSound' /\ Ledger' /\ StepOK /\ WorkerInv'
    <2>1. CASE Next BY <2>1, BeginFiling, RouteFiling, ContinueFiling, EnvironmentFiling DEF Next
    <2>2. CASE UNCHANGED vars
        <3>1. UNCHANGED <<row, blob, drive, sent, begun>> /\ UNCHANGED worker BY <2>2 DEF vars, worker
        <3> QED BY <1>0, <3>1, UnseenStep
    <2> QED BY <2>1, <2>2
<1> QED BY <1>1, <1>2 DEF FilingInv

LEMMA InitFiling == Init => FilingInv /\ Promise!Init
<1> SUFFICES ASSUME Init PROVE FilingInv /\ Promise!Init OBVIOUS
<1>1. UploadInv BY InitUpload
<1>2. /\ NewRow.state = "none" /\ NewRow.target = None /\ NewRow.decision = None /\ NewRow.prepared = NotPrepared
      /\ NewRow.attempts = 0 /\ NewRow.analysis = None /\ NewRow.unverified = FALSE
      /\ NewRow.reanalyzed = FALSE /\ NewRow.discardRequested = FALSE
    BY DEF NewRow
<1>3. Sound(NewRow)
    BY <1>2 DEF Sound, StateFits, FilingHasDecision, ApprovalIsForgotten, DecidedIsPrepared, LookIsRemembered,
            DiscardIsWorking, UnreadHasNoAnalysis
<1>4. LedgerOK(NewRow, NoBlob, {}, 0, 0)
    BY <1>2 DEF LedgerOK, StoredIsTarget, RecordIsBlob, FiledIsHeld, UnbornIsEmpty, BegunIsCounted
<1>5. \A d \in Docs : row[d] = NewRow /\ blob[d] = NoBlob /\ drive[d] = {} /\ sent[d] = 0 /\ begun[d] = 0
    BY DEF Init
<1>6. AllSound /\ Ledger BY <1>3, <1>4, <1>5 DEF AllSound, Ledger
<1>7. WorkerInv
    <2>1. pc = "idle" BY DEF Init
    <2> QED BY <2>1 DEF WorkerInv, FilingAgrees, AnalyzingSame, PreparingForgot, UploadIsFirst, LookupHasTarget,
               StoredIsHeld, BegunWithinSnap, FileWaits
<1>8. Promise!Init
    <2>1. [d \in Docs |-> Phase(row[d])] = [d \in Docs |-> "none"] BY <1>2, <1>5 DEF Phase
    <2>2. [d \in Docs |-> row[d].state \in {"filed", "gone"} \/ PossiblyInDrive(row[d])] = [d \in Docs |-> FALSE]
        BY <1>2, <1>5 DEF PossiblyInDrive
    <2>3. [d \in Docs |-> drive[d] # {}] = [d \in Docs |-> FALSE] BY <1>5
    <2>4. sent = [d \in Docs |-> 0] BY DEF Init
    <2> QED BY <2>1, <2>2, <2>3, <2>4 DEF Promise!Init
<1> QED BY <1>1, <1>6, <1>7, <1>8 DEF FilingInv

LEMMA FilingHolds == Spec => []FilingInv /\ [][FilingInv /\ StepOK]_vars
<1>1. FilingInv /\ [Next]_vars => FilingInv' /\ (FilingInv /\ StepOK) BY StepFiling
<1>2. Init => FilingInv BY InitFiling
<1> QED BY <1>1, <1>2, PTL DEF Spec

\* One decision stores at most one file in Drive: a retry, a crash or a login
\* after a lost answer looks the file up before it uploads again (file.ts).
THEOREM OneUpload == Spec => []OneUploadPerDecision
<1>1. FilingInv => OneUploadPerDecision BY DEF FilingInv, Ledger, LedgerOK, OneUploadPerDecision
<1> QED BY <1>1, FilingHolds, PTL

\* A document is marked filed only when Drive has it at the place decided last and with
\* the bytes of the prepare run its row records (the original's where a purge that was
\* cut short took the prepared blob), whatever was retried, discarded, restored or
\* analyzed again in between.
THEOREM FiledWhereDecided == Spec => FiledAsDecided
<1> DEFINE A == \A d \in Docs : row[d].state # "filed" /\ row'[d].state = "filed" =>
        <<Place(row'[d].decision), IF blob[d].prepared = 0 THEN 0 ELSE row'[d].prepared>> \in drive[d]
<1>1. StepOK => A BY DEF StepOK, Careful, FiledRight
<1>2. FiledAsDecided <=> [][A]_vars BY DEF FiledAsDecided
<1> HIDE DEF A
<1> QED BY <1>1, <1>2, FilingHolds, PTL

\* No discard, restore, retry or login puts a row into filing without a decision and a
\* finished preparation.
THEOREM FilingDecided == Spec => []FilingIsDecided
<1>1. FilingInv => FilingIsDecided
    BY DEF FilingInv, AllSound, Sound, StateFits, FilingHasDecision, DecidedIsPrepared, FilingIsDecided
<1> QED BY <1>1, FilingHolds, PTL

\* A document its owner sent for another look is filed only on an approval.
THEOREM LookIsReviewed == Spec => []ReanalyzedIsReviewed
<1>1. FilingInv => ReanalyzedIsReviewed BY DEF FilingInv, AllSound, Sound, LookIsRemembered, ReanalyzedIsReviewed
<1> QED BY <1>1, FilingHolds, PTL

\* The attempts saved before each stage run bound the runs, crashes included
\* (attempts.ts), for every MAX_ATTEMPTS.
THEOREM AttemptsStayBounded == Spec => []AttemptsBounded
<1>1. ASSUME FilingInv PROVE AttemptsBounded
    <2>1. ASSUME NEW d \in Docs PROVE begun[d] <= MaxAttempts
        <3>1. begun[d] \in Nat /\ row[d] \in Rows /\ begun[d] <= row[d].attempts
            BY <1>1 DEF FilingInv, UploadInv, TypeOK, RowsOK, BooksOK, Ledger, LedgerOK, BegunIsCounted
        <3>2. row[d].attempts \in 0..MaxAttempts BY <3>1, RowFields
        <3> QED BY <3>1, <3>2, BoundAssumption
    <2> QED BY <2>1 DEF AttemptsBounded
<1>2. FilingInv => AttemptsBounded BY <1>1
<1> QED BY <1>2, FilingHolds, PTL

\* While a discard is pending and no upload may have happened, no statement of the
\* worker, a route, a login or a fault gives the document a result, a target or a
\* later stage (transition() and applyRequestedDiscard() in repo.ts).
THEOREM DiscardIsNotOverrun == Spec => DiscardNotOverrun
<1> DEFINE A == \A d \in Docs : row[d].discardRequested /\ ~PastTarget(row[d]) =>
        /\ row'[d].target \in {row[d].target, None}
        /\ row'[d].state \in {row[d].state, "discarded", "needs_review", "awaiting_login", "failed"}
<1>1. StepOK => A BY DEF StepOK, Obeys
<1>2. DiscardNotOverrun <=> [][A]_vars BY DEF DiscardNotOverrun
<1> HIDE DEF A
<1> QED BY <1>1, <1>2, FilingHolds, PTL

\* The inbox copy of a document goes only when Drive has one, or when its row says that
\* it was discarded: no crash, failure or sweep, and no purge that is cut between the
\* blobs and the row (worker.ts), deletes it in any other state.
THEOREM OriginalIsKept == Spec => OriginalKept
<1> DEFINE A == \A d \in Docs : blob[d].original /\ ~blob'[d].original =>
        \/ row[d].state \in {"discarded", "gone"}
        \/ row'[d].state = "filed" /\ drive[d] # {}
<1>1. StepOK => A BY DEF StepOK, Careful, OriginalStays
<1>2. OriginalKept <=> [][A]_vars BY DEF OriginalKept
<1> HIDE DEF A
<1> QED BY <1>1, <1>2, FilingHolds, PTL

\* The pipeline implements FilingPromise: each of its steps is a step of the promise or
\* a stutter, with the phase, the note and the holdings read off the rows and Drive.
THEOREM PipelineKeepsPromise == Spec => KeepsPromise
<1>1. StepOK => [Promise!Next]_(Promise!promise) BY DEF StepOK, PromiseStep
<1>2. UNCHANGED vars => UNCHANGED Promise!promise BY DEF vars, Promise!promise
<1>3. Init => Promise!Init BY InitFiling
<1> QED BY <1>1, <1>2, <1>3, FilingHolds, PTL DEF Spec, KeepsPromise, Promise!Spec
=============================================================================
