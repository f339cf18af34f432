------------------------------- MODULE Scanner -------------------------------
(***************************************************************************)
(* Scanning pages with the camera of a phone: the scans of the browser's   *)
(* database (scanner/scans-store.ts), the session that captures pages      *)
(* (scanner/scanner-session.ts), its screens (ui/ScannerScreen.tsx,        *)
(* ui/EditCornersScreen.tsx, ui/ResumePrompt.tsx), and what becomes of a   *)
(* finished scan until it is in the upload queue (uploads/scans.ts).       *)
(*                                                                         *)
(* One action is the code between two awaits. An awaited request to the    *)
(* database is one step: a later request of the page is not served before  *)
(* the answer to an earlier one has been delivered.                        *)
(***************************************************************************)
EXTENDS Naturals, Sequences, FiniteSets, Functions

CONSTANTS
    Mounts,        \* bound: openings of the scanner, numbered; the scan an opening creates has its number
    Captures,      \* bound: frames taken as pages, numbered; a second tap of Apply spends one
    Twice,         \* bound: the buttons tapped again while they work, which none of them forbids
    MaxSignIns,    \* bound: sign-ins
    MaxFaults,     \* bound: requests to the database, PDFs and cameras that fail
    None

ASSUME ScannerAssumption ==
    /\ Mounts \subseteq Nat /\ Captures \subseteq Nat /\ None \notin Mounts \cup Captures
    /\ Twice \subseteq {"apply", "done", "cancel", "discard"}
    /\ MaxSignIns \in Nat /\ MaxFaults \in Nat

Taps   == {1, 2}
MayTap(button, t, working) == IF working THEN t = 2 /\ button \in Twice ELSE t = 1
Gone   == [status |-> "none", count |-> 0, pages |-> <<>>]
Steps  == {"unused", "find", "delete", "put", "count", "camera", "ready", "failed"}
Works  == {"done-pages", "done-get", "done-put", "cancel", "discard"}

VARIABLES
    scan,       \* stores scans and pages: status, pageCount, and the pages by ordinal
    mount,      \* ScannerScreen and its session: where its effect is, and its scan
    cam, busy,  \* sessions whose camera (and frame loop) runs, and those with `capturing` set
    open,       \* the opening that is mounted
    shown,      \* pageCount of the mounted screen, as the pages that it counts
    edit,       \* pendingEdit of the mounted screen: the frame whose corners are adjusted
    commits,    \* commitPage() in flight
    works,      \* done(), cancel() and the prompt's discard in flight, with the row that finish() has read
    resume,     \* resume of App: the scan it prompts for
    finds,      \* findInProgress() of App in flight
    signedIn, signIns, taken, faults,   \* the last three are spent budgets
    send,       \* the queue: a scan's PDF is being built, is queued, was sent since the page was opened, or none of it
    promised,   \* history: the pages shown when Done was first tapped, until the scan is deleted
    pdf         \* the pages in the PDF of a scan, in the queue

app    == <<resume, finds, signedIn, signIns>>
screen == <<open, edit, shown>>
vars == <<scan, mount, cam, busy, open, edit, shown, commits, works, resume, finds, signedIn, signIns, taken,
          faults, send, promised, pdf>>

Seqs == UNION {[1..n -> Captures] : n \in 0..(2 * Cardinality(Captures))}

\* Every variable has its type.
TypeOK ==
    /\ \A s \in Mounts : /\ scan[s].status \in {"none", "in_progress", "completed"}
                         /\ scan[s].count \in Nat
                         /\ DOMAIN scan[s].pages \subseteq Nat /\ Range(scan[s].pages) \subseteq Captures
                         /\ promised[s] \in Seqs /\ pdf[s] \in Seqs \cup {None}
    /\ \A m \in Mounts : mount[m].step \in Steps /\ mount[m].scan \in Mounts \cup {None}
    /\ cam \subseteq Mounts /\ busy \subseteq Mounts /\ shown \in Seqs /\ open \in Mounts \cup {None} /\ edit \in Captures \cup {None}
    /\ commits \subseteq [mount : Mounts, page : Captures, tap : Taps, edited : BOOLEAN]
    /\ \A w \in works : w.kind \in Works /\ w.scan \in Mounts /\ w.tap \in Taps
    /\ resume \in Mounts \cup {None} /\ finds \in Nat
    /\ send \in [Mounts -> {"none", "get", "pages", "queued", "sent"}]

\* The app has loaded; nobody is signed in.
Init ==
    /\ scan = [s \in Mounts |-> Gone]
    /\ mount = [m \in Mounts |-> [step |-> "unused", scan |-> None]]
    /\ cam = {} /\ busy = {} /\ open = None /\ edit = None /\ shown = <<>> /\ commits = {} /\ works = {}
    /\ resume = None /\ finds = 0 /\ signedIn = FALSE /\ signIns = 0 /\ taken = 0 /\ faults = 0
    /\ send = [s \in Mounts |-> "none"] /\ promised = [s \in Mounts |-> <<>>] /\ pdf = [s \in Mounts |-> None]

Fault == faults < MaxFaults /\ faults' = faults + 1
At(m, step)   == mount[m].step = step
Go(m, step)   == mount' = [mount EXCEPT ![m].step = step]
InProgress    == {s \in Mounts : scan[s].status = "in_progress"}
Oldest(ss)    == CHOOSE s \in ss : \A t \in ss : s <= t
Delete(s)     == scan' = [scan EXCEPT ![s] = Gone] /\ promised' = [promised EXCEPT ![s] = <<>>]
Inbox         == signedIn /\ open = None

\* getPages(): in the order of their ordinals.
Ascends(at) == \A i, j \in DOMAIN at : i < j => at[i] < at[j]
InOrder(ordinals) == CHOOSE at \in [1..Cardinality(ordinals) -> ordinals] : Ascends(at)
GetPages(s) ==
    LET pages == scan[s].pages
        at    == InOrder(DOMAIN pages)
    IN  [i \in DOMAIN at |-> pages[at[i]]]

-----------------------------------------------------------------------------
(* The prompt, and the opening of the scanner.                             *)

\* The effect of App on a sign-in looks for a scan that was not finished.
SignIn ==
    /\ ~signedIn /\ signIns < MaxSignIns
    /\ signedIn' = TRUE /\ signIns' = signIns + 1 /\ finds' = finds + 1
    /\ UNCHANGED <<scan, mount, cam, busy, screen, commits, works, resume, taken, faults, send, promised, pdf>>
Found == IF InProgress = {} THEN None ELSE Oldest(InProgress)
FindLands ==
    /\ finds > 0 /\ finds' = finds - 1
    /\ (resume' = Found /\ UNCHANGED faults) \/ (Fault /\ UNCHANGED resume)
    /\ UNCHANGED <<scan, mount, cam, busy, screen, commits, works, signedIn, signIns, taken, send, promised, pdf>>

\* The scanner's screen goes, if it is there: its session is stopped, if it has one by then.
HasSession(m) == mount[m].step \in {"count", "camera", "ready"}
Stopped(m)    == cam' = cam \ {m}
Leaves        == open' = None /\ edit' = None /\ shown' = <<>> /\ Stopped(open)

\* An answer of 401 anywhere: the sign-in screen replaces whatever is shown.
SignedOut ==
    /\ signedIn /\ signedIn' = FALSE
    /\ Leaves
    /\ UNCHANGED <<scan, mount, busy, commits, works, resume, finds, signIns, taken, faults, send, promised, pdf>>

\* Scan, from the inbox; Resume, from the prompt that takes its place.
IsNext(m) == At(m, "unused") /\ \A n \in Mounts : n < m => ~At(n, "unused")
Mount(m, step, s) ==
    /\ Inbox /\ IsNext(m)
    /\ mount' = [mount EXCEPT ![m] = [step |-> step, scan |-> s]]
    /\ open' = m
    /\ UNCHANGED <<scan, cam, busy, edit, shown, commits, works, finds, signedIn, signIns, taken, faults, send, promised, pdf>>
ScanTapped(m) == resume = None /\ Mount(m, "find", None) /\ UNCHANGED resume
Resume(m)     == resume # None /\ Mount(m, "count", resume) /\ resume' = None

\* Discard, of the prompt, which stays until the scan is deleted.
Discard(t) ==
    /\ Inbox /\ resume # None /\ MayTap("discard", t, \E w \in works : w.kind = "discard" /\ w.scan = resume)
    /\ works' = works \cup {[kind |-> "discard", mount |-> None, scan |-> resume, tap |-> t, count |-> 0]}
    /\ UNCHANGED <<scan, mount, cam, busy, screen, commits, app, taken, faults, send, promised, pdf>>
DiscardDeletes(w) ==
    /\ w \in works /\ w.kind = "discard" /\ works' = works \ {w}
    /\ (Delete(w.scan) /\ resume' = None /\ UNCHANGED faults) \/ (Fault /\ UNCHANGED <<scan, resume, promised>>)
    /\ UNCHANGED <<mount, cam, busy, screen, commits, finds, signedIn, signIns, taken, send, pdf>>

\* createInProgress(): a scan that was not finished goes, then the new one comes.
CreateFinds(m) ==
    /\ At(m, "find")
    /\ mount' = [mount EXCEPT ![m] = [step |-> IF InProgress = {} THEN "put" ELSE "delete", scan |-> Found]]
    /\ UNCHANGED <<scan, cam, busy, screen, commits, works, app, taken, faults, send, promised, pdf>>
CreateDeletes(m) ==
    /\ At(m, "delete")
    /\ Delete(mount[m].scan) /\ Go(m, "put")
    /\ UNCHANGED <<cam, busy, screen, commits, works, app, taken, faults, send, pdf>>
\* An opening that was left meanwhile stops there; the scan stays, without pages.
CreatePuts(m) ==
    /\ At(m, "put")
    /\ scan' = [scan EXCEPT ![m] = [status |-> "in_progress", count |-> 0, pages |-> <<>>]]
    /\ mount' = [mount EXCEPT ![m] = [step |-> IF open = m THEN "camera" ELSE "failed", scan |-> m]]
    /\ UNCHANGED <<cam, busy, screen, commits, works, app, taken, faults, send, promised, pdf>>
CreateFails(m) ==
    /\ mount[m].step \in {"find", "delete", "put"} /\ Fault
    /\ mount' = [mount EXCEPT ![m] = [step |-> "failed", scan |-> None]]
    /\ UNCHANGED <<scan, cam, busy, screen, commits, works, app, taken, send, promised, pdf>>

\* A resumed scan shows the pages it has; an opening that was left has no video to attach.
ResumeCounts(m) ==
    /\ At(m, "count")
    /\ IF open = m THEN Go(m, "camera") /\ shown' = GetPages(mount[m].scan)
                    ELSE Go(m, "failed") /\ UNCHANGED shown
    /\ UNCHANGED <<scan, cam, busy, open, edit, commits, works, app, taken, faults, send, promised, pdf>>

\* attachVideo(): the camera starts, or cannot; whoever has left by now.
CameraStarts(m) ==
    /\ At(m, "camera") /\ Go(m, "ready") /\ cam' = cam \cup {m}
    /\ UNCHANGED <<scan, busy, screen, commits, works, app, taken, faults, send, promised, pdf>>
CameraFails(m) ==
    /\ mount[m].step \in {"count", "camera"} /\ Fault /\ Go(m, "failed")
    /\ UNCHANGED <<scan, cam, busy, screen, commits, works, app, taken, send, promised, pdf>>
\* Back, on the screen that says that the camera is not available: the scan stays.
Back ==
    /\ open # None /\ At(open, "failed")
    /\ Leaves
    /\ UNCHANGED <<scan, mount, busy, commits, works, app, taken, faults, send, promised, pdf>>

-----------------------------------------------------------------------------
(* Pages.                                                                  *)

NextPage == taken + 1

\* commitPage(): the frame is flattened, then appended.
Commit(m, page, tap, edited) ==
    /\ commits' = commits \cup {[mount |-> m, page |-> page, tap |-> tap, edited |-> edited]}
    /\ busy' = busy \cup {m}

\* A stable frame, when no capture is going on, while the corners of another
\* frame are adjusted too.
AutoCapture(m) ==
    /\ m \in cam \ busy /\ NextPage \in Captures /\ taken' = NextPage
    /\ Commit(m, NextPage, 1, FALSE)
    /\ UNCHANGED <<scan, mount, cam, screen, works, app, faults, send, promised, pdf>>

\* The shutter, and the screen where the corners are adjusted.
Shutter ==
    /\ open \in cam /\ edit = None /\ NextPage \in Captures /\ taken' = NextPage
    /\ edit' = NextPage
    /\ UNCHANGED <<scan, mount, cam, busy, open, shown, commits, works, app, faults, send, promised, pdf>>
EditCancelled ==
    /\ edit # None /\ edit' = None
    /\ UNCHANGED <<scan, mount, cam, busy, open, shown, commits, works, app, taken, faults, send, promised, pdf>>
Apply(tap) ==
    /\ edit # None
    /\ MayTap("apply", tap, \E k \in commits : k.page = edit)
    /\ IF tap = 1 THEN UNCHANGED taken ELSE NextPage \in Captures /\ taken' = NextPage
    /\ Commit(open, edit, tap, TRUE)
    /\ UNCHANGED <<scan, mount, cam, screen, works, app, faults, send, promised, pdf>>

\* appendPage(), in one transaction, at the ordinal that the row has counted to.
SlipOrdinal(k) == Len(shown)
Ordinal(k)     == scan[mount[k.mount].scan].count
Appended(row, ordinal, page) ==
    [row EXCEPT !.count = ordinal + 1,
                !.pages = [o \in DOMAIN @ \cup {ordinal} |-> IF o = ordinal THEN page ELSE @[o]]]
CommitEnds(k) ==
    /\ k \in commits /\ commits' = commits \ {k}
    /\ busy' = busy \ {k.mount}
    /\ UNCHANGED <<cam, open, works, app, taken, send, promised, pdf>>
\* The page is shown once it is stored. An edit ends, the one that is shown by then.
ClosesEdit(k) == k.edited /\ open = k.mount
CommitAppends(k) ==
    /\ CommitEnds(k)
    /\ LET s == mount[k.mount].scan
       IN  /\ scan[s].status # "none"
           /\ scan' = [scan EXCEPT ![s] = Appended(@, Ordinal(k), k.page)]
    /\ shown' = IF open = k.mount THEN Append(shown, k.page) ELSE shown
    /\ UNCHANGED mount
    /\ edit' = IF ClosesEdit(k) THEN None ELSE edit
    /\ UNCHANGED faults
CommitFails(k) ==
    /\ CommitEnds(k)
    /\ (scan[mount[k.mount].scan].status = "none" /\ UNCHANGED faults) \/ Fault
    /\ UNCHANGED <<scan, mount, edit, shown>>

-----------------------------------------------------------------------------
(* Done and Cancel.                                                        *)

Working(kinds, m) == \E w \in works : w.mount = m /\ w.kind \in kinds
Work(kind, m, t)  == [kind |-> kind, mount |-> m, scan |-> mount[m].scan, tap |-> t, count |-> 0]
Shows(m)          == open = m /\ edit = None /\ ~At(m, "failed")

\* The session stops its camera, but not the capture that is going on.
Finishing  == {"done-pages", "done-get", "done-put"}
IsFirst(s) == scan[s].status = "in_progress" /\ ~\E w \in works : w.scan = s /\ w.kind \in Finishing
Done(m, t) ==
    /\ Shows(m) /\ HasSession(m) /\ shown # <<>>
    /\ MayTap("done", t, Working(Finishing, m))
    /\ Stopped(m) /\ works' = works \cup {Work("done-pages", m, t)}
    /\ promised' = IF IsFirst(mount[m].scan) THEN [promised EXCEPT ![mount[m].scan] = shown] ELSE promised
    /\ UNCHANGED <<scan, mount, busy, screen, commits, app, taken, faults, send, pdf>>

\* finish(): the first page becomes the thumbnail, then the row is read and written.
FinishReads(w) ==
    /\ w \in works /\ w.kind = "done-pages" /\ scan[w.scan].pages # <<>>
    /\ works' = (works \ {w}) \cup {[w EXCEPT !.kind = "done-get"]}
    /\ UNCHANGED <<scan, mount, cam, busy, screen, commits, app, taken, faults, send, promised, pdf>>
FinishGets(w) ==
    /\ w \in works /\ w.kind = "done-get" /\ scan[w.scan].status # "none"
    /\ works' = (works \ {w}) \cup {[w EXCEPT !.kind = "done-put", !.count = scan[w.scan].count]}
    /\ UNCHANGED <<scan, mount, cam, busy, screen, commits, app, taken, faults, send, promised, pdf>>
\* The scan is sent, and the app is back in the inbox; addScan() leaves a scan
\* alone that is on its way already.
FinishPuts(w) ==
    /\ w \in works /\ w.kind = "done-put" /\ works' = works \ {w}
    /\ scan' = [scan EXCEPT ![w.scan].status = "completed", ![w.scan].count = w.count]
    /\ send' = [send EXCEPT ![w.scan] = IF @ = "none" THEN "get" ELSE @]
    /\ Leaves
    /\ UNCHANGED <<mount, busy, commits, app, taken, faults, promised, pdf>>
FinishFails(w) ==
    /\ w \in works /\ w.kind \in Finishing /\ works' = works \ {w}
    /\ \/ w.kind = "done-pages" /\ scan[w.scan].pages = <<>> /\ UNCHANGED faults
       \/ w.kind = "done-get" /\ scan[w.scan].status = "none" /\ UNCHANGED faults
       \/ Fault
    /\ UNCHANGED <<scan, mount, cam, busy, screen, commits, app, taken, send, promised, pdf>>

\* Cancel deletes the scan, if there is a session yet, and goes back.
Cancel(m, t) ==
    /\ Shows(m) /\ HasSession(m)
    /\ MayTap("cancel", t, Working({"cancel"}, m))
    /\ Stopped(m) /\ works' = works \cup {Work("cancel", m, t)}
    /\ UNCHANGED <<scan, mount, busy, screen, commits, app, taken, faults, send, promised, pdf>>
CancelDeletes(w) ==
    /\ w \in works /\ w.kind = "cancel" /\ works' = works \ {w}
    /\ \/ Delete(w.scan) /\ Leaves /\ UNCHANGED faults
       \/ Fault /\ UNCHANGED <<scan, screen, cam, promised>>
    /\ UNCHANGED <<mount, busy, commits, app, taken, send, pdf>>
CancelEarly(m) ==
    /\ Shows(m) /\ ~HasSession(m)
    /\ Leaves
    /\ UNCHANGED <<scan, mount, busy, commits, works, app, taken, faults, send, promised, pdf>>

-----------------------------------------------------------------------------
(* Sending.                                                                *)

\* Send, of a scan that is left on this device.
SendListed(s) ==
    /\ Inbox /\ resume = None /\ scan[s].status = "completed" /\ send[s] = "none"
    /\ send' = [send EXCEPT ![s] = "get"]
    /\ UNCHANGED <<scan, mount, cam, busy, screen, commits, works, app, taken, faults, promised, pdf>>

\* The PDF is built from the pages that are there, and queued.
SendGets(s) ==
    /\ send[s] = "get" /\ send' = [send EXCEPT ![s] = IF scan[s].status = "none" THEN "none" ELSE "pages"]
    /\ UNCHANGED <<scan, mount, cam, busy, screen, commits, works, app, taken, faults, promised, pdf>>
SlipBuilt(s) == Tail(GetPages(s))
Built(s)     == GetPages(s)
SendBuilds(s) ==
    /\ send[s] = "pages" /\ scan[s].pages # <<>>
    /\ send' = [send EXCEPT ![s] = "queued"] /\ pdf' = [pdf EXCEPT ![s] = Built(s)]
    /\ UNCHANGED <<scan, mount, cam, busy, screen, commits, works, app, taken, faults, promised>>
SendFails(s) ==
    /\ send[s] = "pages" /\ ((scan[s].pages = <<>> /\ UNCHANGED faults) \/ Fault)
    /\ send' = [send EXCEPT ![s] = "none"]
    /\ UNCHANGED <<scan, mount, cam, busy, screen, commits, works, app, taken, promised, pdf>>

\* The server has the PDF: the scan is deleted (the upload itself is UploadQueue).
Uploaded(s) ==
    /\ send[s] = "queued" /\ send' = [send EXCEPT ![s] = "sent"] /\ pdf' = [pdf EXCEPT ![s] = None]
    /\ (Delete(s) /\ UNCHANGED faults) \/ (Fault /\ UNCHANGED <<scan, promised>>)
    /\ UNCHANGED <<mount, cam, busy, screen, commits, works, app, taken>>

-----------------------------------------------------------------------------
\* The page closes and is opened again: what is stored stays, with the queue.
PageCloses ==
    /\ signedIn /\ signIns < MaxSignIns
    /\ mount' = [m \in Mounts |-> [mount[m] EXCEPT !.step = IF @ = "unused" THEN @ ELSE "failed"]]
    /\ cam' = {} /\ busy' = {} /\ open' = None /\ edit' = None /\ shown' = <<>> /\ commits' = {} /\ works' = {}
    /\ resume' = None /\ finds' = 0 /\ signedIn' = FALSE
    /\ send' = [s \in Mounts |-> IF send[s] = "queued" THEN "queued" ELSE "none"]
    /\ UNCHANGED <<scan, signIns, taken, faults, promised, pdf>>

Screens ==
    \/ SignIn \/ SignedOut \/ FindLands \/ Back \/ Shutter \/ EditCancelled \/ PageCloses
    \/ \E t \in Taps : Discard(t) \/ Apply(t)
Opening(m) ==
    \/ ScanTapped(m) \/ Resume(m) \/ CameraStarts(m) \/ CameraFails(m) \/ AutoCapture(m) \/ CancelEarly(m)
    \/ \E t \in Taps : Done(m, t) \/ Cancel(m, t)
Creating(m)  == CreateFinds(m) \/ CreateDeletes(m) \/ CreatePuts(m) \/ CreateFails(m) \/ ResumeCounts(m)
Finished(w)  == FinishReads(w) \/ FinishGets(w) \/ FinishPuts(w) \/ FinishFails(w)
Cancelled(w) == DiscardDeletes(w) \/ CancelDeletes(w)
Sending(s)   == SendListed(s) \/ SendGets(s) \/ SendBuilds(s) \/ SendFails(s) \/ Uploaded(s)
\* Requests to the database: the one of the last sign-in goes first.
Requests ==
    /\ finds = 0
    /\ \/ \E m \in Mounts : Creating(m) \/ Sending(m)
       \/ \E w \in works : Finished(w) \/ Cancelled(w)
       \/ \E k \in commits : CommitAppends(k) \/ CommitFails(k)
Next == Screens \/ (\E m \in Mounts : Opening(m)) \/ Requests
Spec == Init /\ [][Next]_vars

-----------------------------------------------------------------------------
(* Properties.                                                             *)

\* While a scan is not finished, its pages only grow at the end: captures of
\* one session or of two that hold the same scan, taps of Apply, and a capture
\* that outlives its screen write over none (scans-store.ts:90).
PagesOnlyAdded ==
    [][scan' # scan => \A s \in InProgress \cap InProgress' :
          LET old == scan[s].pages  new == scan'[s].pages
          IN  /\ DOMAIN old \subseteq DOMAIN new /\ \A o \in DOMAIN old : new[o] = old[o]
              /\ \A o \in DOMAIN new \ DOMAIN old, p \in DOMAIN old : p < o]_vars

\* Every page that was shown when Done was first tapped is in the PDF, in the order
\* it was shown, whatever captures, taps and other openings of the scan do
\* while it is finished and built (ScannerScreen.tsx:110, scans.ts:20).
IsWithin(some, all) ==
    \E at \in [DOMAIN some -> DOMAIN all] : Ascends(at) /\ \A i \in DOMAIN some : some[i] = all[at[i]]
ShownIsSent ==
    [][pdf' # pdf => \A s \in Mounts : pdf'[s] \notin {pdf[s], None} => IsWithin(promised[s], pdf'[s])]_vars

=============================================================================
