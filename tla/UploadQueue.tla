----------------------------- MODULE UploadQueue -----------------------------
(***************************************************************************)
(* The upload queue of the app (pwa/src/uploads): files and scans on their  *)
(* way to the server, kept in IndexedDB until the server has them, with the *)
(* device's scans, the sign-in and the server's intake route around it.     *)
(*                                                                         *)
(* JavaScript runs one handler at a time, so the code between two awaits is *)
(* one action. What is awaited: the read of the stored queue, a scan's PDF, *)
(* a write to IndexedDB (writes commit in the order they were asked for),   *)
(* the upload's answer, the deletion of a scan. Closing the page loses all  *)
(* of memory, and any number of the last writes.                            *)
(*                                                                         *)
(* Slip... operators are not part of the model; see DocumentPipeline.       *)
(***************************************************************************)
EXTENDS Naturals, Sequences

CONSTANTS
    Files,        \* what can be uploaded, told apart by its bytes (sha256)
    Scans,        \* those of them that are scans made on this device
    TooLarge,     \* those over MAX_UPLOAD_BYTES
    MaxItems,     \* bound: items ever queued
    MaxSessions,  \* bound: sign-ins
    MaxCloses,    \* bound: times the page is closed
    MaxFaults,    \* bound: failures of IndexedDB
    None

ASSUME FileAssumption == Scans \subseteq Files /\ TooLarge \subseteq Files \ Scans /\ None \notin Files
ASSUME BoundAssumption ==
    MaxItems \in Nat /\ MaxSessions \in Nat /\ MaxCloses \in Nat /\ MaxFaults \in Nat

\* An upload item; its id is its place in the order of creation, due is
\* nextAttemptAt <= now. Items are listed, and taken, in that order.
Ids   == 1..MaxItems
Items == [file: Files, state: {"queued", "failed"}, due: BOOLEAN]

\* A write to the store, and the call that waits for it.
Writes == [id: Ids, item: Items \cup {None}, by: {"add", "retry", "save", "forget", "remove"}]

\* The item in upload() as it was read, in which session, and what is awaited:
\* the answer ("taken": the server has the file), the write of a refusal, or a
\* step of accepted().
Uploads == [id: Ids, item: Items, session: 1..MaxSessions,
            at: {"sending", "taken", "saving", "deleting", "forgetting"}]
ASSUME NoneAssumption == None \notin Items \cup Uploads

VARIABLES
    items,      \* UploadQueue.items
    stored,     \* the uploads store in IndexedDB
    writes,     \* writes asked for and not committed
    loading,    \* load(): "no", "reading" or "done"
    startWaits, \* a start() waits for the load
    coming,     \* add() and addScan() calls by file: "no", "building", "ready", "putting"
    sentScans,  \* UploadQueue.sentScans
    active,     \* the item in upload(), or None
    timer,      \* a timeout will kick
    running, paused, session,
    online,
    device,     \* finished scans in the scans store
    listed,     \* the device-scan list as last read
    signedIn,   \* the server accepts this browser's session
    doc,        \* the server's newest document of each file
    nextId, closes, faults,   \* ids given out; spent budgets
    owed,       \* history: files whose add() succeeded and whose item the user did not remove
    scanned,    \* history: scans finished and not deleted by the user
    reached,    \* history: items still known that the server has taken before
    gone,       \* history: items removed since the page was opened
    excused     \* history: scans whose delete failed, or whose item the user removed

queue   == <<items, stored, writes>>
loads   == <<loading, startWaits, coming>>
sending == <<active, timer>>
signing == <<running, paused, session, signedIn>>
local   == <<device, listed, sentScans>>
told    == <<owed, scanned, reached, gone, excused>>
vars    == <<items, stored, writes, loading, startWaits, coming, sentScans, active, timer, running,
             paused, session, online, device, listed, signedIn, doc, nextId, closes, faults,
             owed, scanned, reached, gone, excused>>

\* Every variable has its type, and the item in upload() is in the queue.
TypeOK ==
    /\ items \in [Ids -> Items \cup {None}] /\ stored \in [Ids -> Items \cup {None}]
    /\ writes \in Seq(Writes)
    /\ loading \in {"no", "reading", "done"} /\ startWaits \in BOOLEAN
    /\ coming \in [Files -> {"no", "building", "ready", "putting"}]
    /\ active \in Uploads \cup {None} /\ timer \in BOOLEAN
    /\ active # None => items[active.id] # None
    /\ running \in BOOLEAN /\ paused \in BOOLEAN /\ session \in 0..MaxSessions
    /\ online \in BOOLEAN /\ signedIn \in BOOLEAN
    /\ device \subseteq Scans /\ listed \subseteq Scans /\ sentScans \subseteq Scans
    /\ doc \in [Files -> {"none", "kept", "discarded"}]
    /\ nextId \in 1..(MaxItems + 1) /\ closes \in 0..MaxCloses /\ faults \in 0..MaxFaults
    /\ owed \subseteq Files /\ scanned \subseteq Scans
    /\ reached \subseteq Ids /\ gone \subseteq Ids /\ excused \subseteq Scans

\* The page was just opened; scans may be left from before they went to the server.
Init ==
    /\ items = [i \in Ids |-> None] /\ writes = <<>>
    /\ loading = "no" /\ startWaits = FALSE /\ coming = [f \in Files |-> "no"]
    /\ sentScans = {} /\ listed = {} /\ active = None /\ timer = FALSE
    /\ running = FALSE /\ paused = FALSE /\ gone = {}
    /\ stored = [i \in Ids |-> None] /\ session = 0 /\ online \in BOOLEAN
    /\ scanned \in SUBSET Scans /\ device = scanned /\ signedIn = FALSE /\ doc = [f \in Files |-> "none"]
    /\ nextId = 1 /\ closes = 0 /\ faults = 0
    /\ owed = {} /\ reached = {} /\ excused = {}

-----------------------------------------------------------------------------
(* kick(), and what the queue knows.                                       *)

Queued(its) == {i \in Ids : its[i] # None /\ its[i].state = "queued"}
Due(its)    == {i \in Queued(its) : its[i].due}
Oldest(ids) == CHOOSE i \in ids : \A j \in ids : i <= j
Holds(its, f) == \E i \in Ids : its[i] # None /\ its[i].file = f
IsActive(i) == active # None /\ active.id = i

\* hasScan(): being built, queued, or accepted since the page was opened.
HasScan(s)     == coming[s] # "no" \/ Holds(items, s) \/ s \in sentScans

\* Nothing is due: a timeout until something is.
SlipSetsTimer == online' /\ Due(items') # {}
SetsTimer     == online' /\ Queued(items') # {}

\* kick() at the end of a handler; act is the upload under way then.
Kick(act) ==
    IF ~running' \/ paused' \/ act # None
    THEN active' = act /\ UNCHANGED timer
    ELSE IF online' /\ Due(items') # {}
    THEN LET i == Oldest(Due(items'))
         IN  /\ active' = [id |-> i, item |-> items'[i], session |-> session', at |-> "sending"]
             /\ timer' = FALSE
    ELSE active' = None /\ timer' = SetsTimer

-----------------------------------------------------------------------------
(* load(), add(), addScan().                                               *)

\* load(): one read, shared by every caller.
Load == loading' = IF loading = "no" THEN "reading" ELSE loading

LoadDone ==
    /\ loading = "reading" /\ loading' = "done" /\ startWaits' = FALSE
    /\ items' = [i \in Ids |-> IF items[i] # None THEN items[i] ELSE stored[i]]
    /\ UNCHANGED <<signing, online>>
    /\ IF startWaits THEN Kick(active) ELSE UNCHANGED sending
    /\ UNCHANGED <<stored, writes, coming, local, doc, nextId, closes, faults, told>>

\* The read failed, and with it every call that waits for it. The next call reads again.
LoadFails ==
    /\ loading = "reading" /\ faults < MaxFaults /\ faults' = faults + 1
    /\ loading' = "no" /\ startWaits' = FALSE
    /\ coming' = [f \in Files |-> IF coming[f] = "ready" THEN "no" ELSE coming[f]]
    /\ UNCHANGED <<queue, sending, signing, online, local, doc, nextId, closes, told>>

\* add() of one picked file.
Pick(f) ==
    /\ running /\ f \in Files \ Scans /\ coming[f] = "no" /\ nextId <= MaxItems
    /\ coming' = [coming EXCEPT ![f] = "ready"] /\ Load
    /\ UNCHANGED <<queue, startWaits, sending, signing, online, local, doc, nextId, closes, faults, told>>

\* Scanner's Done: the scan is saved, and addScan() claims it.
FinishScan(s) ==
    /\ running /\ s \in Scans \ scanned /\ ~HasScan(s) /\ doc[s] = "none"
    /\ scanned' = scanned \cup {s} /\ device' = device \cup {s}
    /\ coming' = [coming EXCEPT ![s] = "building"]
    /\ UNCHANGED <<queue, loading, startWaits, sending, signing, online, listed, sentScans, doc,
                   nextId, closes, faults, owed, reached, gone, excused>>

\* The inbox lists a scan on the device unless it is on its way.
Offered == {s \in listed : ~HasScan(s)}
ReadList ==
    /\ listed' = device
    /\ UNCHANGED <<queue, loads, sending, signing, online, device, sentScans, doc, nextId, closes, faults, told>>

SendScan(s) ==
    /\ running /\ s \in Offered
    /\ coming' = [coming EXCEPT ![s] = "building"]
    /\ UNCHANGED <<queue, loading, startWaits, sending, signing, online, local, doc, nextId, closes, faults, told>>

DeleteScan(s) ==
    /\ running /\ s \in Offered
    /\ device' = device \ {s} /\ scanned' = scanned \ {s}
    /\ UNCHANGED <<queue, loads, sending, signing, online, listed, sentScans, doc, nextId, closes, faults,
                   owed, reached, gone, excused>>

\* The PDF is built and add() called; it cannot be built of a scan that is gone.
Built(s) ==
    /\ coming[s] = "building" /\ s \in device
    /\ coming' = [coming EXCEPT ![s] = "ready"] /\ Load
    /\ UNCHANGED <<queue, startWaits, sending, signing, online, local, doc, nextId, closes, faults, told>>
NotBuilt(s) ==
    /\ coming[s] = "building"
    /\ coming' = [coming EXCEPT ![s] = "no"]
    /\ UNCHANGED <<queue, loading, startWaits, sending, signing, online, local, doc, nextId, closes, faults, told>>

\* add() after the load: the item is written before the queue shows it.
AddPuts(f) ==
    /\ coming[f] = "ready" /\ loading = "done" /\ nextId <= MaxItems
    /\ coming' = [coming EXCEPT ![f] = "putting"] /\ nextId' = nextId + 1
    /\ LET new == [file |-> f, state |-> IF f \in TooLarge THEN "failed" ELSE "queued", due |-> TRUE]
       IN  writes' = Append(writes, [id |-> nextId, item |-> new, by |-> "add"])
    /\ UNCHANGED <<items, stored, loading, startWaits, sending, signing, online, local, doc, closes, faults, told>>

-----------------------------------------------------------------------------
(* IndexedDB answers the call that waits for the first write.              *)

Committed(s, w) == [s EXCEPT ![w.id] = w.item]
Written(by, ok) ==
    /\ writes # <<>> /\ Head(writes).by = by /\ writes' = Tail(writes)
    /\ IF ok THEN stored' = Committed(stored, Head(writes)) /\ UNCHANGED faults
             ELSE UNCHANGED stored /\ faults < MaxFaults /\ faults' = faults + 1

AddWritten(ok) ==
    /\ Written("add", ok)
    /\ LET w == Head(writes)
       IN  /\ items' = IF ok THEN Committed(items, w) ELSE items
           /\ owed' = IF ok THEN owed \cup {w.item.file} ELSE owed
           /\ coming' = [coming EXCEPT ![w.item.file] = "no"]
    /\ UNCHANGED <<signing, online>> /\ Kick(active)
    /\ UNCHANGED <<loading, startWaits, local, doc, nextId, closes, scanned, reached, gone, excused>>

\* retry() kicks only after its write.
RetryWritten(ok) ==
    /\ Written("retry", ok) /\ UNCHANGED <<items, signing, online>>
    /\ IF ok THEN Kick(active) ELSE UNCHANGED sending
    /\ UNCHANGED <<loads, local, doc, nextId, closes, told>>

RemoveWritten(ok) ==
    /\ Written("remove", ok)
    /\ UNCHANGED <<items, loads, sending, signing, online, local, doc, nextId, closes, told>>

\* A refusal is recorded, or not: upload() ends either way.
SaveWritten(ok) ==
    /\ Written("save", ok) /\ UNCHANGED <<items, signing, online>> /\ Kick(None)
    /\ UNCHANGED <<loads, local, doc, nextId, closes, told>>

-----------------------------------------------------------------------------
(* upload(), accepted(), refused().                                        *)

\* accepted() deletes the scan before it forgets the upload.
SlipFollowUps == <<"forgetting", "deleting">>
FollowUps == <<"deleting", "forgetting">>
Forget(i) == [id |-> i, item |-> None, by |-> "forget"]

\* The step of accepted() after k steps; after the last one upload() ends.
Follow(k, w) ==
    IF k = Len(FollowUps)
    THEN /\ sentScans' = sentScans \cup ({active.item.file} \cap Scans)
         /\ items' = [items EXCEPT ![active.id] = None] /\ reached' = reached \ {active.id}
         /\ writes' = w /\ UNCHANGED <<signing, online>> /\ Kick(None)
    ELSE /\ writes' = IF FollowUps[k + 1] = "forgetting"
                      THEN Append(w, Forget(active.id)) ELSE w
         /\ active' = [active EXCEPT !.at = FollowUps[k + 1]]
         /\ UNCHANGED <<sentScans, items, reached, signing, online, timer>>
Done(step) == CHOOSE k \in 1..Len(FollowUps) : FollowUps[k] = step

\* The server's answers: the document's id; a success or redirect that is not
\* the server's own; no answer, a timeout, 408, 409, 429 or 5xx; a permanent
\* refusal, or a file that can no longer be read; 401.
SlipAccepts(a) == a \in {"id", "portal"}
Accepts(a)     == a = "id"
Transient(a)   == a \in {"portal", "busy"}

\* The intake route: the same bytes are the same document unless it was discarded.
ServerTakes ==
    /\ active # None /\ active.at = "sending" /\ (signedIn \/ active.session # session)
    /\ active.item.file \notin TooLarge
    /\ doc' = [doc EXCEPT ![active.item.file] = "kept"]
    /\ active' = [active EXCEPT !.at = "taken"] /\ reached' = reached \cup {active.id}
    /\ UNCHANGED <<queue, loads, timer, signing, online, local, nextId, closes, faults,
                   owed, scanned, gone, excused>>

CanAnswer(a) ==
    /\ active # None
    /\ CASE a = "id"   -> active.at = "taken"
         [] a = "busy" -> active.at \in {"sending", "taken"}
         [] a = "401"  -> active.at = "sending" /\ (~signedIn \/ active.session # session)
         [] OTHER      -> active.at = "sending"

UploadAccepted(a) ==
    /\ CanAnswer(a) /\ Accepts(a)
    /\ Follow(0, writes)
    /\ UNCHANGED <<stored, loads, device, listed, doc, nextId, closes, faults, owed, scanned, gone, excused>>

\* save(): memory first, and only an item that is still there.
UploadRefused(a) ==
    /\ CanAnswer(a) /\ ~Accepts(a) /\ a # "401"
    /\ LET new == IF Transient(a) THEN [active.item EXCEPT !.due = FALSE]
                                  ELSE [active.item EXCEPT !.state = "failed"]
       IN  IF items[active.id] # None
           THEN /\ items' = [items EXCEPT ![active.id] = new]
                /\ writes' = Append(writes, [id |-> active.id, item |-> new, by |-> "save"])
                /\ active' = [active EXCEPT !.at = "saving"]
                /\ UNCHANGED <<timer, signing, online>>
           ELSE UNCHANGED <<items, writes, signing, online>> /\ Kick(None)
    /\ UNCHANGED <<stored, loads, local, doc, nextId, closes, faults, told>>

\* A 401 pauses the queue, unless the request was sent in an earlier session.
SlipOwnSession == TRUE
OwnSession     == active.session = session
UploadUnauthorized ==
    /\ CanAnswer("401")
    /\ paused' = IF OwnSession THEN TRUE ELSE paused
    /\ UNCHANGED <<items, running, session, signedIn, online>> /\ Kick(None)
    /\ UNCHANGED <<stored, writes, loads, local, doc, nextId, closes, faults, told>>

\* onUploaded(): a scan's local copy goes, or the delete fails.
ScanDeleted ==
    /\ active # None /\ active.at = "deleting"
    /\ device' = device \ {active.item.file}
    /\ Follow(Done("deleting"), writes)
    /\ UNCHANGED <<stored, loads, listed, doc, nextId, closes, faults, owed, scanned, gone, excused>>
ScanNotDeleted ==
    /\ active # None /\ active.at = "deleting" /\ active.item.file \in Scans
    /\ faults < MaxFaults /\ faults' = faults + 1
    /\ excused' = excused \cup {active.item.file}
    /\ Follow(Done("deleting"), writes)
    /\ UNCHANGED <<stored, loads, device, listed, doc, nextId, closes,
                   owed, scanned, gone>>

\* The upload is forgotten, or stays in the store and is sent again at the next start.
Forgotten(ok) ==
    /\ writes # <<>> /\ Head(writes).by = "forget"
    /\ IF ok THEN stored' = Committed(stored, Head(writes)) /\ UNCHANGED faults
             ELSE UNCHANGED stored /\ faults < MaxFaults /\ faults' = faults + 1
    /\ Follow(Done("forgetting"), Tail(writes))
    /\ UNCHANGED <<loads, device, listed, doc, nextId, closes, owed, scanned, gone, excused>>

-----------------------------------------------------------------------------
(* retry(), remove(), start(), stop(), and the world.                      *)

Retry(i) ==
    /\ running /\ items[i] # None /\ items[i].state = "failed"
    /\ ~IsActive(i) /\ items[i].file \notin TooLarge
    /\ LET new == [items[i] EXCEPT !.state = "queued", !.due = TRUE]
       IN  /\ items' = [items EXCEPT ![i] = new]
           /\ writes' = Append(writes, [id |-> i, item |-> new, by |-> "retry"])
    /\ UNCHANGED <<stored, loads, sending, signing, online, local, doc, nextId, closes, faults, told>>

\* Not while it is being sent: the server may already have it.
SlipRemovable(i) == items[i] # None
Removable(i)     == items[i] # None /\ ~IsActive(i)
Remove(i) ==
    /\ running /\ Removable(i) /\ items[i].state = "failed"
    /\ items' = [items EXCEPT ![i] = None]
    /\ writes' = Append(writes, [id |-> i, item |-> None, by |-> "remove"])
    /\ owed' = owed \ {items[i].file} /\ excused' = excused \cup ({items[i].file} \cap Scans)
    /\ reached' = reached \ {i} /\ gone' = gone \cup {i}
    /\ UNCHANGED <<stored, loads, sending, signing, online, local, doc, nextId, closes, faults,
                   scanned>>

\* start(): signed in, by a login or because the session still holds.
Start ==
    /\ ~running /\ session < MaxSessions
    /\ running' = TRUE /\ paused' = FALSE /\ session' = session + 1 /\ signedIn' = TRUE
    /\ UNCHANGED <<items, online>> /\ Load
    /\ startWaits' = (loading # "done")
    /\ IF loading = "done" THEN Kick(active) ELSE UNCHANGED sending
    /\ UNCHANGED <<stored, writes, coming, local, doc, nextId, closes, faults, told>>

\* stop(): the user signs out, or a 401 signed the app out.
Stop ==
    /\ running /\ running' = FALSE /\ timer' = FALSE
    /\ UNCHANGED <<queue, loads, active, paused, session, signedIn, online, local, doc, nextId,
                   closes, faults, told>>
SessionEnds ==
    /\ signedIn /\ signedIn' = FALSE
    /\ UNCHANGED <<queue, loads, sending, running, paused, session, online, local, doc, nextId,
                   closes, faults, told>>

\* onConnection(): back online, everything queued is due.
Connection ==
    /\ online' = ~online
    /\ items' = IF running /\ online'
                THEN [i \in Ids |-> IF i \in Queued(items) THEN [items[i] EXCEPT !.due = TRUE] ELSE items[i]]
                ELSE items
    /\ UNCHANGED signing
    /\ IF running THEN Kick(active) ELSE UNCHANGED sending
    /\ UNCHANGED <<stored, writes, loads, local, doc, nextId, closes, faults, told>>

\* A backoff runs out; it outlasts the write that records it.
BecomesDue(i) ==
    /\ i \in Queued(items) \ Due(items) /\ ~IsActive(i)
    /\ items' = [items EXCEPT ![i].due = TRUE]
    /\ UNCHANGED <<stored, writes, loads, sending, signing, online, local, doc, nextId, closes, faults, told>>
TimerFires ==
    /\ timer /\ Due(items) # {}
    /\ UNCHANGED <<items, signing, online>> /\ Kick(active)
    /\ UNCHANGED <<stored, writes, loads, local, doc, nextId, closes, faults, told>>

\* The owner discards the document, here or elsewhere. Until the worker has
\* applied that, the intake route withdraws it: the document is kept.
Discard(f) ==
    /\ doc[f] = "kept" /\ doc' = [doc EXCEPT ![f] = "discarded"]
    /\ UNCHANGED <<queue, loads, sending, signing, online, local, nextId, closes, faults, told>>

\* The page is closed and opened again. The last n writes never happened; a
\* request on its way may still reach the server.
Close ==
    /\ closes < MaxCloses /\ closes' = closes + 1
    /\ \E n \in 0..Len(writes) :
        stored' = [i \in Ids |->
            LET own == {k \in 1..n : writes[k].id = i}
            IN  IF own = {} THEN stored[i] ELSE writes[CHOOSE k \in own : \A j \in own : j <= k].item]
    /\ \/ UNCHANGED <<doc, reached>>
       \/ /\ active # None /\ active.at = "sending" /\ signedIn /\ active.item.file \notin TooLarge
          /\ doc' = [doc EXCEPT ![active.item.file] = "kept"] /\ reached' = reached \cup {active.id}
    /\ items' = [i \in Ids |-> None] /\ writes' = <<>>
    /\ loading' = "no" /\ startWaits' = FALSE /\ coming' = [f \in Files |-> "no"]
    /\ sentScans' = {} /\ listed' = {} /\ active' = None /\ timer' = FALSE
    /\ running' = FALSE /\ paused' = FALSE /\ gone' = {}
    /\ UNCHANGED <<session, online, device, signedIn, nextId, faults, owed, scanned, excused>>

-----------------------------------------------------------------------------
Answers == {"id", "portal", "busy", "refused", "401"}
Answer ==
    \/ \E a \in Answers : UploadAccepted(a) \/ UploadRefused(a)
    \/ UploadUnauthorized
Storage ==
    \E ok \in BOOLEAN : AddWritten(ok) \/ RetryWritten(ok) \/ RemoveWritten(ok) \/ SaveWritten(ok) \/ Forgotten(ok)
LoadAnswers == LoadDone \/ LoadFails
DeleteAnswers == ScanDeleted \/ ScanNotDeleted
User ==
    \/ \E f \in Files : Pick(f) \/ Discard(f)
    \/ \E s \in Scans : FinishScan(s) \/ SendScan(s) \/ DeleteScan(s)
    \/ \E i \in Ids : Retry(i) \/ Remove(i)
    \/ Start \/ Stop
World ==
    \/ ServerTakes \/ SessionEnds \/ Connection \/ Close \/ ReadList
Timers ==
    \/ TimerFires \/ \E i \in Ids : BecomesDue(i)
Adds ==
    \/ \E s \in Scans : Built(s) \/ NotBuilt(s)
    \/ \E f \in Files : AddPuts(f)
Next == User \/ World \/ Timers \/ Adds \/ Answer \/ Storage \/ LoadAnswers \/ DeleteAnswers

Spec == Init /\ [][Next]_vars

\* Requests have a time limit, IndexedDB answers, timers fire.
Fairness ==
    /\ WF_vars(Answer) /\ WF_vars(Storage) /\ WF_vars(LoadAnswers) /\ WF_vars(DeleteAnswers)
    /\ WF_vars(TimerFires) /\ \A i \in Ids : WF_vars(BecomesDue(i))
FairSpec == Spec /\ Fairness
-----------------------------------------------------------------------------
(* Safety.                                                                 *)

\* "Closing the app or losing the connection loses nothing": a file whose add()
\* succeeded, and which its owner did not remove, is stored here until the
\* server has it, through lost and foreign answers, closes and failed writes.
NothingLost ==
    \A f \in owed : doc[f] # "none" \/ Holds(stored, f)

\* A finished scan leaves the device only when the server has it.
ScanKept == \A s \in scanned : s \in device \/ doc[s] # "none"

\* The local copy of a scan the server has goes with its upload: while the copy
\* is there, so is the upload that will delete it, wherever the page is closed.
CrashLeavesUpload ==
    \A s \in device : doc[s] # "none" => Holds(stored, s) \/ s \in excused

\* An item its owner removed is not sent, not shown and not stored again.
RemovedStaysAway ==
    \A i \in gone :
        /\ items[i] = None /\ ~IsActive(i)
        /\ stored[i] # None => faults > 0 \/ \E k \in 1..Len(writes) : writes[k].id = i /\ writes[k].item = None

\* The queue waits for a sign-in only when this browser's session has ended: a
\* 401 for a request of an earlier session does not stop the new one.
PausedOnlySignedOut == paused /\ running => ~signedIn

(* What a step may never do, and liveness.                                 *)

\* "The stored copy is sent again at the next start; the server answers it as a
\* duplicate" (queue.ts): sending an item again makes no second document.
ResendIsDuplicate ==
    [][\A f \in Files : doc[f] = "discarded" /\ doc'[f] = "kept" => active.id \notin reached]_vars

\* While storage works, a queue with something to send, signed in and online,
\* sends something.
Ready == running /\ online /\ ~paused /\ Queued(items) # {}
QueueMovesOn == Ready ~> active # None \/ ~Ready \/ faults > 0

\* "Sends a failed item again" (retry): it is sent, whatever storage does.
RetriedIsSent == Ready ~> active # None \/ ~Ready
=============================================================================
