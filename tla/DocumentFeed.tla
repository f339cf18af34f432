----------------------------- MODULE DocumentFeed -----------------------------
(***************************************************************************)
(* The change feed: sequence numbers of the documents on the server        *)
(* (documents/repo.ts), the routes that read, change and combine documents *)
(* (http/routes-documents.ts), and the copy of them that a browser keeps   *)
(* (pwa documents/sync.ts, the actions of ui/inbox/InboxScreen.tsx).       *)
(*                                                                         *)
(* Requests and answers travel: the server reads or changes documents at   *)
(* some moment between the sending of a request and the taking of its      *)
(* answer, and the answers to two requests can be taken in either order.   *)
(***************************************************************************)
EXTENDS Naturals, FiniteSets, FiniteSetsExt, Functions

CONSTANTS
    Parts,        \* documents in review at the start, which can be combined
    Whole,        \* the document they are combined into
    PageSize,     \* limit of listChangedSince()
    MaxPages,     \* MAX_PAGES of one poll
    MaxSeq,       \* bound: sequence numbers given out, before a combine
    Calls,        \* bound: actions of the user, by number
    Polls,        \* bound: polls in flight together, by number
    MaxLoops,     \* bound: sign-ins, the last of which does not end
    MaxFaults,    \* bound: requests or answers lost, unreadable rows, failed sign-outs
    None

ASSUME FeedAssumption ==
    /\ IsFiniteSet(Parts) /\ Whole \notin Parts /\ Cardinality(Parts) > 1
    /\ None \notin Parts \cup {Whole} \cup Polls
    /\ PageSize \in Nat \ {0} /\ MaxPages \in Nat \ {0}
    /\ MaxSeq \in Nat /\ Cardinality(Parts) <= MaxSeq /\ MaxLoops \in Nat /\ MaxFaults \in Nat
    /\ Polls # {}

Docs   == Parts \cup {Whole}
States == {"received", "needs_review", "filing", "filed", "failed", "discarded"}
Last   == MaxSeq + 1 + Cardinality(Parts)
Views  == [seq: 1..Last, state: States]
\* What the user does, and readBack(): any number of documents are read back.
Kinds  == {"approve", "discard", "restore", "combine", "get"}
Steps  == {"sent", "building", "answered", "done"}

VARIABLES
    row,         \* the documents of the server: their seq and state, None when absent or purged
    unreadable,  \* documents with a sealed column that does not decrypt
    seq,         \* document_seq
    sent,        \* parts whose upload began (filing_target is set)
    session,     \* whether the server accepts this browser's requests
    held, cursor, inflight, running, loop,  \* the fields of DocumentSync
    timer,       \* whether its timer is armed
    stray,       \* armed timers whose handle was overwritten
    poll,        \* the polls in flight
    call,        \* the user's actions
    faults       \* spent budget

server == <<row, unreadable, seq, sent>>
sync   == <<held, cursor, inflight, running, loop, timer, stray>>
vars   == <<row, unreadable, seq, sent, session, held, cursor, inflight, running,
            loop, timer, stray, poll, call, faults>>

\* A poll is stale when its generation is not the current one.
Pages == [stale: BOOLEAN, page: 0..(MaxPages - 1), since: 0..Last, step: {"sent", "answered"},
          rows: [Docs -> Views \cup {None}], next: 0..Last, loops: SUBSET (1..MaxLoops)]
ASSUME NoneAssumption == None \notin Views \cup Pages

\* Every variable has its type.
TypeOK ==
    /\ row \in [Docs -> Views \cup {None}] /\ unreadable \subseteq Docs
    /\ seq \in 0..Last /\ sent \subseteq Parts /\ session \in BOOLEAN
    /\ held \in [Docs -> Views \cup {None}] /\ cursor \in 0..Last
    /\ inflight \in Polls \cup {None} /\ running \in BOOLEAN /\ loop \in 0..MaxLoops
    /\ timer \in BOOLEAN /\ stray \in Nat
    /\ poll \in [Polls -> Pages \cup {None}]
    /\ call \in [Calls -> [kind: Kinds, docs: SUBSET Docs, step: Steps,
                           view: [Docs -> Views \cup {None}], seqs: [Parts -> 0..Last]]]
    /\ faults \in 0..MaxFaults

NoViews == [d \in Docs |-> None]
Done    == [kind |-> "get", docs |-> {}, step |-> "done", view |-> NoViews, seqs |-> [p \in Parts |-> 0]]

\* The parts are in review, and nobody is signed in.
Init ==
    /\ \E f \in Bijection(Parts, 1..Cardinality(Parts)) :
         row = [d \in Docs |-> IF d = Whole THEN None ELSE [seq |-> f[d], state |-> "needs_review"]]
    /\ seq = Cardinality(Parts) /\ unreadable = {} /\ sent = {}
    /\ session = FALSE /\ held = NoViews /\ cursor = 0 /\ inflight = None
    /\ running = FALSE /\ loop = 0 /\ timer = FALSE /\ stray = 0
    /\ poll = [p \in Polls |-> None] /\ call = [c \in Calls |-> Done] /\ faults = 0

Fault == faults < MaxFaults /\ faults' = faults + 1

-----------------------------------------------------------------------------
(* The server.                                                             *)

Exists(d) == row[d] # None
In(d, state) == Exists(d) /\ row[d].state = state

\* transition(): every change that a client can see has a number of its own.
Move(d, state) == seq < MaxSeq /\ seq' = seq + 1 /\ row' = [row EXCEPT ![d] = [seq |-> seq + 1, state |-> state]]

\* Reading a row that does not decrypt quarantines it, as a change of its own.
Quarantined(state) == IF state \in {"filed", "discarded"} THEN state ELSE "failed"
\* Rows read together are quarantined one after the other, in order of seq.
Behind(d, ds) == Cardinality({e \in ds : row[e].seq < row[d].seq})
AfterReading(ds) ==
    LET bad == ds \cap unreadable
    IN  [d \in Docs |-> IF d \in bad THEN [seq |-> seq + 1 + Behind(d, bad), state |-> Quarantined(row[d].state)]
                        ELSE row[d]]
Read(ds) ==
    /\ ds \cap unreadable # {} => seq + Cardinality(ds \cap unreadable) <= MaxSeq
    /\ row' = AfterReading(ds) /\ unreadable' = unreadable \ ds
    /\ seq' = seq + Cardinality(ds \cap unreadable)

\* The worker and the other devices of the user change a document, once or
\* several times. A filing can end in review although its upload began
\* (filing_target is set). Bound: only while the user is signed in here.
Advance(d) ==
    /\ running /\ Exists(d) /\ row[d].state # "filed" /\ d \notin unreadable
    /\ \/ \E state \in {"needs_review", "discarded"} : Move(d, state) /\ UNCHANGED sent
       \/ \E state \in {"needs_review", "filed"} : Move(d, state) /\ sent' = sent \cup ({d} \cap Parts)
    /\ UNCHANGED <<unreadable, session, sync, poll, call, faults>>

\* The worker reads an unreadable row.
WorkerReads(d) ==
    /\ d \in unreadable /\ Exists(d)
    /\ Read({d})
    /\ UNCHANGED <<sent, session, sync, poll, call, faults>>

\* External: the data of a row is damaged.
Spoil(d) ==
    /\ Fault /\ Exists(d) /\ unreadable = {}
    /\ unreadable' = {d}
    /\ UNCHANGED <<row, seq, sent, session, sync, poll, call>>

\* purgeDiscarded(), seven days after the discard: no number is given out.
Purge(d) ==
    /\ In(d, "discarded") /\ d \in Parts
    /\ row' = [row EXCEPT ![d] = None] /\ unreadable' = unreadable \ {d}
    /\ UNCHANGED <<seq, sent, session, sync, poll, call, faults>>

\* possiblyInDrive(): an upload began, and the document is not filed.
PossiblyInDrive(d) == d \in sent

\* listChangedSince(): the next page, and the last number on it as read, before
\* any row was quarantined.
Page(since) ==
    LET after == {d \in Docs : Exists(d) /\ row[d].seq > since}
    IN  {d \in after : Behind(d, after) < PageSize}
SlipLastSeq(ds, since) == Max({since} \cup {AfterReading(ds)[d].seq : d \in ds})
LastSeq(ds, since)     == Max({since} \cup {row[d].seq : d \in ds})

-----------------------------------------------------------------------------
(* The sync: DocumentSync.                                                 *)

\* put(): a newer version is never replaced by an older one.
SlipNewer(d, v) == v
Newer(d, v)     == IF v = None \/ (held[d] # None /\ held[d].seq > v.seq) THEN held[d] ELSE v
Put(views)  == held' = [d \in Docs |-> Newer(d, views[d])]

\* poll(): joins the poll in flight, or starts one. The tick of a loop may wait for it.
Ask(since, page, loops) ==
    [stale |-> FALSE, page |-> page, since |-> since, step |-> "sent", rows |-> NoViews, next |-> 0, loops |-> loops]
Free == {p \in Polls : poll[p] = None}
StartPoll(loops) ==
    IF inflight # None
    THEN poll' = [poll EXCEPT ![inflight].loops = @ \cup loops] /\ UNCHANGED inflight
    ELSE \E p \in Free : poll' = [poll EXCEPT ![p] = Ask(cursor, 0, loops)] /\ inflight' = p

\* The tick of a loop ends: its timer is armed again, unless the sync was
\* stopped, or stopped and started, meanwhile.
Current(loops) == loops \cap {loop}
Rearm(loops) ==
    IF running /\ Current(loops) # {}
    THEN timer' = TRUE /\ stray' = IF timer THEN stray + 1 ELSE stray
    ELSE UNCHANGED <<timer, stray>>

\* The end of a poll, which may no longer be the one that others join.
SlipForget(p) == None
Forget(p)     == IF inflight = p THEN None ELSE inflight
PollEnds(p) ==
    /\ poll' = [poll EXCEPT ![p] = None] /\ inflight' = Forget(p)
    /\ Rearm(poll[p].loops)

\* stop() and reset(), in the cleanup that follows a sign-out. Polls in flight
\* are of an older generation from here on.
Reset(polls) ==
    /\ poll' = [p \in Polls |-> IF polls[p] = None THEN None ELSE [polls[p] EXCEPT !.stale = TRUE]]
    /\ inflight' = None /\ held' = NoViews /\ cursor' = 0
    /\ running' = FALSE /\ timer' = FALSE /\ UNCHANGED <<loop, stray>>

-----------------------------------------------------------------------------
(* A poll.                                                                 *)

\* GET /: the page is read.
ListReads(p) ==
    /\ poll[p] # None /\ poll[p].step = "sent" /\ session
    /\ LET ds == Page(poll[p].since)
       IN  /\ Read(ds)
           /\ poll' = [poll EXCEPT ![p].step = "answered", ![p].next = LastSeq(ds, poll[p].since),
                                   ![p].rows = [d \in Docs |-> IF d \in ds THEN row'[d] ELSE None]]
    /\ UNCHANGED <<sent, session, sync, call, faults>>

\* A page arrives. One read before a reset is thrown away.
Stale(p)     == poll[p].stale
\* A guard against a feed that never runs dry within one poll.
LastPage(p)     == poll[p].page + 1 = MaxPages
TakePage(p) ==
    /\ poll[p] # None /\ poll[p].step = "answered" /\ ~Stale(p)
    /\ Put(poll[p].rows) /\ cursor' = Max({cursor, poll[p].next})
    /\ IF poll[p].rows = NoViews \/ LastPage(p)
       THEN PollEnds(p)
       ELSE /\ poll' = [poll EXCEPT ![p] = Ask(cursor', poll[p].page + 1, poll[p].loops)]
            /\ UNCHANGED <<inflight, timer, stray>>
    /\ UNCHANGED <<server, session, running, loop, call, faults>>
\* So is a 401. A page may also be lost, and the error is shown until the next poll.
DropPoll(p) ==
    /\ poll[p] # None
    /\ \/ Stale(p) /\ (poll[p].step = "answered" \/ ~session) /\ UNCHANGED faults
       \/ Fault
    /\ PollEnds(p)
    /\ UNCHANGED <<server, session, held, cursor, running, loop, call>>
\* A 401 in time signs the app out.
PollUnauthorized(p) ==
    /\ poll[p] # None /\ poll[p].step = "sent" /\ ~session /\ ~Stale(p)
    /\ Reset([poll EXCEPT ![p] = None])
    /\ UNCHANGED <<server, session, call, faults>>

-----------------------------------------------------------------------------
(* The app and the page.                                                   *)

\* Bound: one with nothing left in flight would repeat the first.
InFlight == (\E p \in Polls : poll[p] # None) \/ \E c \in Calls : call[c].step # "done"
\* The first tick polls, unless the page is hidden: then it only arms the timer.
SignIn ==
    /\ ~running /\ loop < MaxLoops /\ (loop > 0 => InFlight)
    /\ session' = TRUE /\ running' = TRUE /\ loop' = loop + 1
    /\ \/ timer' = TRUE /\ UNCHANGED <<poll, inflight>>
       \/ StartPoll({loop'}) /\ UNCHANGED timer
    /\ UNCHANGED <<server, held, cursor, stray, call, faults>>
\* A logout that fails signs the app out too (App.tsx signInAgain).
SignOut ==
    /\ running /\ loop < MaxLoops
    /\ (session' = FALSE /\ UNCHANGED faults) \/ (UNCHANGED session /\ Fault)
    /\ Reset(poll)
    /\ UNCHANGED <<server, call>>
SessionEnds ==
    /\ session /\ loop < MaxLoops /\ session' = FALSE
    /\ UNCHANGED <<server, sync, poll, call, faults>>

\* tick(), on a visible page: on a hidden one it only arms the timer again.
Tick ==
    /\ timer /\ running /\ timer' = FALSE
    /\ StartPoll({loop})
    /\ UNCHANGED <<server, session, held, cursor, running, loop, stray, call, faults>>
\* onVisibility(): the page is visible again.
Show ==
    /\ running /\ StartPoll({})
    /\ UNCHANGED <<server, session, held, cursor, running, loop, timer, stray, call, faults>>

-----------------------------------------------------------------------------
(* The actions of the user, on what the page shows.                        *)

From(kind) == CASE kind = "approve" -> "needs_review" [] kind = "discard" -> "needs_review"
                [] kind = "restore" -> "discarded"    [] OTHER -> "none"
To(kind)   == CASE kind = "approve" -> "filing" [] kind = "discard" -> "discarded" [] OTHER -> "needs_review"
Shown(d, state) == running /\ held[d] # None /\ held[d].state = state
Acting(c) == call[c].step = "sent" /\ session

\* An action waits for its answer; the number of one that has ended is not used again.
Ended(c)          == call' = [call EXCEPT ![c] = [Done EXCEPT !.docs = Docs]]
ReadBack(c, docs) == call' = [call EXCEPT ![c] = [Done EXCEPT !.docs = docs, !.step = "sent"]]
Send(c, kind, docs) ==
    /\ call[c] = Done /\ \A b \in Calls : b < c => call[b] # Done
    /\ call' = [call EXCEPT ![c].kind = kind, ![c].docs = docs, ![c].step = "sent"]
    /\ UNCHANGED <<server, session, sync, poll, faults>>
Act(c, kind, d) == kind \in {"approve", "discard", "restore"} /\ Shown(d, From(kind)) /\ Send(c, kind, {d})
Combine(c)      == (\A p \in Parts : Shown(p, "needs_review")) /\ Send(c, "combine", Parts)

\* POST approve, discard and restore. One that is refused, as the document has
\* moved on, reads it back (handleRefused, approve).
ActDone(c, d) ==
    /\ Acting(c) /\ call[c].docs = {d} /\ call[c].kind \notin {"get", "combine"} /\ d \notin unreadable
    /\ In(d, From(call[c].kind)) /\ Move(d, To(call[c].kind))
    /\ call' = [call EXCEPT ![c].step = "answered",
                            ![c].view = IF call[c].kind = "discard" THEN NoViews ELSE [NoViews EXCEPT ![d] = row'[d]]]
    /\ UNCHANGED <<unreadable, sent, session, sync, poll, faults>>
ActRefused(c, d) ==
    /\ Acting(c) /\ call[c].docs = {d} /\ call[c].kind \notin {"get", "combine"} /\ d \notin unreadable
    /\ Exists(d) /\ ~In(d, From(call[c].kind))
    /\ ReadBack(c, {d})
    /\ UNCHANGED <<server, session, sync, poll, faults>>

\* GET /:id, for one of the documents to be read back.
Get(c, d) ==
    /\ Acting(c) /\ call[c].kind = "get" /\ d \in call[c].docs /\ Exists(d)
    /\ Read({d})
    /\ call' = [call EXCEPT ![c].step = "answered", ![c].docs = @ \ {d}, ![c].view = [NoViews EXCEPT ![d] = row'[d]]]
    /\ UNCHANGED <<sent, session, sync, poll, faults>>

\* A 404 forgets the document, which the feed never would (an approval only reports it).
Gone(c, d) ==
    /\ Acting(c) /\ call[c].kind # "combine" /\ d \in call[c].docs /\ ~Exists(d)
    /\ held' = IF call[c].kind = "approve" THEN held ELSE [held EXCEPT ![d] = None]
    /\ IF call[c].docs = {d} THEN Ended(c) ELSE ReadBack(c, call[c].docs \ {d})
    /\ UNCHANGED <<server, session, cursor, inflight, running, loop, timer, stray, poll, faults>>

\* POST /combine: the parts are read and checked, then the PDF is built.
Combinable(p) == In(p, "needs_review") /\ ~PossiblyInDrive(p)
CombineReads(c) ==
    /\ Acting(c) /\ call[c].kind = "combine" /\ Parts \cap unreadable = {}
    /\ \A p \in Parts : Combinable(p)
    /\ call' = [call EXCEPT ![c].step = "building", ![c].seqs = [p \in Parts |-> row[p].seq]]
    /\ UNCHANGED <<server, session, sync, poll, faults>>

\* insertCombined(): in one transaction, if every part is as it was read.
SlipAsRead(c, p) == In(p, "needs_review")
AsRead(c, p)     == In(p, "needs_review") /\ row[p].seq = call[c].seqs[p] /\ p \notin unreadable
Combined ==
    [d \in Docs |-> IF d = Whole THEN [seq |-> seq + 1, state |-> "received"]
                    ELSE [seq |-> seq + 2 + Behind(d, Parts), state |-> "discarded"]]
CombineInserts(c) ==
    /\ call[c].step = "building" /\ (\A p \in Parts : AsRead(c, p)) /\ ~Exists(Whole)
    /\ seq' = seq + 1 + Cardinality(Parts) /\ row' = Combined
    /\ call' = [call EXCEPT ![c].step = "answered", ![c].view = [NoViews EXCEPT ![Whole] = row'[Whole]]]
    /\ UNCHANGED <<unreadable, sent, session, sync, poll, faults>>

\* The view in an answer is upserted, whatever happened meanwhile. After a
\* discard, or a combine, the documents are read back.
TakeAnswer(c) ==
    /\ call[c].step = "answered"
    /\ Put(call[c].view)
    /\ IF call[c].docs = {} THEN Ended(c)
       ELSE IF call[c].kind \in {"discard", "combine", "get"} THEN ReadBack(c, call[c].docs) ELSE Ended(c)
    /\ UNCHANGED <<server, session, cursor, inflight, running, loop, timer, stray, poll, faults>>

\* No answer, no session or, for a combine, a refusal: an insert finds a part
\* changed and undoes what it did, or the PDF cannot be built.
Fails(c) ==
    \/ Acting(c) /\ call[c].kind = "combine" /\ (\E p \in Parts : ~Combinable(p)) /\ UNCHANGED faults
    \/ call[c].step = "building" /\ UNCHANGED faults
    \/ call[c].step = "sent" /\ ~session /\ UNCHANGED faults
    \/ call[c].step \in {"sent", "answered"} /\ Fault
\* A read-back that fails polls instead, and so does a combine.
FailPolls(c) ==
    /\ Fails(c) /\ call[c].kind \in {"get", "combine"}
    /\ Ended(c) /\ StartPoll({})
    /\ UNCHANGED <<server, session, held, cursor, running, loop, timer, stray>>
FailShown(c) ==
    /\ Fails(c) /\ call[c].kind # "get"
    /\ Ended(c)
    /\ UNCHANGED <<server, session, sync, poll>>

-----------------------------------------------------------------------------
Changes ==
    \/ \E d \in Docs : Advance(d) \/ WorkerReads(d) \/ Spoil(d) \/ Purge(d)
    \/ SignOut \/ SessionEnds
User ==
    \/ \E c \in Calls, kind \in Kinds, d \in Docs : Act(c, kind, d)
    \/ \E c \in Calls : Combine(c)
Serves ==
    \/ \E c \in Calls : CombineReads(c) \/ CombineInserts(c) \/ TakeAnswer(c) \/ FailPolls(c) \/ FailShown(c)
    \/ \E c \in Calls, d \in Docs : ActDone(c, d) \/ ActRefused(c, d) \/ Get(c, d) \/ Gone(c, d)
PollStep(p) == ListReads(p) \/ TakePage(p) \/ DropPoll(p) \/ PollUnauthorized(p)
Next ==
    \/ Changes \/ User \/ Serves \/ SignIn \/ Show \/ Tick
    \/ \E p \in Polls : PollStep(p)
Spec == Init /\ [][Next]_vars
\* A timer fires, on a page that is visible again and again; a request is
\* answered, or fails. Nothing is assumed of the user, of the worker or of which
\* answer comes.
FairSpec == Spec /\ WF_vars(Tick) /\ \A p \in Polls : WF_vars(PollStep(p))

-----------------------------------------------------------------------------
(* Properties.                                                             *)

\* No document is skipped: every version up to the cursor is held, although
\* versions move to new numbers, pages end in the middle, rows are quarantined
\* while they are read, and the sync is reset under a poll (repo.ts:457,
\* sync.ts:110).
NothingSkipped == \A d \in Docs : Exists(d) /\ row[d].seq <= cursor => held[d] = row[d]

\* What is held never goes back to an older version, in whatever order pages
\* and answers are taken.
NeverOlder ==
    [][\A d \in Docs : held[d] # None /\ held'[d] # None => held'[d].seq >= held[d].seq]_vars

\* One poll at a time asks for the current generation, and one timer or one
\* poll drives the loop, through stops and starts in the middle of a poll.
OnePoll ==
    /\ Cardinality({p \in Polls : poll[p] # None /\ ~poll[p].stale}) <= 1
    /\ stray = 0
    /\ running => Cardinality({p \in Polls : poll[p] # None /\ loop \in poll[p].loops}) + (IF timer THEN 1 ELSE 0) = 1

\* The pages of a document are not uploaded twice: when a combine is recorded,
\* no part was ever on its way to Drive, however often it changed while the PDF
\* was built (routes-documents.ts:174, repo.ts:271).
CombinedNotSent == [][Exists(Whole)' /\ ~Exists(Whole) => sent = {}]_vars

\* Once nothing changes any more, the page shows every document as it is: no
\* lost page, poll of an older sign-in or end of a page stops the polling
\* (sync.ts). Bound: a row that does not decrypt when no number is left stays as it is.
Complete == \A d \in Docs : Exists(d) => held[d] = row[d]
CopyCatchesUp == []<>(running /\ unreadable = {} => Complete)
=============================================================================
