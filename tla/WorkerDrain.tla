----------------------------- MODULE WorkerDrain -----------------------------
(***************************************************************************)
(* How the document worker is driven (documents/worker.ts): one drain that *)
(* every wake() joins, one folder walk that every caller of one session    *)
(* shares, and what a login, a logout or a change of account does to both. *)
(* What the stages do to a document is the subject of DocumentPipeline;    *)
(* here a stage only reads the tree, uses a session, and moves its row on. *)
(*                                                                         *)
(* A session is named by the login that made it. One action is the code    *)
(* between two awaits.                                                     *)
(***************************************************************************)
EXTENDS Naturals, FiniteSets

CONSTANTS
    Docs, Accounts,
    Logins,        \* bound: logins
    MaxSteps,      \* MAX_STEPS_PER_DRAIN
    MaxRequests,   \* bound: uploads, approvals and re-analyses
    MaxFaults,     \* bound: failures of storage, Drive, Proton and the analyzer
    Nobody         \* no session, no account

ASSUME WorkerAssumption ==
    /\ Logins \in Nat /\ MaxSteps \in Nat \ {0} /\ MaxRequests \in Nat /\ MaxFaults \in Nat
    /\ Nobody \notin Accounts \cup (1..Logins)

Sessions  == 1..Logins
States    == {"received", "filing", "awaiting_login", "rest"}
\* Of the drain: it is off, about to look for work, has found none, or is at an await of a stage.
Steps     == {"off", "look", "looked", "walk", "walked", "analyze", "file", "recheck", "rechecked",
          "failing", "filedWalk", "filed"}

VARIABLES
    row,         \* what of a document matters to the worker: its state, and whether it is due
    pc, cur,     \* the drain: where it is, and the document in hand
    again,       \* worker.again
    steps,       \* iterations of the for loop of this drain
    using,       \* the session the stage in progress found live, and whose client it uses
    waitsFor,    \* the session whose walk the stage in progress awaits
    live,        \* getAnyLiveSession()
    starting,    \* the login that awaits clearCaches()
    owner,       \* the account of each login, Nobody before it
    userId,      \* SETTING.protonUserId
    tree,        \* folder_cache: the accounts with folders in it, {} when there is no row
    walks,       \* walks in flight, by session
    refreshing,  \* worker.refreshing: the session of the walk that can be joined
    callers,     \* who awaits the walk of a session and wakes the worker after it
    resumes,     \* a caller whose walk has ended
    requests, faults,  \* spent budgets
    parked       \* history: documents parked because nobody was signed in, until resumed

drain    == <<pc, cur, again, steps, using, waitsFor>>
sessions == <<live, starting, owner, userId>>
walking  == <<walks, refreshing, callers, resumes>>
vars     == <<row, pc, cur, again, steps, using, waitsFor, live, starting, owner, userId, tree, walks,
              refreshing, callers, resumes, requests, faults, parked>>

\* Every variable has its type.
TypeOK ==
    /\ row \in [Docs -> [state: States, due: BOOLEAN]]
    /\ pc \in Steps /\ cur \in Docs \cup {Nobody} /\ again \in BOOLEAN /\ steps \in 0..MaxSteps
    /\ using \in Sessions \cup {Nobody} /\ waitsFor \in Sessions \cup {Nobody}
    /\ live \in Sessions \cup {Nobody} /\ starting \in Sessions \cup {Nobody}
    /\ owner \in [Sessions -> Accounts \cup {Nobody}] /\ userId \in Accounts \cup {Nobody}
    /\ tree \subseteq Accounts /\ walks \in [Sessions -> Nat]
    /\ refreshing \in Sessions \cup {Nobody}
    /\ callers \in [Sessions -> SUBSET {"login", "route"}] /\ resumes \in BOOLEAN
    /\ requests \in 0..MaxRequests /\ faults \in 0..MaxFaults
    /\ parked \subseteq Docs

\* The server has just started: worker.start() wakes the worker.
Init ==
    /\ row = [d \in Docs |-> [state |-> "rest", due |-> FALSE]]
    /\ pc = "look" /\ cur = Nobody /\ again = FALSE /\ steps = 0 /\ using = Nobody /\ waitsFor = Nobody
    /\ live = Nobody /\ starting = Nobody /\ owner = [s \in Sessions |-> Nobody] /\ userId = Nobody
    /\ tree = {} /\ walks = [s \in Sessions |-> 0] /\ refreshing = Nobody
    /\ callers = [s \in Sessions |-> {}] /\ resumes = FALSE
    /\ requests = 0 /\ faults = 0 /\ parked = {}

\* The stage goes on as soon as its walk has ended, before any other event.
Settled == pc \notin {"walked", "rechecked", "failing", "filed"}
Fault   == faults < MaxFaults /\ faults' = faults + 1
Move(d, state, due) == row' = [row EXCEPT ![d] = [state |-> state, due |-> due]]

-----------------------------------------------------------------------------
(* The drain.                                                              *)

\* wake(): joins the drain, which will look again, or starts one. A drain that
\* has just been started looks before anything else can run.
Wake ==
    /\ IF pc = "off" THEN pc' = "look" /\ steps' = 0 /\ again' = FALSE
                     ELSE again' = TRUE /\ UNCHANGED <<pc, steps>>
    /\ UNCHANGED <<cur, using, waitsFor>>

\* nextWorkable(): a due document in a workable state, or none.
Workable == {d \in Docs : row[d].state \in {"received", "filing"} /\ row[d].due}

\* The stage in hand has ended: the loop goes round.
StepEnds ==
    /\ pc' = "look" /\ steps' = steps + 1 /\ cur' = Nobody /\ using' = Nobody /\ waitsFor' = Nobody
    /\ UNCHANGED again

\* nextWorkable() finds nothing, or throws: guardedStep() returns false.
FindsNothing ==
    /\ pc = "look" /\ steps < MaxSteps
    /\ (Workable = {} /\ UNCHANGED faults) \/ Fault
    /\ pc' = "looked"
    /\ UNCHANGED <<row, cur, again, steps, using, waitsFor, sessions, tree, walking, requests, parked>>

\* The end of the loop, and of the drain unless someone called wake() meanwhile.
LoopIsOver == pc = "looked" \/ (pc = "look" /\ steps = MaxSteps)
SlipDrainEnds == LoopIsOver /\ again' = FALSE /\ pc' = "looked" /\ UNCHANGED steps
DrainEnds ==
    /\ LoopIsOver
    /\ again' = FALSE
    /\ IF again THEN pc' = "look" /\ steps' = 0 ELSE pc' = "off" /\ UNCHANGED steps
GoesRound ==
    /\ DrainEnds
    /\ UNCHANGED <<row, cur, using, waitsFor, sessions, tree, walking, requests, faults, parked>>

\* The drain takes document d, in the given state.
Takes(d, state) == pc = "look" /\ steps < MaxSteps /\ d \in Workable /\ row[d].state = state

-----------------------------------------------------------------------------
(* The shared walk.                                                        *)

\* refreshFolderCache() when session s is live: joins the walk of that
\* session, or starts one.
SlipCanJoin(s) == refreshing # Nobody
CanJoin(s)     == refreshing = s
Refresh(s) ==
    IF CanJoin(s) THEN UNCHANGED <<walks, refreshing>>
    ELSE walks' = [walks EXCEPT ![s] = @ + 1] /\ refreshing' = s

\* A walk of session s ends. What waits for it goes on.
Releases(s, rechecked) ==
    /\ walks[s] > 0 /\ Settled
    /\ walks' = [walks EXCEPT ![s] = @ - 1]
    /\ pc' = IF waitsFor # s THEN pc
             ELSE CASE pc = "walk"      -> "walked"
                    [] pc = "recheck"   -> rechecked
                    [] pc = "filedWalk" -> "filed"
    /\ waitsFor' = IF waitsFor = s THEN Nobody ELSE waitsFor
    /\ callers' = [callers EXCEPT ![s] = {}]
    /\ UNCHANGED <<row, cur, again, steps, using, sessions, requests, parked>>

\* Only the walk that can be joined clears worker.refreshing.
Forgets(s)     == refreshing' = IF refreshing = s THEN Nobody ELSE refreshing

\* A walk counts only for the session that is still live.
SlipCounts(s) == TRUE
Counts(s)     == live = s
WalkEnds(s) ==
    /\ Releases(s, "rechecked") /\ Forgets(s)
    /\ tree' = IF Counts(s) THEN {owner[s]} ELSE tree
    /\ resumes' = (resumes \/ callers[s] # {})
    /\ UNCHANGED faults

\* onLogin() goes on after a walk that failed, POST /refresh does not.
WalkFails(s) ==
    /\ Releases(s, "failing") /\ Forgets(s) /\ Fault
    /\ resumes' = (resumes \/ "login" \in callers[s])
    /\ UNCHANGED tree

\* The rest of onLogin() and of POST /refresh: what waits for a tree is due now.
Received == {d \in Docs : row[d].state = "received"}
Resumes ==
    /\ resumes /\ resumes' = FALSE
    /\ row' = [d \in Docs |-> IF d \in Received THEN [row[d] EXCEPT !.due = TRUE] ELSE row[d]]
    /\ Wake
    /\ UNCHANGED <<sessions, tree, walks, refreshing, callers, requests, faults, parked>>

-----------------------------------------------------------------------------
(* The stages.                                                             *)

\* analyzeStage() with a tree.
AnalyzeStarts(d) ==
    /\ Takes(d, "received") /\ tree # {}
    /\ pc' = "analyze" /\ cur' = d
    /\ UNCHANGED <<row, again, steps, using, waitsFor, sessions, tree, walking, requests, faults, parked>>

\* With none it walks first, if it can.
AnalyzeWalks(d) ==
    /\ Takes(d, "received") /\ tree = {} /\ live # Nobody
    /\ Refresh(live)
    /\ pc' = "walk" /\ cur' = d /\ using' = live /\ waitsFor' = refreshing'
    /\ UNCHANGED <<row, again, steps, sessions, tree, callers, resumes, requests, faults, parked>>

\* With none to be had it waits for one.
AnalyzeDefers(d) ==
    /\ \/ Takes(d, "received") /\ tree = {} /\ live = Nobody
       \/ pc = "walked" /\ cur = d /\ tree = {}
    /\ Move(d, "received", FALSE)
    /\ StepEnds
    /\ UNCHANGED <<sessions, tree, walking, requests, faults, parked>>
AnalyzeAfterWalk ==
    /\ pc = "walked" /\ tree # {}
    /\ pc' = "analyze"
    /\ UNCHANGED <<row, cur, again, steps, using, waitsFor, sessions, tree, walking, requests, faults, parked>>

\* The analysis leads to a review or to a filing (the stages between are no
\* matter here), or fails and is retried after a wait.
AnalyzeEnds(state) ==
    /\ pc = "analyze" /\ state \in {"rest", "filing"}
    /\ Move(cur, state, state = "filing")
    /\ StepEnds
    /\ UNCHANGED <<sessions, tree, walking, requests, faults, parked>>

\* fileStage() with nobody signed in.
FileParks(d) ==
    /\ Takes(d, "filing") /\ live = Nobody
    /\ Move(d, "awaiting_login", FALSE) /\ parked' = parked \cup {d}
    /\ StepEnds
    /\ UNCHANGED <<sessions, tree, walking, requests, faults>>

\* It takes the client of the live session; an auto-filed document with no
\* tree to check its folder against walks first (recheckAutoFiledFolder).
FileStarts(d) ==
    /\ Takes(d, "filing") /\ live # Nobody
    /\ cur' = d /\ using' = live
    /\ \/ pc' = "file" /\ UNCHANGED <<walks, refreshing, waitsFor>>
       \/ tree = {} /\ pc' = "recheck" /\ Refresh(live) /\ waitsFor' = refreshing'
    /\ UNCHANGED <<row, again, steps, sessions, tree, callers, resumes, requests, faults, parked>>

\* Its folder may be gone from the new tree: a review. There may be no tree.
FileRechecked ==
    /\ pc = "rechecked" /\ tree # {}
    /\ pc' = "file"
    /\ UNCHANGED <<row, cur, again, steps, using, waitsFor, sessions, tree, walking, requests, faults, parked>>
FileFolderGone ==
    /\ pc = "rechecked"
    /\ Move(cur, "rest", FALSE)
    /\ StepEnds
    /\ UNCHANGED <<sessions, tree, walking, requests, faults, parked>>

\* Proton no longer accepts the session.
FileExpires ==
    /\ pc = "file" /\ Fault
    /\ Move(cur, "awaiting_login", FALSE)
    /\ StepEnds
    /\ UNCHANGED <<sessions, tree, walking, requests, parked>>

\* A stage throws: retried after its backoff.
StageThrows ==
    /\ (pc \in {"analyze", "file"} /\ Fault) \/ (pc = "failing" /\ UNCHANGED faults)
    /\ row' = [row EXCEPT ![cur].due = FALSE]
    /\ StepEnds
    /\ UNCHANGED <<sessions, tree, walking, requests, parked>>

\* Filed into a folder of the tree, whose recent names get the file.
FileEnds ==
    /\ pc = "file"
    /\ Move(cur, "rest", FALSE)
    /\ StepEnds
    /\ UNCHANGED <<sessions, tree, walking, requests, faults, parked>>

\* Filed into a folder the stage created: the tree is walked again, if anyone
\* is signed in, whoever that is by now.
FileWalks ==
    /\ pc = "file"
    /\ Move(cur, "rest", FALSE)
    /\ IF live = Nobody THEN pc' = "filed" /\ UNCHANGED <<walks, refreshing, waitsFor>>
                        ELSE pc' = "filedWalk" /\ Refresh(live) /\ waitsFor' = refreshing'
    /\ UNCHANGED <<cur, again, steps, using, sessions, tree, callers, resumes, requests, faults, parked>>

\* folderCache.addFolder(): nothing without a tree.
FileAdds ==
    /\ pc = "filed"
    /\ tree' = IF tree = {} THEN {} ELSE tree \cup {owner[using]}
    /\ StepEnds
    /\ UNCHANGED <<row, sessions, walking, requests, faults, parked>>

-----------------------------------------------------------------------------
(* What calls the worker.                                                  *)

\* An upload or a re-analysis makes a document due for analysis, an approval for filing.
Request(d, state) ==
    /\ requests < MaxRequests /\ requests' = requests + 1
    /\ row[d].state = "rest" /\ state \in {"received", "filing"} /\ cur # d
    /\ Move(d, state, TRUE)
    /\ Wake
    /\ UNCHANGED <<sessions, tree, walking, faults, parked>>

\* A backoff, or the wait for a tree, has passed: nothing tells the worker.
BecomesDue(d) ==
    /\ row[d].state \in {"received", "filing"} /\ ~row[d].due /\ cur # d
    /\ row' = [row EXCEPT ![d].due = TRUE]
    /\ UNCHANGED <<drain, sessions, tree, walking, requests, faults, parked>>

\* The timer of the drain. (It need not be modelled while there is nothing to do.)
Poll ==
    /\ Settled /\ (pc = "off" => Workable # {})
    /\ Wake
    /\ UNCHANGED <<row, sessions, tree, walking, requests, faults, parked>>

\* The timer of the walk, whose promise nobody awaits, and POST /folders/refresh.
RefreshTimer ==
    /\ live # Nobody /\ Refresh(live)
    /\ UNCHANGED <<row, drain, sessions, tree, callers, resumes, requests, faults, parked>>
RefreshRoute ==
    /\ live # Nobody /\ Refresh(live)
    /\ callers' = [callers EXCEPT ![refreshing'] = @ \cup {"route"}]
    /\ UNCHANGED <<row, drain, sessions, tree, resumes, requests, faults, parked>>

-----------------------------------------------------------------------------
(* Logins.                                                                 *)

Unused == {s \in Sessions : owner[s] = Nobody}
NextLogin  == CHOOSE s \in Unused : \A t \in Unused : s <= t

\* onLogin() until its first await: what waited for a login is due, and the
\* tree is walked, or the walk joined.
Waiting == {d \in Docs : row[d].state = "awaiting_login"}
SlipResumed == row
Resumed == [d \in Docs |-> IF d \in Waiting THEN [state |-> "filing", due |-> TRUE] ELSE row[d]]
OnLogin(s) ==
    /\ row' = Resumed /\ parked' = {d \in parked : row'[d].state = "awaiting_login"}
    /\ Refresh(s) /\ callers' = [callers EXCEPT ![refreshing'] = @ \cup {"login"}]

\* A login of the account that was signed in last, or of the first.
LoginSame(a) ==
    /\ starting = Nobody /\ Unused # {} /\ userId \in {Nobody, a}
    /\ owner' = [owner EXCEPT ![NextLogin] = a] /\ userId' = a /\ live' = NextLogin
    /\ OnLogin(NextLogin)
    /\ UNCHANGED <<drain, starting, tree, resumes, requests, faults>>

\* Of another account: the sessions and the tree of the old one go first.
ClearsTree     == tree' = {}
LoginOther(a) ==
    /\ starting = Nobody /\ Unused # {} /\ userId \notin {Nobody, a}
    /\ owner' = [owner EXCEPT ![NextLogin] = a] /\ starting' = NextLogin /\ live' = Nobody
    /\ ClearsTree
    /\ UNCHANGED <<row, drain, userId, walking, requests, faults, parked>>
LoginCleared ==
    /\ starting # Nobody
    /\ starting' = Nobody /\ live' = starting /\ userId' = owner[starting]
    /\ OnLogin(starting)
    /\ UNCHANGED <<drain, owner, tree, resumes, requests, faults>>
LoginFails ==
    /\ starting # Nobody /\ Fault
    /\ starting' = Nobody
    /\ UNCHANGED <<row, drain, live, owner, userId, tree, walking, requests, parked>>

\* A logout keeps the tree, which the next session of the account may use.
Logout ==
    /\ starting = Nobody /\ live # Nobody
    /\ live' = Nobody
    /\ UNCHANGED <<row, drain, starting, owner, userId, tree, walking, requests, faults, parked>>

-----------------------------------------------------------------------------
Drains ==
    \/ FindsNothing \/ GoesRound \/ AnalyzeAfterWalk \/ FileEnds \/ FileWalks \/ FileAdds
    \/ FileRechecked \/ FileFolderGone
    \/ \E d \in Docs : AnalyzeStarts(d) \/ AnalyzeWalks(d) \/ AnalyzeDefers(d) \/ FileParks(d) \/ FileStarts(d)
    \/ \E state \in States : AnalyzeEnds(state)
    \/ FileExpires \/ StageThrows
Outside ==
    /\ Settled
    /\ \/ \E d \in Docs, state \in States : Request(d, state)
       \/ RefreshTimer \/ RefreshRoute \/ Logout
       \/ \E a \in Accounts : LoginSame(a) \/ LoginOther(a)
Next ==
    \/ Drains \/ Outside \/ Poll \/ Resumes \/ LoginCleared \/ LoginFails
    \/ \E s \in Sessions : WalkEnds(s) \/ WalkFails(s)
    \/ \E d \in Docs : BecomesDue(d)
Spec == Init /\ [][Next]_vars

\* Every await ends, every timer fires, every wait passes.
Fairness ==
    /\ WF_vars(Drains) /\ WF_vars(Poll) /\ WF_vars(Resumes) /\ WF_vars(LoginCleared \/ LoginFails)
    /\ \A s \in Sessions : WF_vars(WalkEnds(s) \/ WalkFails(s))
    /\ \A d \in Docs : WF_vars(BecomesDue(d))
FairSpec == Spec /\ Fairness

-----------------------------------------------------------------------------
(* Properties.                                                             *)

\* The cached tree is of the account signed in last: a walk that outlives its
\* session, however long, saves nothing over another account's tree or over
\* none (worker.ts:245).
TreeOfAccount == tree # {} => userId \in tree

\* A stage that waits for a walk under a session that is still live when the
\* walk has succeeded finds that account's tree, as just walked: it never
\* joins the walk of an older session, which is thrown away (worker.ts:241).
WalkServesStage ==
    [][(pc \in {"walk", "recheck", "filedWalk"} /\ pc' # pc /\ live = using /\ faults' = faults)
       => (tree' = {owner[using]})]_vars

\* A document parked because nobody was signed in never waits while somebody
\* is: no login slips between the look at the session and the parking, or
\* between the going live and the resuming (worker.ts:264, file.ts:34).
ParkedOnlySignedOut == parked # {} => live = Nobody

\* What was made due is taken up: a document to analyse is analysed, unless
\* nobody is signed in to walk the tree for it; one to file is filed or waits
\* for a login.
WorkIsTaken ==
    \A d \in Docs : /\ row[d].state = "received" ~> row[d].state # "received" \/ live = Nobody
                    /\ row[d].state = "filing" ~> row[d].state # "filing"

\* Another account's folders must never be offered (folder-cache-store.ts:63).
NoForeignFolder == tree \subseteq {userId}
=============================================================================
