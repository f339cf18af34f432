-------------------------- MODULE WorkerDrainProofs --------------------------
(***************************************************************************)
(* The drain of the worker and the walks it shares (WorkerDrain), for any  *)
(* number of documents, accounts and logins: the cached tree is of the     *)
(* account signed in last, a stage is served by a walk of its own session, *)
(* and nothing stays parked while somebody is signed in.                   *)
(***************************************************************************)
EXTENDS WorkerDrain, WellFoundedInduction, TLAPS

-----------------------------------------------------------------------------
(* The inductive invariant.                                                *)

\* A drain that has a document in hand is within its steps. It awaits a walk in
\* exactly three places, and uses a session that had been live: one that a new
\* login can neither be nor become.
Busy    == Steps \ {"off", "look", "looked"}
Waits   == {"walk", "recheck", "filedWalk"}
Connects == Waits \cup {"rechecked", "file", "filed"}
InHand ==
    /\ pc \in Busy => cur \in Docs /\ steps < MaxSteps
    /\ waitsFor # Nobody <=> pc \in Waits
    /\ pc \in Connects => using # Nobody
    /\ using # Nobody => owner[using] # Nobody /\ using # starting
    /\ waitsFor # Nobody /\ live = using => waitsFor = using

\* The live session is of the account signed in last. While the login of another
\* account awaits clearCaches(), nobody is signed in and there is no tree.
SignedIn ==
    /\ live # Nobody => owner[live] = userId /\ userId # Nobody
    /\ starting # Nobody => live = Nobody /\ tree = {} /\ owner[starting] # Nobody

DrainInv == TypeOK /\ InHand /\ SignedIn /\ TreeOfAccount /\ ParkedOnlySignedOut

-----------------------------------------------------------------------------
(* Facts about the operators of the model.                                 *)

\* A login that is still to come has the least number that is left.
LEMMA LoginIsUnused == ASSUME Unused # {} PROVE NextLogin \in Unused
<1> DEFINE R == OpToRel(<, Nat)
<1>1. IsWellFoundedOn(R, Nat) BY NatLessThanWellFounded
<1>2. \A x, y \in Nat : x < y => <<x, y>> \in R BY DEF OpToRel
<1>3. Unused \subseteq Nat BY WorkerAssumption DEF Unused, Sessions
<1> HIDE DEF R
<1>4. PICK m \in Unused : \A k \in Unused : ~(<<k, m>> \in R) BY <1>1, <1>3, WFMin
<1>5. \A k \in Unused : ~(k < m) BY <1>2, <1>3, <1>4
<1>6. \A k \in Unused : m <= k BY <1>3, <1>5
<1> QED BY <1>6 DEF NextLogin
LEMMA NobodyIsNoSession == Nobody \notin Sessions /\ Nobody \notin Accounts /\ Sessions \subseteq Nat
BY WorkerAssumption DEF Sessions
LEMMA FaultCounts == ASSUME TypeOK, Fault PROVE faults' \in 0..MaxFaults /\ faults' # faults
BY WorkerAssumption DEF TypeOK, Fault

\* The walk that is joined or started is of the session that asks for it.
LEMMA RefreshFacts ==
    ASSUME TypeOK, NEW s \in Sessions, Refresh(s)
    PROVE  refreshing' = s /\ walks' \in [Sessions -> Nat]
<1>1. walks \in [Sessions -> Nat] BY DEF TypeOK
<1>2. CASE CanJoin(s) BY <1>1, <1>2 DEF Refresh, CanJoin
<1>3. CASE ~CanJoin(s)
    <2>1. walks' = [walks EXCEPT ![s] = @ + 1] /\ refreshing' = s BY <1>3 DEF Refresh
    <2>2. walks[s] + 1 \in Nat BY <1>1
    <2> QED BY <1>1, <2>1, <2>2
<1> QED BY <1>2, <1>3
\* A document changes its state.
LEMMA MoveTyped ==
    ASSUME TypeOK, NEW d, NEW state \in States, NEW due \in BOOLEAN, Move(d, state, due)
    PROVE  row' \in [Docs -> [state: States, due: BOOLEAN]]
BY DEF TypeOK, Move
\* A wake changes nothing but where an idle drain starts.
LEMMA WakeFacts ==
    ASSUME TypeOK, Wake
    PROVE  /\ pc' \in Steps /\ again' \in BOOLEAN /\ steps' \in 0..MaxSteps
           /\ pc' # pc => pc = "off" /\ pc' = "look"
           /\ steps' # steps => pc' = "look"
           /\ UNCHANGED <<cur, using, waitsFor>>
<1>1. 0 \in 0..MaxSteps BY WorkerAssumption
<1>2. CASE pc = "off" BY <1>1, <1>2 DEF Wake, TypeOK, Steps
<1>3. CASE pc # "off" BY <1>1, <1>3 DEF Wake, TypeOK, Steps
<1> QED BY <1>2, <1>3

-----------------------------------------------------------------------------
(* The drain and its stages.                                               *)

\* The drain leaves a stage: it has nothing in hand, awaits nothing and uses no session.
LEMMA StepEndsFacts ==
    ASSUME TypeOK, InHand, pc \in Busy \/ (pc = "look" /\ steps < MaxSteps), StepEnds
    PROVE  /\ pc' = "look" /\ steps' \in 0..MaxSteps /\ cur' = Nobody /\ using' = Nobody /\ waitsFor' = Nobody
           /\ again' \in BOOLEAN
<1>1. steps < MaxSteps /\ steps \in Nat /\ MaxSteps \in Nat BY WorkerAssumption DEF TypeOK, InHand
<1>2. steps + 1 \in 0..MaxSteps BY <1>1
<1> QED BY <1>2 DEF StepEnds, TypeOK
\* What that keeps, when the sessions and the tree are as they were.
LEMMA EndsKeep ==
    ASSUME DrainInv, pc \in Busy \/ (pc = "look" /\ steps < MaxSteps), StepEnds,
           row' \in [Docs -> [state: States, due: BOOLEAN]], faults' \in 0..MaxFaults,
           UNCHANGED <<sessions, tree, walking, requests>>,
           parked' \subseteq Docs, parked' # {} => live = Nobody \/ parked' = parked
    PROVE  DrainInv'
<1>1. TypeOK /\ InHand /\ SignedIn /\ TreeOfAccount /\ ParkedOnlySignedOut BY DEF DrainInv
<1>2. /\ pc' = "look" /\ steps' \in 0..MaxSteps /\ cur' = Nobody /\ using' = Nobody /\ waitsFor' = Nobody
      /\ again' \in BOOLEAN
    BY <1>1, StepEndsFacts
<1>3. TypeOK' BY <1>1, <1>2 DEF TypeOK, Steps, sessions, walking
<1>4. InHand' BY <1>2 DEF InHand, Busy, Waits, Connects
<1>5. SignedIn' /\ TreeOfAccount' BY <1>1 DEF SignedIn, TreeOfAccount, sessions
<1>6. ParkedOnlySignedOut' BY <1>1 DEF ParkedOnlySignedOut, sessions
<1> QED BY <1>3, <1>4, <1>5, <1>6 DEF DrainInv
LEMMA StagesEnd ==
    ASSUME DrainInv,
           \/ \E d \in Docs : AnalyzeDefers(d) \/ FileParks(d)
           \/ \E state \in States : AnalyzeEnds(state)
           \/ FileExpires \/ StageThrows \/ FileEnds \/ FileFolderGone
    PROVE  DrainInv'
<1>1. TypeOK /\ InHand /\ ParkedOnlySignedOut BY DEF DrainInv
<1>2. row' \in [Docs -> [state: States, due: BOOLEAN]]
    <2>1. ASSUME NEW state \in States, AnalyzeEnds(state) PROVE row' \in [Docs -> [state: States, due: BOOLEAN]]
        BY <1>1, <2>1, MoveTyped DEF AnalyzeEnds
    <2>2. CASE StageThrows BY <1>1, <2>2 DEF StageThrows, TypeOK
    <2>3. \A d \in Docs : AnalyzeDefers(d) => Move(d, "received", FALSE) BY DEF AnalyzeDefers
    <2>4. \A d \in Docs : FileParks(d) => Move(d, "awaiting_login", FALSE) BY DEF FileParks
    <2>5. FileExpires => Move(cur, "awaiting_login", FALSE) BY DEF FileExpires
    <2>6. FileEnds \/ FileFolderGone => Move(cur, "rest", FALSE) BY DEF FileEnds, FileFolderGone
    <2>7. {"received", "awaiting_login", "rest"} \subseteq States BY DEF States
    <2> QED BY <1>1, <2>1, <2>2, <2>3, <2>4, <2>5, <2>6, <2>7, MoveTyped
<1>3. faults' \in 0..MaxFaults
    <2>1. faults' = faults \/ Fault
        BY DEF AnalyzeDefers, FileParks, AnalyzeEnds, FileExpires, StageThrows, FileEnds, FileFolderGone
    <2> QED BY <1>1, <2>1, FaultCounts DEF TypeOK
<1>4. StepEnds /\ UNCHANGED <<sessions, tree, walking, requests>>
    BY DEF AnalyzeDefers, FileParks, AnalyzeEnds, FileExpires, StageThrows, FileEnds, FileFolderGone
<1>5. pc \in Busy \/ (pc = "look" /\ steps < MaxSteps)
    BY DEF AnalyzeDefers, FileParks, AnalyzeEnds, FileExpires, StageThrows, FileEnds, FileFolderGone, Takes, Busy, Steps
<1>6. parked' = parked \/ \E d \in Docs : parked' = parked \cup {d} /\ live = Nobody
    BY DEF AnalyzeDefers, FileParks, AnalyzeEnds, FileExpires, StageThrows, FileEnds, FileFolderGone
<1>7. parked' \subseteq Docs BY <1>1, <1>6 DEF TypeOK
<1> QED BY <1>2, <1>3, <1>4, <1>5, <1>6, <1>7, EndsKeep

\* What the drain does while it goes on with the document in hand or with none,
\* and starts no walk.
LEMMA GoesOn ==
    ASSUME DrainInv, pc' \in Steps, pc' \notin Waits, steps' \in 0..MaxSteps, cur' \in Docs \cup {Nobody}, again' \in BOOLEAN,
           row' \in [Docs -> [state: States, due: BOOLEAN]], faults' \in 0..MaxFaults,
           UNCHANGED <<sessions, tree, walking, requests, parked>>, using' \in {using, live}, waitsFor' = Nobody,
           pc' \in Busy => cur' \in Docs /\ steps' < MaxSteps,
           pc' \in Connects => using' # Nobody
    PROVE  DrainInv'
<1>1. TypeOK /\ InHand /\ SignedIn /\ TreeOfAccount /\ ParkedOnlySignedOut BY DEF DrainInv
<1>2. TypeOK' BY <1>1 DEF TypeOK, sessions, walking
<1>3. using' # Nobody => owner[using'] # Nobody /\ using' # starting BY <1>1 DEF InHand, SignedIn
<1>4. InHand' BY <1>3 DEF InHand, sessions
<1>5. SignedIn' /\ TreeOfAccount' /\ ParkedOnlySignedOut'
    BY <1>1 DEF SignedIn, TreeOfAccount, ParkedOnlySignedOut, sessions
<1> QED BY <1>2, <1>4, <1>5 DEF DrainInv
LEMMA DrainGoesOn ==
    ASSUME DrainInv,
           \/ FindsNothing \/ GoesRound \/ AnalyzeAfterWalk \/ FileRechecked
           \/ \E d \in Docs : AnalyzeStarts(d)
    PROVE  DrainInv'
<1>1. TypeOK /\ InHand BY DEF DrainInv
<1>2. CASE FindsNothing
    <2>1. faults' \in 0..MaxFaults
        <3>1. faults' = faults \/ Fault BY <1>2 DEF FindsNothing
        <3> QED BY <1>1, <3>1, FaultCounts DEF TypeOK
    <2>2. /\ pc' = "looked" /\ pc = "look"
          /\ UNCHANGED <<row, cur, again, steps, using, waitsFor, sessions, tree, walking, requests, parked>>
        BY <1>2 DEF FindsNothing
    <2>3. waitsFor' = Nobody BY <1>1, <2>2 DEF InHand, Waits
    <2> QED BY <1>1, <2>1, <2>2, <2>3, GoesOn DEF TypeOK, Steps, Waits, Busy, Connects
<1>3. CASE GoesRound
    <2>1. /\ pc \in {"look", "looked"} /\ pc' \in {"look", "off"} /\ again' = FALSE /\ steps' \in {0, steps}
          /\ UNCHANGED <<row, cur, using, waitsFor, sessions, tree, walking, requests, faults, parked>>
        BY <1>3 DEF GoesRound, DrainEnds, LoopIsOver
    <2>2. waitsFor' = Nobody BY <1>1, <2>1 DEF InHand, Waits
    <2>3. steps' \in 0..MaxSteps BY <1>1, <2>1, WorkerAssumption DEF TypeOK
    <2> QED BY <1>1, <2>1, <2>2, <2>3, GoesOn DEF TypeOK, Steps, Waits, Busy, Connects
<1>4. CASE AnalyzeAfterWalk
    <2>1. /\ pc = "walked" /\ pc' = "analyze"
          /\ UNCHANGED <<row, cur, again, steps, using, waitsFor, sessions, tree, walking, requests, faults, parked>>
        BY <1>4 DEF AnalyzeAfterWalk
    <2>2. waitsFor' = Nobody /\ cur \in Docs /\ steps < MaxSteps BY <1>1, <2>1 DEF InHand, Waits, Busy, Steps
    <2> QED BY <1>1, <2>1, <2>2, GoesOn DEF TypeOK, Steps, Waits, Busy, Connects
<1>5. CASE FileRechecked
    <2>1. /\ pc = "rechecked" /\ pc' = "file"
          /\ UNCHANGED <<row, cur, again, steps, using, waitsFor, sessions, tree, walking, requests, faults, parked>>
        BY <1>5 DEF FileRechecked
    <2>2. waitsFor' = Nobody /\ cur \in Docs /\ steps < MaxSteps /\ using # Nobody
        BY <1>1, <2>1 DEF InHand, Waits, Busy, Steps, Connects
    <2> QED BY <1>1, <2>1, <2>2, GoesOn DEF TypeOK, Steps, Waits, Busy, Connects
<1>6. ASSUME NEW d \in Docs, AnalyzeStarts(d) PROVE DrainInv'
    <2>1. /\ pc = "look" /\ steps < MaxSteps /\ pc' = "analyze" /\ cur' = d
          /\ UNCHANGED <<row, again, steps, using, waitsFor, sessions, tree, walking, requests, faults, parked>>
        BY <1>6 DEF AnalyzeStarts, Takes
    <2>2. waitsFor' = Nobody BY <1>1, <2>1 DEF InHand, Waits
    <2> QED BY <1>1, <2>1, <2>2, GoesOn DEF TypeOK, Steps, Waits, Busy, Connects
<1> QED BY <1>2, <1>3, <1>4, <1>5, <1>6

\* A stage that needs a walk asks for one of the session that is live.
LEMMA StageWalks ==
    ASSUME DrainInv, live # Nobody, Refresh(live), waitsFor' = refreshing', pc' \in Waits, cur' \in Docs, steps < MaxSteps,
           using' \in {using, live}, using' # Nobody,
           row' \in [Docs -> [state: States, due: BOOLEAN]],
           UNCHANGED <<again, steps, sessions, tree, callers, resumes, requests, faults, parked>>
    PROVE  DrainInv'
<1>1. TypeOK /\ InHand /\ SignedIn /\ TreeOfAccount /\ ParkedOnlySignedOut BY DEF DrainInv
<1>2. live \in Sessions BY <1>1 DEF TypeOK
<1>3. refreshing' = live /\ walks' \in [Sessions -> Nat] BY <1>1, <1>2, RefreshFacts
<1>4. pc' \in Steps BY DEF Waits, Steps
<1>5. TypeOK' BY <1>1, <1>2, <1>3, <1>4 DEF TypeOK, sessions
<1>6. using' # Nobody => owner[using'] # Nobody /\ using' # starting BY <1>1 DEF InHand, SignedIn
<1>7. InHand' BY <1>2, <1>3, <1>6, NobodyIsNoSession DEF InHand, sessions
<1>8. SignedIn' /\ TreeOfAccount' /\ ParkedOnlySignedOut'
    BY <1>1 DEF SignedIn, TreeOfAccount, ParkedOnlySignedOut, sessions
<1> QED BY <1>5, <1>7, <1>8 DEF DrainInv
LEMMA StagesWalk ==
    ASSUME DrainInv, FileWalks \/ \E d \in Docs : AnalyzeWalks(d) \/ FileStarts(d)
    PROVE  DrainInv'
<1>1. TypeOK /\ InHand BY DEF DrainInv
<1>2. ASSUME NEW d \in Docs, AnalyzeWalks(d) PROVE DrainInv'
    <2>1. pc' \in Waits BY <1>2 DEF AnalyzeWalks, Waits
    <2> QED BY <1>1, <1>2, <2>1, StageWalks DEF AnalyzeWalks, Takes, TypeOK
<1>3. ASSUME NEW d \in Docs, FileStarts(d) PROVE DrainInv'
    <2>1. /\ pc = "look" /\ steps < MaxSteps /\ live # Nobody /\ cur' = d /\ using' = live
          /\ UNCHANGED <<row, again, steps, sessions, tree, callers, resumes, requests, faults, parked>>
        BY <1>3 DEF FileStarts, Takes
    <2>2. CASE pc' = "file" /\ UNCHANGED <<walks, refreshing, waitsFor>>
        <3>1. waitsFor' = Nobody BY <1>1, <2>1, <2>2 DEF InHand, Waits
        <3> QED BY <1>1, <2>1, <2>2, <3>1, GoesOn DEF TypeOK, Steps, Waits, Busy, Connects, walking
    <2>3. CASE pc' = "recheck" /\ Refresh(live) /\ waitsFor' = refreshing'
        <3>1. pc' \in Waits BY <2>3 DEF Waits
        <3> QED BY <1>1, <2>1, <2>3, <3>1, StageWalks DEF TypeOK
    <2> QED BY <1>3, <2>2, <2>3 DEF FileStarts
<1>4. CASE FileWalks
    <2>1. /\ pc = "file" /\ Move(cur, "rest", FALSE)
          /\ UNCHANGED <<cur, again, steps, using, sessions, tree, callers, resumes, requests, faults, parked>>
        BY <1>4 DEF FileWalks
    <2>2. cur \in Docs /\ steps < MaxSteps /\ using # Nobody /\ waitsFor = Nobody
        BY <1>1, <2>1 DEF InHand, Busy, Steps, Waits, Connects
    <2>3. row' \in [Docs -> [state: States, due: BOOLEAN]]
        <3>1. "rest" \in States BY DEF States
        <3> QED BY <1>1, <2>1, <3>1, MoveTyped
    <2>4. CASE live = Nobody
        <3>1. pc' = "filed" /\ UNCHANGED <<walks, refreshing, waitsFor>> BY <1>4, <2>4 DEF FileWalks
        <3> QED BY <1>1, <2>1, <2>2, <2>3, <3>1, GoesOn DEF TypeOK, Steps, Waits, Busy, Connects, walking
    <2>5. CASE live # Nobody
        <3>1. pc' = "filedWalk" /\ Refresh(live) /\ waitsFor' = refreshing' BY <1>4, <2>5 DEF FileWalks
        <3>2. pc' \in Waits BY <3>1 DEF Waits
        <3> QED BY <2>1, <2>2, <2>3, <2>5, <3>1, <3>2, StageWalks
    <2> QED BY <2>4, <2>5
<1> QED BY <1>2, <1>3, <1>4

\* The folder that a stage created joins the tree of its own account.
LEMMA FileAddsKeeps == ASSUME DrainInv, FileAdds PROVE DrainInv'
<1>1. TypeOK /\ InHand /\ SignedIn /\ TreeOfAccount /\ ParkedOnlySignedOut BY DEF DrainInv
<1>2. /\ pc = "filed" /\ tree' = (IF tree = {} THEN {} ELSE tree \cup {owner[using]}) /\ StepEnds
      /\ UNCHANGED <<row, sessions, walking, requests, faults, parked>>
    BY <1>1 DEF FileAdds
<1>3. pc \in Busy BY <1>2 DEF Busy, Steps
<1>4. /\ pc' = "look" /\ steps' \in 0..MaxSteps /\ cur' = Nobody /\ using' = Nobody /\ waitsFor' = Nobody
      /\ again' \in BOOLEAN
    BY <1>1, <1>2, <1>3, StepEndsFacts
<1>5. using # Nobody /\ owner[using] # Nobody BY <1>1, <1>2 DEF InHand, Connects, Waits
<1>6. using \in Sessions /\ owner[using] \in Accounts BY <1>1, <1>5 DEF TypeOK
<1>7. tree' \subseteq Accounts /\ tree \subseteq tree' /\ (tree = {} => tree' = {}) BY <1>1, <1>2, <1>6 DEF TypeOK
<1>8. TypeOK' BY <1>1, <1>2, <1>4, <1>7 DEF TypeOK, Steps, sessions, walking
<1>9. InHand' BY <1>4 DEF InHand, Busy, Waits, Connects
<1>10. SignedIn' /\ TreeOfAccount' /\ ParkedOnlySignedOut'
    BY <1>1, <1>2, <1>7 DEF SignedIn, TreeOfAccount, ParkedOnlySignedOut, sessions
<1> QED BY <1>8, <1>9, <1>10 DEF DrainInv

-----------------------------------------------------------------------------
(* The walks, and what calls the worker.                                   *)

\* A walk that ends lets the stage that waits for it go on.
LEMMA ReleasesFacts ==
    ASSUME DrainInv, NEW s \in Sessions, NEW rechecked \in {"rechecked", "failing"}, Releases(s, rechecked)
    PROVE  /\ pc' \in Steps /\ walks' \in [Sessions -> Nat] /\ waitsFor' \in Sessions \cup {Nobody}
           /\ callers' \in [Sessions -> SUBSET {"login", "route"}]
           /\ UNCHANGED <<row, cur, again, steps, using, sessions, requests, parked>>
           /\ (waitsFor # s \/ pc \notin Waits) => pc' = pc
           /\ InHand'
<1>1. TypeOK /\ InHand BY DEF DrainInv
<1>2. /\ walks[s] > 0 /\ walks' = [walks EXCEPT ![s] = @ - 1]
      /\ waitsFor' = IF waitsFor = s THEN Nobody ELSE waitsFor
      /\ callers' = [callers EXCEPT ![s] = {}]
      /\ UNCHANGED <<row, cur, again, steps, using, sessions, requests, parked>>
    BY DEF Releases
<1>3. walks' \in [Sessions -> Nat]
    <2>1. walks \in [Sessions -> Nat] BY <1>1 DEF TypeOK
    <2>2. walks[s] - 1 \in Nat BY <1>2, <2>1
    <2> QED BY <1>2, <2>1, <2>2
<1>4. waitsFor' \in Sessions \cup {Nobody} /\ callers' \in [Sessions -> SUBSET {"login", "route"}] BY <1>1, <1>2 DEF TypeOK
<1>5. CASE waitsFor # s
    <2>1. pc' = pc BY <1>5 DEF Releases
    <2>2. waitsFor' = waitsFor BY <1>2, <1>5
    <2>3. InHand' BY <1>1, <1>2, <2>1, <2>2 DEF InHand, sessions
    <2> QED BY <1>1, <1>2, <1>3, <1>4, <2>1, <2>3 DEF TypeOK
<1>6. CASE waitsFor = s
    <2>1. pc \in Waits /\ cur \in Docs /\ steps < MaxSteps /\ using # Nobody
        BY <1>1, <1>6, NobodyIsNoSession DEF InHand, Waits, Busy, Steps, Connects
    <2>2. pc' = CASE pc = "walk" -> "walked" [] pc = "recheck" -> rechecked [] pc = "filedWalk" -> "filed"
        BY <1>6 DEF Releases
    <2>3. pc' \in {"walked", rechecked, "filed"} BY <2>1, <2>2 DEF Waits
    <2>4. pc' \in Steps /\ pc' \notin Waits BY <2>3 DEF Steps, Waits
    <2>5. waitsFor' = Nobody BY <1>2, <1>6
    <2>6. InHand' BY <1>1, <1>2, <2>1, <2>4, <2>5 DEF InHand, sessions
    <2> QED BY <1>2, <1>3, <1>4, <1>6, <2>1, <2>4, <2>6
<1> QED BY <1>5, <1>6
LEMMA WalksEnd == ASSUME DrainInv, NEW s \in Sessions, WalkEnds(s) \/ WalkFails(s) PROVE DrainInv'
<1>1. TypeOK /\ InHand /\ SignedIn /\ TreeOfAccount /\ ParkedOnlySignedOut BY DEF DrainInv
<1>2. refreshing' \in Sessions \cup {Nobody} /\ resumes' \in BOOLEAN
    <2>1. refreshing' = IF refreshing = s THEN Nobody ELSE refreshing BY DEF WalkEnds, WalkFails, Forgets
    <2>2. resumes' \in BOOLEAN BY DEF WalkEnds, WalkFails
    <2> QED BY <1>1, <2>1, <2>2 DEF TypeOK
<1>3. faults' \in 0..MaxFaults BY <1>1, FaultCounts DEF WalkEnds, WalkFails, TypeOK
<1>4. PICK rechecked \in {"rechecked", "failing"} : Releases(s, rechecked) BY DEF WalkEnds, WalkFails
<1>5. /\ pc' \in Steps /\ walks' \in [Sessions -> Nat] /\ waitsFor' \in Sessions \cup {Nobody}
      /\ callers' \in [Sessions -> SUBSET {"login", "route"}]
      /\ UNCHANGED <<row, cur, again, steps, using, sessions, requests, parked>> /\ InHand'
    BY <1>4, ReleasesFacts
<1>6. tree' = tree \/ (tree' = {owner[s]} /\ live = s) BY DEF WalkEnds, WalkFails, Counts
<1>7. tree' \subseteq Accounts /\ SignedIn' /\ TreeOfAccount'
    <2>1. CASE tree' = tree BY <1>1, <1>5, <2>1 DEF SignedIn, TreeOfAccount, sessions, TypeOK
    <2>2. CASE tree' = {owner[s]} /\ live = s
        <3>1. live # Nobody /\ owner[s] = userId /\ userId # Nobody BY <1>1, <2>2, NobodyIsNoSession DEF SignedIn
        <3>2. owner[s] \in Accounts BY <1>1, <3>1 DEF TypeOK
        <3> QED BY <1>1, <1>5, <2>2, <3>1, <3>2 DEF SignedIn, TreeOfAccount, sessions
    <2> QED BY <1>6, <2>1, <2>2
<1>8. TypeOK' BY <1>1, <1>2, <1>3, <1>5, <1>7 DEF TypeOK, sessions
<1>9. ParkedOnlySignedOut' BY <1>1, <1>5 DEF ParkedOnlySignedOut, sessions
<1> QED BY <1>5, <1>7, <1>8, <1>9 DEF DrainInv

\* A wake, with whatever it finds to do.
LEMMA WakeKeeps ==
    ASSUME DrainInv, Wake, row' \in [Docs -> [state: States, due: BOOLEAN]], requests' \in 0..MaxRequests,
           resumes' \in BOOLEAN, UNCHANGED <<sessions, tree, walks, refreshing, callers, faults, parked>>
    PROVE  DrainInv'
<1>1. TypeOK /\ InHand /\ SignedIn /\ TreeOfAccount /\ ParkedOnlySignedOut BY DEF DrainInv
<1>2. /\ pc' \in Steps /\ again' \in BOOLEAN /\ steps' \in 0..MaxSteps
      /\ pc' # pc => pc = "off" /\ pc' = "look"
      /\ steps' # steps => pc' = "look"
      /\ UNCHANGED <<cur, using, waitsFor>>
    BY <1>1, WakeFacts
<1>3. TypeOK' BY <1>1, <1>2 DEF TypeOK, sessions
<1>4. InHand' BY <1>1, <1>2 DEF InHand, Busy, Steps, Waits, Connects, sessions
<1>5. SignedIn' /\ TreeOfAccount' /\ ParkedOnlySignedOut'
    BY <1>1 DEF SignedIn, TreeOfAccount, ParkedOnlySignedOut, sessions
<1> QED BY <1>3, <1>4, <1>5 DEF DrainInv
LEMMA CallersKeep ==
    ASSUME DrainInv,
           \/ Resumes \/ Poll \/ \E d \in Docs, state \in States : Request(d, state)
    PROVE  DrainInv'
<1>1. TypeOK BY DEF DrainInv
<1>2. CASE Resumes
    <2>1. row' \in [Docs -> [state: States, due: BOOLEAN]] BY <1>1, <1>2 DEF Resumes, TypeOK
    <2> QED BY <1>1, <1>2, <2>1, WakeKeeps DEF Resumes, TypeOK
<1>3. CASE Poll BY <1>1, <1>3, WakeKeeps DEF Poll, TypeOK, walking
<1>4. ASSUME NEW d \in Docs, NEW state \in States, Request(d, state) PROVE DrainInv'
    <2>1. row' \in [Docs -> [state: States, due: BOOLEAN]] BY <1>1, <1>4, MoveTyped DEF Request
    <2>2. requests' \in 0..MaxRequests BY <1>1, <1>4, WorkerAssumption DEF Request, TypeOK
    <2> QED BY <1>1, <1>4, <2>1, <2>2, WakeKeeps DEF Request, TypeOK, walking
<1> QED BY <1>2, <1>3, <1>4
LEMMA BecomesDueKeeps == ASSUME DrainInv, NEW d \in Docs, BecomesDue(d) PROVE DrainInv'
<1>1. TypeOK /\ InHand /\ SignedIn /\ TreeOfAccount /\ ParkedOnlySignedOut BY DEF DrainInv
<1>2. /\ row' = [row EXCEPT ![d].due = TRUE]
      /\ UNCHANGED <<drain, sessions, tree, walking, requests, faults, parked>>
    BY DEF BecomesDue
<1>3. row' \in [Docs -> [state: States, due: BOOLEAN]] BY <1>1, <1>2 DEF TypeOK
<1>4. TypeOK' BY <1>1, <1>2, <1>3 DEF TypeOK, drain, sessions, walking
<1>5. InHand' BY <1>1, <1>2 DEF InHand, drain, sessions
<1>6. SignedIn' /\ TreeOfAccount' /\ ParkedOnlySignedOut'
    BY <1>1, <1>2 DEF SignedIn, TreeOfAccount, ParkedOnlySignedOut, sessions
<1> QED BY <1>4, <1>5, <1>6 DEF DrainInv
LEMMA RefreshesKeep == ASSUME DrainInv, RefreshTimer \/ RefreshRoute PROVE DrainInv'
<1>1. TypeOK /\ InHand /\ SignedIn /\ TreeOfAccount /\ ParkedOnlySignedOut BY DEF DrainInv
<1>2. /\ live # Nobody /\ Refresh(live) /\ UNCHANGED <<row, drain, sessions, tree, resumes, requests, faults, parked>>
    BY DEF RefreshTimer, RefreshRoute
<1>3. live \in Sessions BY <1>1, <1>2 DEF TypeOK
<1>4. refreshing' = live /\ walks' \in [Sessions -> Nat] BY <1>1, <1>2, <1>3, RefreshFacts
<1>5. callers' \in [Sessions -> SUBSET {"login", "route"}] BY <1>1, <1>3, <1>4 DEF RefreshTimer, RefreshRoute, TypeOK
<1>6. TypeOK' BY <1>1, <1>2, <1>3, <1>4, <1>5 DEF TypeOK, drain, sessions
<1>7. InHand' BY <1>1, <1>2 DEF InHand, drain, sessions
<1>8. SignedIn' /\ TreeOfAccount' /\ ParkedOnlySignedOut'
    BY <1>1, <1>2 DEF SignedIn, TreeOfAccount, ParkedOnlySignedOut, sessions
<1> QED BY <1>6, <1>7, <1>8 DEF DrainInv

-----------------------------------------------------------------------------
(* Logins.                                                                 *)

\* A login that counts resumes everything that waited for one, and walks.
LEMMA OnLoginFacts ==
    ASSUME TypeOK, NEW s \in Sessions, OnLogin(s)
    PROVE  /\ row' \in [Docs -> [state: States, due: BOOLEAN]] /\ parked' = {}
           /\ refreshing' = s /\ walks' \in [Sessions -> Nat]
           /\ callers' \in [Sessions -> SUBSET {"login", "route"}]
<1>1. row' = [d \in Docs |-> IF d \in Waiting THEN [state |-> "filing", due |-> TRUE] ELSE row[d]]
    BY DEF OnLogin, Resumed
<1>2. row' \in [Docs -> [state: States, due: BOOLEAN]] BY <1>1 DEF TypeOK, States
<1>3. \A d \in Docs : row'[d].state # "awaiting_login" BY <1>1 DEF Waiting
<1>4. parked' = {} BY <1>3 DEF OnLogin, TypeOK
<1>5. refreshing' = s /\ walks' \in [Sessions -> Nat] BY RefreshFacts DEF OnLogin
<1>6. callers' \in [Sessions -> SUBSET {"login", "route"}] BY <1>5 DEF OnLogin, TypeOK
<1> QED BY <1>2, <1>4, <1>5, <1>6
LEMMA LoginsKeep ==
    ASSUME DrainInv, LoginCleared \/ LoginFails \/ Logout \/ \E a \in Accounts : LoginSame(a) \/ LoginOther(a)
    PROVE  DrainInv'
<1>1. TypeOK /\ InHand /\ SignedIn /\ TreeOfAccount /\ ParkedOnlySignedOut BY DEF DrainInv
<1> DEFINE s == NextLogin
<1>2. Unused # {} => s \in Sessions /\ owner[s] = Nobody /\ s # Nobody
    BY LoginIsUnused, NobodyIsNoSession DEF Unused
<1> HIDE DEF s
<1>3. ASSUME NEW a \in Accounts, LoginSame(a) PROVE DrainInv'
    <2>1. /\ starting = Nobody /\ userId \in {Nobody, a} /\ Unused # {}
          /\ owner' = [owner EXCEPT ![s] = a] /\ userId' = a /\ live' = s /\ OnLogin(s)
          /\ UNCHANGED <<drain, starting, tree, resumes, requests, faults>>
        BY <1>3 DEF LoginSame, s
    <2>2. s \in Sessions /\ owner[s] = Nobody /\ s # Nobody /\ a # Nobody BY <1>2, <2>1, NobodyIsNoSession
    <2>3. /\ row' \in [Docs -> [state: States, due: BOOLEAN]] /\ parked' = {}
          /\ refreshing' = s /\ walks' \in [Sessions -> Nat] /\ callers' \in [Sessions -> SUBSET {"login", "route"}]
        BY <1>1, <2>1, <2>2, OnLoginFacts
    <2>4. owner' \in [Sessions -> Accounts \cup {Nobody}] /\ owner'[s] = a /\ \A t \in Sessions \ {s} : owner'[t] = owner[t]
        BY <1>1, <2>1, <2>2 DEF TypeOK
    <2>5. TypeOK' BY <1>1, <2>1, <2>2, <2>3, <2>4 DEF TypeOK, drain
    <2>6. InHand'
        <3>1. using # Nobody => using \in Sessions /\ owner[using] # Nobody /\ using # s BY <1>1, <2>2 DEF InHand, TypeOK
        <3>2. waitsFor # Nobody => using # Nobody BY <1>1 DEF InHand, Connects
        <3> QED BY <1>1, <2>1, <2>4, <3>1, <3>2 DEF InHand, drain
    <2>7. SignedIn' BY <2>1, <2>2, <2>4 DEF SignedIn
    <2>8. TreeOfAccount'
        <3>1. tree # {} => userId = a BY <1>1, <2>1, NobodyIsNoSession DEF TreeOfAccount, TypeOK
        <3> QED BY <1>1, <2>1, <3>1 DEF TreeOfAccount
    <2>9. ParkedOnlySignedOut' BY <2>3 DEF ParkedOnlySignedOut
    <2> QED BY <2>5, <2>6, <2>7, <2>8, <2>9 DEF DrainInv
<1>4. ASSUME NEW a \in Accounts, LoginOther(a) PROVE DrainInv'
    <2>1. /\ starting = Nobody /\ Unused # {} /\ owner' = [owner EXCEPT ![s] = a] /\ starting' = s /\ live' = Nobody
          /\ tree' = {} /\ UNCHANGED <<row, drain, userId, walking, requests, faults, parked>>
        BY <1>4 DEF LoginOther, ClearsTree, s
    <2>2. s \in Sessions /\ owner[s] = Nobody /\ s # Nobody /\ a # Nobody BY <1>2, <2>1, NobodyIsNoSession
    <2>3. owner' \in [Sessions -> Accounts \cup {Nobody}] /\ owner'[s] = a /\ \A t \in Sessions \ {s} : owner'[t] = owner[t]
        BY <1>1, <2>1, <2>2 DEF TypeOK
    <2>4. TypeOK' BY <1>1, <2>1, <2>2, <2>3 DEF TypeOK, drain, walking
    <2>5. InHand'
        <3>1. using # Nobody => using \in Sessions /\ owner[using] # Nobody /\ using # s BY <1>1, <2>2 DEF InHand, TypeOK
        <3>2. waitsFor # Nobody => using # Nobody BY <1>1 DEF InHand, Connects
        <3> QED BY <1>1, <2>1, <2>3, <3>1, <3>2 DEF InHand, drain
    <2>6. SignedIn' /\ TreeOfAccount' /\ ParkedOnlySignedOut'
        BY <2>1, <2>2, <2>3 DEF SignedIn, TreeOfAccount, ParkedOnlySignedOut
    <2> QED BY <2>4, <2>5, <2>6 DEF DrainInv
<1>5. CASE LoginCleared
    <2>1. /\ starting # Nobody /\ starting' = Nobody /\ live' = starting /\ userId' = owner[starting] /\ OnLogin(starting)
          /\ UNCHANGED <<drain, owner, tree, resumes, requests, faults>>
        BY <1>5 DEF LoginCleared
    <2>2. starting \in Sessions /\ owner[starting] \in Accounts /\ owner[starting] # Nobody /\ tree = {}
        BY <1>1, <2>1 DEF TypeOK, SignedIn
    <2>3. /\ row' \in [Docs -> [state: States, due: BOOLEAN]] /\ parked' = {}
          /\ refreshing' = starting /\ walks' \in [Sessions -> Nat] /\ callers' \in [Sessions -> SUBSET {"login", "route"}]
        BY <1>1, <2>1, <2>2, OnLoginFacts
    <2>4. TypeOK' BY <1>1, <2>1, <2>2, <2>3 DEF TypeOK, drain
    <2>5. InHand'
        <3>1. waitsFor # Nobody => using # Nobody BY <1>1 DEF InHand, Connects
        <3> QED BY <1>1, <2>1, <3>1 DEF InHand, drain
    <2>6. SignedIn' /\ TreeOfAccount' /\ ParkedOnlySignedOut'
        BY <2>1, <2>2, <2>3 DEF SignedIn, TreeOfAccount, ParkedOnlySignedOut
    <2> QED BY <2>4, <2>5, <2>6 DEF DrainInv
<1>6. CASE LoginFails
    <2>1. starting' = Nobody /\ Fault /\ UNCHANGED <<row, drain, live, owner, userId, tree, walking, requests, parked>>
        BY <1>6 DEF LoginFails
    <2>2. TypeOK' BY <1>1, <2>1, FaultCounts DEF TypeOK, drain, walking
    <2>3. InHand' BY <1>1, <2>1 DEF InHand, drain
    <2>4. SignedIn' /\ TreeOfAccount' /\ ParkedOnlySignedOut'
        BY <1>1, <2>1 DEF SignedIn, TreeOfAccount, ParkedOnlySignedOut
    <2> QED BY <2>2, <2>3, <2>4 DEF DrainInv
<1>7. CASE Logout
    <2>1. starting = Nobody /\ live' = Nobody
          /\ UNCHANGED <<row, drain, starting, owner, userId, tree, walking, requests, faults, parked>>
        BY <1>7 DEF Logout
    <2>2. TypeOK' BY <1>1, <2>1 DEF TypeOK, drain, walking
    <2>3. InHand'
        <3>1. waitsFor # Nobody => using # Nobody BY <1>1 DEF InHand, Connects
        <3> QED BY <1>1, <2>1, <3>1 DEF InHand, drain
    <2>4. SignedIn' /\ TreeOfAccount' /\ ParkedOnlySignedOut'
        BY <1>1, <2>1 DEF SignedIn, TreeOfAccount, ParkedOnlySignedOut
    <2> QED BY <2>2, <2>3, <2>4 DEF DrainInv
<1> QED BY <1>3, <1>4, <1>5, <1>6, <1>7

-----------------------------------------------------------------------------
(* The invariant, and what follows from it.                                *)

LEMMA DrainStarts == Init => DrainInv
<1> SUFFICES ASSUME Init PROVE DrainInv OBVIOUS
<1>1. TypeOK
    <2>1. "rest" \in States /\ "look" \in Steps BY DEF States, Steps
    <2>2. 0 \in 0..MaxSteps /\ 0 \in 0..MaxRequests /\ 0 \in 0..MaxFaults BY WorkerAssumption
    <2> QED BY <2>1, <2>2 DEF Init, TypeOK
<1>2. InHand BY DEF Init, InHand, Busy, Waits, Connects
<1>3. SignedIn /\ TreeOfAccount /\ ParkedOnlySignedOut BY DEF Init, SignedIn, TreeOfAccount, ParkedOnlySignedOut
<1> QED BY <1>1, <1>2, <1>3 DEF DrainInv
LEMMA DrainContinues == DrainInv /\ [Next]_vars => DrainInv'
<1> SUFFICES ASSUME DrainInv, [Next]_vars PROVE DrainInv' OBVIOUS
<1>1. CASE UNCHANGED vars
    BY <1>1 DEF DrainInv, TypeOK, InHand, SignedIn, TreeOfAccount, ParkedOnlySignedOut, vars
<1>2. CASE Drains BY <1>2, StagesEnd, DrainGoesOn, StagesWalk, FileAddsKeeps DEF Drains
<1>3. CASE Outside BY <1>3, CallersKeep, RefreshesKeep, LoginsKeep DEF Outside
<1>4. CASE Poll \/ Resumes BY <1>4, CallersKeep
<1>5. CASE LoginCleared \/ LoginFails BY <1>5, LoginsKeep
<1>6. CASE \E s \in Sessions : WalkEnds(s) \/ WalkFails(s) BY <1>6, WalksEnd
<1>7. CASE \E d \in Docs : BecomesDue(d) BY <1>7, BecomesDueKeeps
<1> QED BY <1>1, <1>2, <1>3, <1>4, <1>5, <1>6, <1>7 DEF Next
LEMMA DrainInvariant == Spec => []DrainInv
BY DrainStarts, DrainContinues, PTL DEF Spec

\* The cached tree is of the account signed in last, however many walks of older
\* sessions end when (worker.ts:245).
THEOREM TreeIsOfAccount == Spec => []TreeOfAccount
<1>1. DrainInv => TreeOfAccount BY DEF DrainInv
<1> QED BY <1>1, DrainInvariant, PTL

\* Nothing that was parked for want of a login waits while somebody is signed in
\* (worker.ts:264, file.ts:34).
THEOREM ParkedWaitSignedOut == Spec => []ParkedOnlySignedOut
<1>1. DrainInv => ParkedOnlySignedOut BY DEF DrainInv
<1> QED BY <1>1, DrainInvariant, PTL

\* A stage that waits for a walk finds the tree of its session's account when that
\* walk has succeeded and the session is still live: the walk is of that session and
\* counts (worker.ts:241).
THEOREM StagesAreServed == Spec => WalkServesStage
<1> DEFINE A == (pc \in {"walk", "recheck", "filedWalk"} /\ pc' # pc /\ live = using /\ faults' = faults)
                => (tree' = {owner[using]})
<1>1. DrainInv /\ [Next]_vars => [A]_vars
    <2> SUFFICES ASSUME DrainInv, Next, pc \in Waits, pc' # pc, live = using, faults' = faults
                 PROVE  tree' = {owner[using]}
        BY DEF Waits
    <2>1. TypeOK /\ InHand BY DEF DrainInv
    <2>2. waitsFor = using BY <2>1 DEF InHand
    <2>3. ASSUME NEW s \in Sessions, WalkEnds(s) PROVE tree' = {owner[using]}
        <3>1. Releases(s, "rechecked") BY <2>3 DEF WalkEnds
        <3>2. waitsFor = s BY <3>1, ReleasesFacts
        <3> QED BY <2>2, <2>3, <3>2 DEF WalkEnds, Counts
    <2>4. \A s \in Sessions : ~WalkFails(s) BY <2>1, FaultCounts DEF WalkFails
    <2>5. pc \notin {"off", "look", "looked", "walked", "rechecked", "analyze", "file", "filed", "failing"} BY DEF Waits
    <2>6. ~Drains
        BY <2>5 DEF Drains, FindsNothing, GoesRound, DrainEnds, LoopIsOver, AnalyzeAfterWalk, FileEnds, FileWalks, FileAdds,
                    FileRechecked, FileFolderGone, AnalyzeStarts, AnalyzeWalks, AnalyzeDefers, FileParks, FileStarts,
                    AnalyzeEnds, FileExpires, StageThrows, Takes
    <2>7. ~Wake BY <2>1, <2>5, WakeFacts
    <2>8. ~UNCHANGED drain BY DEF drain
    <2>9. ~Outside BY <2>7, <2>8 DEF Outside, Request, RefreshTimer, RefreshRoute, Logout, LoginSame, LoginOther
    <2>10. ~Poll /\ ~Resumes BY <2>7 DEF Poll, Resumes
    <2>11. ~LoginCleared /\ ~LoginFails /\ \A d \in Docs : ~BecomesDue(d)
        BY <2>8 DEF LoginCleared, LoginFails, BecomesDue
    <2> QED BY <2>3, <2>4, <2>6, <2>9, <2>10, <2>11 DEF Next
<1> QED BY <1>1, DrainInvariant, PTL DEF Spec, WalkServesStage
=============================================================================
