--------------------------- MODULE SessionsProofs ---------------------------
(***************************************************************************)
(* The sessions of Sessions, for any accounts, passkeys and bounds: whose  *)
(* keys, tokens, wraps and cache entries are live together, and who holds  *)
(* the newest tokens of a login.                                           *)
(***************************************************************************)
EXTENDS Sessions, TLAPS

-----------------------------------------------------------------------------
(* The inductive invariant.                                                *)

Queued(j)  == job[j].pc = "queued"
Running(j) == job[j].pc \notin TurnsPass \cup {"queued"}
\* An unlock that has opened a wrap, and has not ended.
Unlocks(j) == job[j].pc \in {"opening", "refreshed", "refused", "reopening"}
First(p)   == p[1]

\* Proton issued the tokens; the newest of their login, unless an answer was lost.
Issued(t) == proton[t.login].account \in Accounts /\ t.gen <= proton[t.login].gen
Newest(t) == t.login \in unsure \/ t.gen = proton[t.login].gen
\* A login with passphrase p can tell from fingerprint f that it is stale.
Matches(p, f) == p = f \/ p \in unmarked

\* The turns: the requests that have started are the first ones, one at a time.
TurnsInOrder == \A i, j \in Jobs : i < j /\ ~Queued(j) => job[i].pc \in TurnsPass
QueuedIsNew == \A j \in Jobs : Queued(j) => proton[j].account = Nobody
ClientlessYet == \A j \in Jobs : job[j].pc \notin TurnsPass \cup {"loginClears"} => client[j] = Nobody
RegisteredStarted == \A c \in ToSet(registered) : Started(c)
HeaderHasOne == mode = "header" => \A c, d \in ToSet(registered) : c = d
EnrolInHeader == enrol # Nobody => mode = "header"
\* What clears the caches, or unlocks, does so with no session live.
RunningAlone == (\E j \in Jobs : Running(j)) => registered = <<>>

\* Whose tokens, wraps and fingerprint they are.
ClientsIssued ==
    \A c \in Jobs : client[c] # Nobody =>
        /\ Issued(client[c].tokens) /\ First(client[c].pass) = Account(c)
        /\ client[c].fp # Nobody => First(client[c].fp) = Account(c)
StoredIssued == stored # Nobody => Issued(stored)
FpOfUser == fp # Nobody => First(fp) = userId
FpOfLive ==
    mode = "header" =>
        \A c \in ToSet(registered) : fp \in {Nobody, client[c].fp} /\ Matches(client[c].pass, client[c].fp)
WrapsOfStored == passkeys # NoPasskeys /\ stored # Nobody => proton[stored.login].account = userId

\* An unlock works with the stored session, and a wrap of its account.
UnlockOfStored ==
    \A j \in Jobs : Unlocks(j) =>
        /\ mode = "header" /\ stored # Nobody /\ proton[stored.login].account = userId
        /\ job[j].pass \in Passes /\ First(job[j].pass) = userId /\ Matches(job[j].pass, fp)
        /\ IF job[j].pc = "refreshed"
           THEN /\ job[j].tokens = Renewed(stored) /\ job[j].tokens \in Tokens
                /\ Issued(job[j].tokens) /\ Newest(job[j].tokens)
           ELSE job[j].tokens = stored
\* A login that clears the caches has stored its tokens, and nothing of the old account is left.
ClearingIsFirst ==
    \A j \in Jobs : job[j].pc = "loginClears" =>
        /\ client[j] # Nobody /\ client[j].tokens = stored /\ client[j].pass = client[j].fp
        /\ Newest(stored)
        /\ passkeys = NoPasskeys /\ fp = Nobody

\* Who holds which tokens.
OnItsWayIssued ==
    \A c \in onItsWay :
        /\ Started(c) /\ client[c].tokens.gen < proton[client[c].tokens.login].gen
        /\ \/ client[c].tokens.login \in unsure
           \/ proton[client[c].tokens.login].gen = client[c].tokens.gen + 1
ClientsNewest == \A c \in Jobs : Started(c) /\ c \notin onItsWay => Newest(client[c].tokens)
OneHolder ==
    \A c, d \in Jobs : Started(c) /\ Started(d) /\ client[c].tokens.login = client[d].tokens.login =>
        c = d \/ client[c].tokens.login \in unsure
Held(t) == \E c \in Jobs : Started(c) /\ client[c].tokens.login = t.login
StoredHeld ==
    stored # Nobody /\ stored.login \notin unsure =>
        /\ \A c \in Jobs : Started(c) /\ client[c].tokens.login = stored.login =>
               IsLive(c) /\ (client[c].tokens = stored \/ stored.login \in unsaved)
        /\ \/ Held(stored) \/ (\E j \in Jobs : job[j].pc = "refreshed")
           \/ stored.gen = proton[stored.login].gen \/ stored.login \in unsaved

Turns    == /\ TurnsInOrder /\ QueuedIsNew /\ ClientlessYet /\ RegisteredStarted /\ HeaderHasOne
            /\ EnrolInHeader /\ RunningAlone
Whose    == /\ ClientsIssued /\ StoredIssued /\ FpOfUser /\ FpOfLive /\ WrapsOfStored
            /\ UnlockOfStored /\ ClearingIsFirst
Holders  == OnItsWayIssued /\ ClientsNewest /\ OneHolder /\ StoredHeld
SessionsInv ==
    /\ TypeOK /\ Turns /\ Whose /\ Holders
    /\ KeysMatchTokens /\ StoredIsLive /\ CachesOfAccount /\ WrapsMatchFingerprint /\ SecretsDisposed
    /\ NoTokenSpentTwice

-----------------------------------------------------------------------------
(* Facts about the operators of the model.                                 *)

\* Registering a session puts it last, beside those it does not replace.
LEMMA Appended ==
    ASSUME NEW S, NEW s \in Seq(S), NEW x \in S
    PROVE  /\ Append(s, x) \in Seq(S) /\ Append(s, x) # <<>>
           /\ ToSet(Append(s, x)) = ToSet(s) \cup {x} /\ Last(Append(s, x)) = x
           /\ IsInjective(s) /\ x \notin ToSet(s) => IsInjective(Append(s, x))
<1>1. Append(s, x) \in Seq(S) /\ Len(Append(s, x)) = Len(s) + 1 /\ Len(s) \in Nat OBVIOUS
<1>2. \A i \in 1..Len(s) : Append(s, x)[i] = s[i] OBVIOUS
<1>3. Append(s, x)[Len(s) + 1] = x OBVIOUS
<1>4. DOMAIN s = 1..Len(s) /\ DOMAIN Append(s, x) = 1..(Len(s) + 1) BY <1>1
<1>5. ToSet(Append(s, x)) = ToSet(s) \cup {x} BY <1>1, <1>2, <1>3, <1>4 DEF ToSet
<1>6. Last(Append(s, x)) = x BY <1>1, <1>3 DEF Last
<1>7. ASSUME IsInjective(s), x \notin ToSet(s) PROVE IsInjective(Append(s, x))
    BY <1>1, <1>2, <1>3, <1>4, <1>7 DEF ToSet, IsInjective
<1>8. Append(s, x) # <<>> BY <1>1
<1> QED BY <1>1, <1>5, <1>6, <1>7, <1>8

LEMMA EmptyRegistry == ToSet(<<>>) = {} /\ IsInjective(<<>>) /\ <<>> \in Seq(Jobs)
BY DEF ToSet, IsInjective

\* Nobody is live exactly when no session is registered.
LEMMA LiveIsRegistered ==
    ASSUME registered \in Seq(Jobs)
    PROVE  /\ Live = Nobody <=> registered = <<>>
           /\ Live # Nobody => Live \in ToSet(registered)
           /\ ToSet(registered) \subseteq Jobs
           /\ registered # <<>> => ToSet(registered) # {}
<1>1. Nobody \notin Jobs BY SessionsAssumption DEF Jobs
<1>2. ToSet(registered) \subseteq Jobs BY DEF ToSet
<1>3. ASSUME registered # <<>> PROVE Last(registered) \in ToSet(registered)
    <2>1. Len(registered) \in DOMAIN registered BY <1>3
    <2> QED BY <2>1 DEF Last, ToSet
<1> QED BY <1>1, <1>2, <1>3 DEF Live

\* What a client or tokens are made of.
LEMMA ClientFields ==
    ASSUME NEW c \in Clients
    PROVE  /\ c # Nobody /\ c.tokens \in Tokens /\ c.pass \in Passes /\ c.fp \in Passes \cup {Nobody}
BY NobodyAssumption DEF Clients
LEMMA TokensFields ==
    ASSUME NEW t \in Tokens
    PROVE  /\ t # Nobody /\ t.login \in Jobs /\ t.gen \in Nat /\ t.gen <= MaxRefreshes
           /\ Renewed(t).login = t.login /\ Renewed(t).gen = t.gen + 1
           /\ t.gen < MaxRefreshes => Renewed(t) \in Tokens
<1>1. t \in [login: Jobs, gen: 0..MaxRefreshes] BY DEF Tokens
<1>2. t.login \in Jobs /\ t.gen \in 0..MaxRefreshes BY <1>1
<1>3. Renewed(t) = [login |-> t.login, gen |-> t.gen + 1] BY <1>1 DEF Renewed
<1>4. t.gen \in Nat /\ t.gen <= MaxRefreshes BY <1>2, SessionsAssumption
<1>5. t.gen < MaxRefreshes => t.gen + 1 \in 0..MaxRefreshes BY <1>4, SessionsAssumption
<1> QED BY <1>2, <1>3, <1>4, <1>5, NobodyAssumption DEF Tokens
LEMMA PassFields ==
    ASSUME NEW p \in Passes
    PROVE  p # Nobody /\ First(p) \in Accounts
BY NobodyAssumption DEF Passes, First
LEMMA ProtonFields ==
    ASSUME TypeOK, NEW j \in Jobs
    PROVE  /\ proton[j].account \in Accounts \cup {Nobody} /\ proton[j].gen \in Nat
           /\ proton[j].gen <= MaxRefreshes /\ proton[j].ended \in BOOLEAN
BY SessionsAssumption DEF TypeOK

-----------------------------------------------------------------------------
(* Requests that end with less than they began with.                       *)

\* What a request that fails, or only cleans up, leaves behind.
Stops(j) ==
    /\ MyTurn(j) \/ Running(j)
    /\ \E pc \in TurnsPass : Ends(j, pc) /\ (pc = "answered" => client[j] = Nobody)
    /\ UNCHANGED <<mode, client, registered, sids, userId, enrol, onItsWay, proton, version, restarts, unsaved,
                   unmarked, reused>>
    /\ stored' = stored \/ (stored' = Nobody /\ registered = <<>>)
    /\ \/ fp' = fp /\ \A k \in Keys : passkeys'[k] \in {passkeys[k], Nobody}
       \/ fp' = Nobody /\ passkeys' = NoPasskeys
    /\ passkeys' \in [Keys -> Passes \cup {Nobody}]
    /\ caches' \subseteq caches /\ faults' \in 0..MaxFaults
    /\ secrets' = IF job[j].pc = "loginClears" THEN secrets \ {j} ELSE secrets
    /\ unsure' \in SUBSET Jobs /\ unsure \subseteq unsure' /\ unstarted' \in SUBSET Jobs /\ unstarted \subseteq unstarted'
    /\ job[j].pc = "refreshed" /\ stored' # Nobody => stored.login \in unsure'

LEMMA StopKeepsInv ==
    ASSUME SessionsInv, NEW j \in Jobs, Stops(j)
    PROVE  SessionsInv'
<1>1. TypeOK /\ Turns /\ Whose /\ Holders BY DEF SessionsInv
<1>2. PICK pc \in TurnsPass : Ends(j, pc) /\ (pc = "answered" => client[j] = Nobody) BY DEF Stops
<1>3. /\ job' \in [Jobs -> [pc: Waits, tokens: Tokens \cup {Nobody}, pass: Passes \cup {Nobody}]]
      /\ job'[j].pc = pc /\ \A i \in Jobs \ {j} : job'[i] = job[i]
    BY <1>1, <1>2 DEF TypeOK, Ends, TurnsPass, Waits
<1>4. UNCHANGED <<mode, client, registered, sids, userId, enrol, onItsWay, proton, version, restarts, unsaved,
                  unmarked, reused>>
    BY DEF Stops
<1>5. \A c \in Jobs : Started(c)' <=> Started(c)
    BY <1>1, <1>2, <1>3, <1>4 DEF Started, Stops, MyTurn, Running, TurnsPass, Turns, ClientlessYet
<1>6. \A i \in Jobs : Running(i)' => i # j /\ Running(i) BY <1>3 DEF Running, TurnsPass
<1>8. TypeOK' BY <1>1, <1>3, <1>4 DEF Stops, TypeOK
<1>9. Turns' 
  <2>1. TurnsInOrder' BY <1>1, <1>3 DEF Stops, Turns, TurnsInOrder, MyTurn, Running, Queued, TurnsPass, Jobs
  <2>2. QueuedIsNew' /\ ClientlessYet' BY <1>1, <1>3, <1>4 DEF Turns, QueuedIsNew, ClientlessYet, Queued, TurnsPass
  <2>3. RegisteredStarted' /\ HeaderHasOne' /\ EnrolInHeader' /\ RunningAlone'
     BY <1>1, <1>4, <1>5, <1>6, LiveIsRegistered DEF Turns, RegisteredStarted, HeaderHasOne, EnrolInHeader, RunningAlone, TypeOK
  <2> QED BY <2>1, <2>2, <2>3 DEF Turns
<1>10. Whose'
  <2>1. ClientsIssued' /\ StoredIssued' BY <1>1, <1>4 DEF Stops, Whose, ClientsIssued, StoredIssued, Issued, Account
  <2>2. FpOfUser' /\ FpOfLive' /\ WrapsOfStored' BY <1>1, <1>4 DEF Stops, Whose, FpOfUser, FpOfLive, Matches, WrapsOfStored, NoPasskeys, TypeOK
  <2>3. \A i \in Jobs : i # j => ~Running(i) BY <1>1 DEF Stops, Turns, TurnsInOrder, MyTurn, Running, Queued, TurnsPass, Jobs
  <2>4. UnlockOfStored' /\ ClearingIsFirst' BY <2>3, <1>3, <1>2 DEF UnlockOfStored, ClearingIsFirst, Unlocks, Running, TurnsPass
  <2> QED BY <2>1, <2>2, <2>4 DEF Whose
<1>11. Holders'
  <2>1. OnItsWayIssued' /\ ClientsNewest' /\ OneHolder' 
     BY <1>1, <1>4, <1>5 DEF Stops, Holders, OnItsWayIssued, ClientsNewest, OneHolder, Newest, TypeOK
  <2>2. StoredHeld' 
     BY <1>1, <1>3, <1>4, <1>5 DEF Stops, Holders, StoredHeld, Held, IsLive
  <2> QED BY <2>1, <2>2 DEF Holders
<1>12. KeysMatchTokens' /\ StoredIsLive' /\ CachesOfAccount'
  BY <1>1, <1>4, LiveIsRegistered, EmptyRegistry DEF Stops, SessionsInv, KeysMatchTokens, StoredIsLive, CachesOfAccount, Account, Live, TypeOK
<1>13. WrapsMatchFingerprint'  BY <1>1, <1>4 DEF Stops, SessionsInv, WrapsMatchFingerprint, NoPasskeys, TypeOK
<1>14. SecretsDisposed'
  <2>1. secrets = ToSet(registered) \cup {i \in Jobs : job[i].pc = "loginClears"}
    BY DEF SessionsInv, SecretsDisposed
  <2>2. job[j].pc = "loginClears" => j \notin ToSet(registered)
    BY <1>1, EmptyRegistry DEF Turns, RunningAlone, Running, TurnsPass
  <2>3. job'[j].pc # "loginClears" BY <1>3 DEF TurnsPass
  <2>4. {i \in Jobs : job'[i].pc = "loginClears"} = {i \in Jobs : job[i].pc = "loginClears"} \ {j}
    BY <1>3, <2>3
  <2>5. CASE job[j].pc = "loginClears"
    <3>1. secrets' = secrets \ {j} BY <2>5 DEF Stops
    <3> QED BY <1>4, <2>1, <2>2, <2>4, <2>5, <3>1 DEF SecretsDisposed
  <2>6. CASE job[j].pc # "loginClears"
    <3>1. secrets' = secrets BY <2>6 DEF Stops
    <3>2. {i \in Jobs : job'[i].pc = "loginClears"} = {i \in Jobs : job[i].pc = "loginClears"} BY <2>4, <2>6
    <3> QED BY <1>4, <2>1, <3>1, <3>2 DEF SecretsDisposed
  <2> QED BY <2>5, <2>6
<1>15. NoTokenSpentTwice' BY <1>4 DEF SessionsInv, NoTokenSpentTwice
<1> QED BY <1>8, <1>9, <1>10, <1>11, <1>12, <1>13, <1>14, <1>15 DEF SessionsInv

\* What is left of a set of faults.
LEMMA FaultCounted == ASSUME TypeOK, Fault PROVE faults' \in 0..MaxFaults
BY SessionsAssumption DEF TypeOK, Fault

LEMMA FailingStops ==
    ASSUME SessionsInv, NEW j \in Jobs,
           NothingDone(j) \/ LogoutCleared(j) \/ LogoutClearFails(j) \/ LoginClearFails(j) \/ UnlockFails(j)
    PROVE  Stops(j)
<1>1. TypeOK /\ Turns BY DEF SessionsInv
<1>2. CASE NothingDone(j)
    BY <1>1, <1>2 DEF NothingDone, MyTurn, Stops, TurnsPass, TypeOK, memory, rows, remote, books, Running
<1>3. CASE LogoutCleared(j)
    BY <1>1, <1>3 DEF LogoutCleared, Turns, ClientlessYet, Stops, TurnsPass, TypeOK, memory, rows, remote, books, Running, SecretsDisposed
<1>4. CASE LogoutClearFails(j)
    BY <1>1, <1>4, FaultCounted DEF LogoutClearFails, Turns, ClientlessYet, Stops, TurnsPass, TypeOK, memory, rows, remote, lacks, Running
<1>5. CASE LoginClearFails(j)
    BY <1>1, <1>5, FaultCounted DEF LoginClearFails, Stops, TurnsPass, TypeOK, rows, remote, lacks, Running
<1>6. CASE UnlockFails(j)
    BY <1>1, <1>6 DEF UnlockFails, Stops, TurnsPass, TypeOK, memory, rows, remote, books, Running
<1> QED BY <1>2, <1>3, <1>4, <1>5, <1>6
LEMMA UnlockStops ==
    ASSUME SessionsInv, NEW j \in Jobs,
           (\E k \in Keys : UnlockUnreadable(j, k)) \/ UnlockEnded(j) \/ UnlockLost(j) \/ UnlockStale(j)
    PROVE  Stops(j)
<1>1. TypeOK /\ Turns /\ Whose BY DEF SessionsInv
<1>2. ASSUME NEW k \in Keys, UnlockUnreadable(j, k) PROVE Stops(j)
    BY <1>1, <1>2, FaultCounted DEF UnlockUnreadable, CanUnwrap, MyTurn, Stops, TurnsPass, TypeOK, memory, rows, remote, lacks, Running
<1>3. CASE UnlockEnded(j)
    BY <1>1, <1>3, FaultCounted DEF UnlockEnded, Turns, RunningAlone, Stops, TurnsPass, TypeOK, memory, rows, remote, lacks, Running
<1>4. CASE UnlockLost(j)
    <2>1. stored \in Tokens /\ job[j].tokens = Renewed(stored)
        BY <1>1, <1>4 DEF UnlockLost, Whose, UnlockOfStored, Unlocks, TypeOK
    <2>2. job[j].tokens.login = stored.login /\ stored.login \in Jobs BY <2>1, TokensFields
    <2> QED BY <1>1, <1>4, <2>2, FaultCounted DEF UnlockLost, Stops, TurnsPass, TypeOK, memory, rows, remote, lacks, Running
<1>5. CASE UnlockStale(j)
    BY <1>1, <1>5, FaultCounted DEF UnlockStale, NoPasskeys, Stops, TurnsPass, TypeOK, memory, remote, lacks, Running
<1> QED BY <1>2, <1>3, <1>4, <1>5

-----------------------------------------------------------------------------
(* What happens beside the requests.                                       *)

\* A step that leaves the requests and the clients alone, and adds no secret,
\* no tokens and no wrap.
Beside ==
    /\ UNCHANGED <<mode, job, client, registered, sids, secrets, stored, userId, fp>>
    /\ passkeys' \in [Keys -> Passes \cup {Nobody}] /\ \A k \in Keys : passkeys'[k] \in {passkeys[k], Nobody}
    /\ enrol' \in Jobs \cup {Nobody} /\ (enrol' # Nobody => mode = "header")
    /\ caches' \subseteq Accounts /\ caches' \subseteq caches \cup {userId}
    /\ onItsWay' \subseteq onItsWay
    /\ \A c \in onItsWay \ onItsWay' : client[c].tokens.login \in unsure'
    /\ proton' \in [Jobs -> [account: Accounts \cup {Nobody}, gen: 0..MaxRefreshes, ended: BOOLEAN]]
    /\ \A j \in Jobs : proton'[j].account = proton[j].account /\ proton'[j].gen = proton[j].gen
    /\ version' \in [Accounts -> 1..MaxVersions] /\ faults' \in 0..MaxFaults
    /\ unsure' \in SUBSET Jobs /\ unsure \subseteq unsure'
    /\ UNCHANGED <<restarts, unsaved, unmarked, reused, unstarted>>

LEMMA BesideKeepsInv ==
    ASSUME SessionsInv, Beside
    PROVE  SessionsInv'
<1>1. TypeOK /\ Turns /\ Whose /\ Holders BY DEF SessionsInv
<1>2. UNCHANGED <<mode, job, client, registered, sids, secrets, stored, userId, fp, restarts, unsaved, unmarked,
                  reused, unstarted>>
    BY DEF Beside
<1>3. \A c \in Jobs : client[c] # Nobody => client[c].tokens.login \in Jobs
    BY <1>1, ClientFields, TokensFields DEF TypeOK
<1>4. stored # Nobody => stored.login \in Jobs BY <1>1, TokensFields DEF TypeOK
<1>5. \A c \in Jobs : Started(c)' <=> Started(c) BY <1>2 DEF Started
<1>6. TypeOK' BY <1>1, <1>2 DEF Beside, TypeOK
<1>7. Turns'
    <2>1. QueuedIsNew' BY <1>1, <1>2 DEF Beside, Turns, QueuedIsNew, Queued
    <2>2. RegisteredStarted' BY <1>1, <1>2 DEF Turns, RegisteredStarted, Started
    <2> QED BY <1>1, <1>2, <2>1, <2>2
            DEF Beside, Turns, TurnsInOrder, ClientlessYet, HeaderHasOne, EnrolInHeader, RunningAlone, Queued, Running
<1>8. Whose'
    <2>1. ClientsIssued' /\ StoredIssued'
        BY <1>1, <1>2, <1>3, <1>4 DEF Beside, Whose, ClientsIssued, StoredIssued, Issued, Account
    <2>2. FpOfUser' /\ FpOfLive' BY <1>1, <1>2 DEF Whose, FpOfUser, FpOfLive, Matches
    <2>3. WrapsOfStored' BY <1>1, <1>2, <1>4 DEF Beside, Whose, WrapsOfStored, NoPasskeys, TypeOK
    <2>6. ClearingIsFirst'
        <3>1. stored # Nobody /\ Newest(stored) => Newest(stored)' BY <1>2, <1>4 DEF Beside, Newest
        <3>2. \A j \in Jobs : client[j] # Nobody /\ client[j].tokens = stored => stored # Nobody
            BY <1>1, ClientFields, TokensFields DEF TypeOK
        <3>3. passkeys = NoPasskeys => passkeys' = NoPasskeys BY <1>1 DEF Beside, NoPasskeys, TypeOK
        <3> QED BY <1>1, <1>2, <3>1, <3>2, <3>3 DEF Whose, ClearingIsFirst
    <2>4. ASSUME NEW j \in Jobs, job[j].pc = "refreshed", Unlocks(j)
          PROVE  Issued(job[j].tokens)' /\ Newest(job[j].tokens)'
        <3>1. job[j].tokens \in Tokens /\ Issued(job[j].tokens) /\ Newest(job[j].tokens)
            BY <1>1, <2>4 DEF Whose, UnlockOfStored
        <3>2. job[j].tokens.login \in Jobs BY <3>1, TokensFields
        <3> QED BY <1>2, <3>1, <3>2 DEF Beside, Issued, Newest
    <2>5. UnlockOfStored'
        BY <1>1, <1>2, <1>4, <2>4 DEF Beside, Whose, UnlockOfStored, Unlocks, Renewed, Matches
    <2> QED BY <2>1, <2>2, <2>3, <2>5, <2>6 DEF Whose
<1>9. Holders'
    <2>1. OnItsWayIssued' /\ OneHolder'
        BY <1>1, <1>2, <1>3, <1>5 DEF Beside, Holders, OnItsWayIssued, OneHolder, Started, TypeOK
    <2>2. ClientsNewest' BY <1>1, <1>2, <1>3, <1>5 DEF Beside, Holders, ClientsNewest, Newest, Started
    <2>3. StoredHeld' BY <1>1, <1>2, <1>4, <1>5 DEF Beside, Holders, StoredHeld, Held, IsLive
    <2> QED BY <2>1, <2>2, <2>3 DEF Holders
<1>10. KeysMatchTokens'
    <2>1. \A c \in ToSet(registered) : c \in Jobs /\ client[c] # Nobody
        BY <1>1, LiveIsRegistered DEF TypeOK, Turns, RegisteredStarted, Started
    <2> QED BY <1>2, <1>3, <1>4, <2>1 DEF Beside, SessionsInv, KeysMatchTokens, Account
<1>11. StoredIsLive' /\ CachesOfAccount' BY <1>2 DEF Beside, SessionsInv, StoredIsLive, CachesOfAccount, Live
<1>12. WrapsMatchFingerprint' /\ SecretsDisposed' /\ NoTokenSpentTwice'
    BY <1>2 DEF Beside, SessionsInv, WrapsMatchFingerprint, SecretsDisposed, NoTokenSpentTwice
<1> QED BY <1>6, <1>7, <1>8, <1>9, <1>10, <1>11, <1>12 DEF SessionsInv

LEMMA OthersAreBeside ==
    ASSUME SessionsInv,
           \/ EnrolPosts \/ EnrolRefused \/ \E k \in Keys : RemovePasskey(k)
           \/ \E c \in Jobs : CacheWrite(c) \/ DriveRefreshLost(c)
           \/ LoginExpires \/ \E a \in Accounts : PasswordChanges(a)
    PROVE  Beside
<1>1. TypeOK BY DEF SessionsInv
<1>2. CASE EnrolPosts \/ EnrolRefused
    BY <1>1, <1>2, LiveIsRegistered DEF EnrolPosts, EnrolRefused, Beside, TypeOK, memory, rows, remote, books
<1>3. ASSUME NEW k \in Keys, RemovePasskey(k) PROVE Beside
    BY <1>1, <1>3 DEF SessionsInv, Turns, EnrolInHeader, RemovePasskey, Beside, TypeOK, memory, remote, books
<1>4. ASSUME NEW c \in Jobs, CacheWrite(c) PROVE Beside
    <2>1. Account(c) = userId /\ Account(c) \in Accounts
        BY <1>4 DEF SessionsInv, KeysMatchTokens, CacheWrite, MayWrite, IsLive, Whose, ClientsIssued, Issued, Account, Started
    <2> QED BY <1>1, <1>4, <2>1 DEF SessionsInv, Turns, EnrolInHeader, CacheWrite, Beside, TypeOK, memory, rows, remote, books
<1>5. ASSUME NEW c \in Jobs, DriveRefreshLost(c) PROVE Beside
    <2>1. client[c].tokens.login \in Jobs
        BY <1>1, <1>5, ClientFields, TokensFields
        DEF SessionsInv, Holders, OnItsWayIssued, Started, DriveRefreshLost, TypeOK
    <2> QED BY <1>1, <1>5, <2>1, FaultCounted
            DEF SessionsInv, Turns, EnrolInHeader, DriveRefreshLost, Beside, TypeOK, memory, rows, remote, lacks
<1>6. CASE LoginExpires
    <2>1. stored.login \in Jobs BY <1>1, <1>6, TokensFields DEF TypeOK, LoginExpires
    <2>2. /\ proton' \in [Jobs -> [account: Accounts \cup {Nobody}, gen: 0..MaxRefreshes, ended: BOOLEAN]]
          /\ \A j \in Jobs : proton'[j].account = proton[j].account /\ proton'[j].gen = proton[j].gen
        <3>1. PICK l \in Jobs : l = stored.login BY <2>1
        <3>2. proton' = [proton EXCEPT ![l].ended = TRUE] BY <1>6, <3>1 DEF LoginExpires
        <3>3. proton \in [Jobs -> [account: Accounts \cup {Nobody}, gen: 0..MaxRefreshes, ended: BOOLEAN]] BY <1>1 DEF TypeOK
        <3> QED BY <3>2, <3>3
    <2>3. UNCHANGED <<mode, job, client, registered, sids, secrets, stored, userId, fp, passkeys, enrol, caches, onItsWay, version,
                      restarts, faults, unsure, unsaved, unmarked, reused, unstarted>>
        BY <1>6 DEF LoginExpires, memory, rows, books
    <2>4. enrol # Nobody => mode = "header" BY DEF SessionsInv, Turns, EnrolInHeader
    <2> QED BY <1>1, <2>2, <2>3, <2>4 DEF Beside, TypeOK
<1>7. ASSUME NEW a \in Accounts, PasswordChanges(a) PROVE Beside
    BY <1>1, <1>7, SessionsAssumption
    DEF SessionsInv, Turns, EnrolInHeader, PasswordChanges, Beside, TypeOK, memory, rows, books
<1> QED BY <1>2, <1>3, <1>4, <1>5, <1>6, <1>7

-----------------------------------------------------------------------------
(* Passkeys and the Drive clients.                                         *)

LEMMA EnrolKeepsInv ==
    ASSUME SessionsInv, NEW k \in Keys, EnrolAdds(k) \/ EnrolUnmarked(k)
    PROVE  SessionsInv'
<1> DEFINE p == client[enrol].pass
           f == client[enrol].fp
<1>1. TypeOK /\ Turns /\ Whose /\ Holders BY DEF SessionsInv
<1>2. UNCHANGED <<mode, job, client, registered, sids, secrets, stored, userId, caches, onItsWay, proton,
                  version, restarts, unsure, unsaved, reused, unstarted>> /\ enrol' = Nobody
    BY DEF EnrolAdds, EnrolUnmarked, memory, remote
<1>3. enrol = Live /\ enrol \in ToSet(registered) /\ enrol \in Jobs /\ mode = "header" /\ registered # <<>>
    BY <1>1, LiveIsRegistered DEF EnrolAdds, EnrolUnmarked, MayUse, Turns, EnrolInHeader, TypeOK
<1>4. /\ p \in Passes /\ p # Nobody /\ f \in Passes \cup {Nobody}
      /\ First(p) = Account(enrol) /\ (f # Nobody => First(f) = Account(enrol))
    BY <1>1, <1>3, ClientFields, PassFields DEF Whose, ClientsIssued, Turns, RegisteredStarted, Started, TypeOK
<1>5. userId = Account(enrol) /\ stored # Nobody /\ proton[stored.login].account = userId
    BY <1>3 DEF SessionsInv, KeysMatchTokens
<1>6. fp \in {Nobody, f} /\ Matches(p, f) BY <1>1, <1>3 DEF Whose, FpOfLive
<1>7. /\ passkeys' = [passkeys EXCEPT ![k] = p]
      /\ \/ f # Nobody /\ fp' = f /\ unmarked' = unmarked \ {f} /\ UNCHANGED faults
         \/ f = Nobody /\ fp' = fp /\ unmarked' = unmarked /\ UNCHANGED faults
         \/ f # Nobody /\ fp' = fp /\ unmarked' = unmarked \cup ({p} \ {fp}) /\ Fault
    BY DEF EnrolAdds, EnrolUnmarked
<1>8. mode = "header" => \A c \in ToSet(registered) : c = enrol BY <1>1, <1>3 DEF Turns, HeaderHasOne
<1> HIDE DEF p, f
\* The live session's fingerprint stays the recorded one or the one to record.
<1>9. fp' \in {Nobody, f} /\ (p = f \/ p \in unmarked') /\ (p = fp' \/ p \in unmarked')
    BY <1>4, <1>6, <1>7 DEF Matches
<1>10. TypeOK'
    <2>1. faults' \in 0..MaxFaults BY <1>1, <1>7, FaultCounted DEF TypeOK
    <2>2. passkeys' \in [Keys -> Passes \cup {Nobody}] BY <1>1, <1>4, <1>7 DEF TypeOK
    <2>3. unmarked' \subseteq Passes /\ fp' \in Passes \cup {Nobody} BY <1>1, <1>4, <1>7 DEF TypeOK
    <2> QED BY <1>1, <1>2, <2>1, <2>2, <2>3 DEF TypeOK
<1>11. Turns'
    BY <1>1, <1>2 DEF Turns, TurnsInOrder, QueuedIsNew, ClientlessYet, RegisteredStarted, Started, HeaderHasOne,
                      EnrolInHeader, RunningAlone, Queued, Running
<1>12. \A j \in Jobs : ~Running(j) BY <1>1, <1>3 DEF Turns, RunningAlone
<1>13. Whose'
    <2>1. ClientsIssued' /\ StoredIssued' BY <1>1, <1>2 DEF Whose, ClientsIssued, StoredIssued, Issued, Account
    <2>2. FpOfUser' BY <1>2, <1>4, <1>5, <1>9 DEF FpOfUser
    <2>3. FpOfLive' BY <1>2, <1>8, <1>9 DEF FpOfLive, Matches, p, f
    <2>4. WrapsOfStored' BY <1>2, <1>5 DEF WrapsOfStored
    <2>5. UnlockOfStored' /\ ClearingIsFirst'
        BY <1>2, <1>12 DEF UnlockOfStored, ClearingIsFirst, Unlocks, Running, TurnsPass
    <2> QED BY <2>1, <2>2, <2>3, <2>4, <2>5 DEF Whose
<1>14. Holders'
    BY <1>1, <1>2 DEF Holders, OnItsWayIssued, ClientsNewest, OneHolder, StoredHeld, Held, IsLive, Newest, Started
<1>15. KeysMatchTokens' /\ StoredIsLive' /\ CachesOfAccount' /\ SecretsDisposed' /\ NoTokenSpentTwice'
    BY <1>2 DEF SessionsInv, KeysMatchTokens, StoredIsLive, CachesOfAccount, SecretsDisposed, NoTokenSpentTwice,
                Account, Live
<1>16. WrapsMatchFingerprint'
    <2>1. ASSUME NEW q \in Keys, passkeys'[q] # Nobody
          PROVE  passkeys'[q][1] = userId' /\ (passkeys'[q] = fp' \/ passkeys'[q] \in unmarked')
        <3>1. CASE q = k
            <4>1. passkeys'[q] = p BY <1>1, <1>7, <3>1 DEF TypeOK
            <4> QED BY <1>2, <1>4, <1>5, <1>9, <4>1 DEF First
        <3>2. CASE q # k
            <4>1. passkeys'[q] = passkeys[q] BY <1>1, <1>7, <3>2 DEF TypeOK
            <4>2. passkeys[q][1] = userId /\ (passkeys[q] = fp \/ passkeys[q] \in unmarked)
                BY <2>1, <4>1 DEF SessionsInv, WrapsMatchFingerprint
            <4>3. passkeys[q] = fp' \/ passkeys[q] \in unmarked' BY <1>6, <1>7, <2>1, <4>1, <4>2
            <4> QED BY <1>2, <4>1, <4>2, <4>3
        <3> QED BY <3>1, <3>2
    <2> QED BY <2>1 DEF WrapsMatchFingerprint
<1> QED BY <1>10, <1>11, <1>13, <1>14, <1>15, <1>16 DEF SessionsInv

\* What Proton does with a refresh token it issued.
LEMMA SpendFacts ==
    ASSUME TypeOK, NEW t \in Tokens, Spend(t)
    PROVE  /\ proton' \in [Jobs -> [account: Accounts \cup {Nobody}, gen: 0..MaxRefreshes, ended: BOOLEAN]]
           /\ \A j \in Jobs : proton'[j].account = proton[j].account
           /\ \A j \in Jobs \ {t.login} : proton'[j].gen = proton[j].gen
           /\ Accepts(t) => /\ proton'[t.login].gen = proton[t.login].gen + 1
                            /\ t.gen = proton[t.login].gen /\ t.gen < MaxRefreshes
           /\ ~Accepts(t) => proton' = proton
           /\ (Newest(t) \/ t.login \in unsaved) /\ ~reused => ~reused'
           /\ reused' \in BOOLEAN
<1>1. t.login \in Jobs /\ t.gen \in Nat BY TokensFields
<1>2. reused' \in BOOLEAN /\ ((Newest(t) \/ t.login \in unsaved) /\ ~reused => ~reused')
    BY DEF Spend, TypeOK, Newest
<1>3. CASE Accepts(t)
    <2>1. t.gen = proton[t.login].gen /\ t.gen < MaxRefreshes BY <1>3 DEF Spend, Accepts
    <2>2. proton' = [proton EXCEPT ![t.login].gen = @ + 1] BY <1>3 DEF Spend
    <2>3. proton[t.login].gen + 1 \in 0..MaxRefreshes BY <1>1, <2>1, SessionsAssumption
    <2>4. proton \in [Jobs -> [account: Accounts \cup {Nobody}, gen: 0..MaxRefreshes, ended: BOOLEAN]] BY DEF TypeOK
    <2>5. /\ proton' \in [Jobs -> [account: Accounts \cup {Nobody}, gen: 0..MaxRefreshes, ended: BOOLEAN]]
          /\ proton'[t.login].gen = proton[t.login].gen + 1
          /\ \A j \in Jobs : proton'[j].account = proton[j].account
        BY <1>1, <2>2, <2>3, <2>4
    <2>6. \A j \in Jobs \ {t.login} : proton'[j] = proton[j] BY <1>1, <2>2, <2>4
    <2> QED BY <1>2, <1>3, <2>1, <2>5, <2>6
<1>4. CASE ~Accepts(t) BY <1>1, <1>2, <1>4 DEF Spend, TypeOK
<1> QED BY <1>3, <1>4

LEMMA DriveRefreshesKeepsInv ==
    ASSUME SessionsInv, NEW c \in Jobs, DriveRefreshes(c)
    PROVE  SessionsInv'
<1> DEFINE t == client[c].tokens
<1>1. TypeOK /\ Turns /\ Whose /\ Holders BY DEF SessionsInv
<1>2. Started(c) /\ c \notin onItsWay /\ t \in Tokens /\ Spend(t) /\ t.login \in Jobs /\ t.gen \in Nat
    BY <1>1, ClientFields, TokensFields DEF DriveRefreshes, MayRefresh, Started, TypeOK
<1>3. Newest(t) BY <1>1, <1>2 DEF Holders, ClientsNewest
<1>4. UNCHANGED <<mode, job, client, registered, sids, secrets, stored, userId, fp, passkeys, enrol, caches,
                  version, restarts, faults, unsure, unsaved, unmarked, unstarted>>
    BY DEF DriveRefreshes, memory, rows, lacks
<1>5. onItsWay' = IF Accepts(t) THEN onItsWay \cup {c} ELSE onItsWay BY DEF DriveRefreshes
<1> HIDE DEF t
<1>6. TypeOK' BY <1>1, <1>2, <1>4, <1>5, SpendFacts DEF TypeOK
<1>7. \A j \in Jobs : proton'[j].account = proton[j].account /\ proton[j].gen <= proton'[j].gen
    BY <1>1, <1>2, SpendFacts, ProtonFields
<1>8. \A d \in Jobs : Started(d)' <=> Started(d) BY <1>4 DEF Started
<1>9. \A d \in Jobs : client[d] # Nobody => /\ client[d].tokens.login \in Jobs /\ client[d].tokens.gen \in Nat
    BY <1>1, ClientFields, TokensFields DEF TypeOK
<1>10. stored # Nobody => stored.login \in Jobs /\ stored.gen \in Nat BY <1>1, TokensFields DEF TypeOK
<1>11. \A j \in Jobs : proton[j].gen \in Nat /\ proton'[j].gen \in Nat
    <2>1. \A j \in Jobs : proton[j].gen \in Nat BY <1>1, ProtonFields
    <2>2. proton' \in [Jobs -> [account: Accounts \cup {Nobody}, gen: 0..MaxRefreshes, ended: BOOLEAN]] BY <1>6 DEF TypeOK
    <2>3. \A n \in 0..MaxRefreshes : n \in Nat BY SessionsAssumption
    <2>4. \A j \in Jobs : proton'[j].gen \in Nat BY <2>2, <2>3
    <2> QED BY <2>1, <2>4
<1>12. Turns'
    <2>1. QueuedIsNew' BY <1>1, <1>4, <1>7 DEF Turns, QueuedIsNew, Queued
    <2> QED BY <1>1, <1>4, <2>1 DEF Turns, TurnsInOrder, ClientlessYet, RegisteredStarted, Started, HeaderHasOne,
                      EnrolInHeader, RunningAlone, Queued, Running
<1>13. c \in ToSet(registered) \/ t.login \in unsure \/ stored = Nobody \/ stored.login # t.login
    BY <1>1, <1>2 DEF Holders, StoredHeld, IsLive, t
<1>14. Whose'
    <2>1. ClientsIssued' /\ StoredIssued'
        BY <1>1, <1>4, <1>7, <1>9, <1>10, <1>11 DEF Whose, ClientsIssued, StoredIssued, Issued, Account
    <2>2. FpOfUser' /\ FpOfLive' BY <1>1, <1>4 DEF Whose, FpOfUser, FpOfLive, Matches
    <2>6. ClearingIsFirst'
        <3>1. ASSUME NEW j \in Jobs, job[j].pc = "loginClears", client[j] # Nobody, client[j].tokens = stored,
                     Newest(stored)
              PROVE  Newest(stored)'
            <4>1. registered = <<>> BY <1>1, <3>1 DEF Turns, RunningAlone, Running, TurnsPass
            <4>2. stored \in Tokens BY <1>1, <3>1, ClientFields DEF TypeOK
            <4>3. t.login \in unsure \/ stored.login # t.login BY <1>13, <4>1, <4>2, EmptyRegistry, TokensFields
            <4>4. stored.login \in Jobs BY <4>2, TokensFields
            <4> QED BY <1>1, <1>2, <1>4, <3>1, <4>3, <4>4, SpendFacts DEF Newest
        <3> QED BY <1>1, <1>4, <3>1 DEF Whose, ClearingIsFirst
    <2>3. WrapsOfStored' BY <1>1, <1>4, <1>7, <1>10 DEF Whose, WrapsOfStored
    <2>4. ASSUME NEW j \in Jobs, job[j].pc = "refreshed", Unlocks(j)
          PROVE  Issued(job[j].tokens)' /\ Newest(job[j].tokens)'
        <3>1. /\ stored # Nobody /\ job[j].tokens = Renewed(stored) /\ job[j].tokens \in Tokens
              /\ Issued(job[j].tokens) /\ Newest(job[j].tokens)
            BY <1>1, <2>4 DEF Whose, UnlockOfStored
        <3>2. job[j].tokens.login = stored.login /\ job[j].tokens.login \in Jobs /\ job[j].tokens.gen \in Nat
            BY <1>1, <3>1, TokensFields DEF TypeOK
        <3>3. registered = <<>> BY <1>1, <2>4 DEF Turns, RunningAlone, Running, TurnsPass
        <3>4. t.login \in unsure \/ stored.login # t.login BY <1>13, <3>1, <3>3, EmptyRegistry
        <3>5. Newest(job[j].tokens)' BY <1>2, <1>4, <1>1, <3>1, <3>2, <3>4, SpendFacts DEF Newest
        <3> QED BY <1>4, <1>7, <1>11, <3>1, <3>2, <3>5 DEF Issued
    <2>5. UnlockOfStored' BY <1>1, <1>4, <1>7, <1>10, <2>4 DEF Whose, UnlockOfStored, Unlocks, Renewed, Matches
    <2> QED BY <2>1, <2>2, <2>3, <2>5, <2>6 DEF Whose
<1>15. Holders'
    <2>1. OnItsWayIssued'
        <3>1. ASSUME NEW d \in onItsWay', d = c, Accepts(t)
              PROVE  Started(d) /\ client[d].tokens.gen < proton'[client[d].tokens.login].gen
                     /\ proton'[client[d].tokens.login].gen = client[d].tokens.gen + 1
            BY <1>1, <1>2, <1>11, <3>1, SpendFacts DEF t
        <3>2. ASSUME NEW d \in onItsWay', d \in onItsWay
              PROVE  /\ Started(d) /\ client[d].tokens.gen < proton'[client[d].tokens.login].gen
                     /\ \/ client[d].tokens.login \in unsure
                        \/ proton'[client[d].tokens.login].gen = client[d].tokens.gen + 1
            <4>1. d \in Jobs /\ d # c /\ Started(d) /\ client[d] # Nobody
                BY <1>1, <1>2, <3>2 DEF TypeOK, Holders, OnItsWayIssued, Started
            <4>2. client[d].tokens.login \in unsure \/ client[d].tokens.login # t.login
                BY <1>1, <1>2, <4>1 DEF Holders, OneHolder, t
            <4>3. client[d].tokens.gen < proton'[client[d].tokens.login].gen
                BY <1>1, <1>7, <1>9, <1>11, <3>2, <4>1 DEF Holders, OnItsWayIssued
            <4>4. client[d].tokens.login # t.login =>
                     proton'[client[d].tokens.login].gen = proton[client[d].tokens.login].gen
                BY <1>1, <1>2, <1>9, <4>1, SpendFacts
            <4> QED BY <1>1, <3>2, <4>1, <4>2, <4>3, <4>4 DEF Holders, OnItsWayIssued
        <3> QED BY <1>4, <1>5, <1>8, <1>1, <3>1, <3>2 DEF OnItsWayIssued, Started
    <2>2. ClientsNewest'
        <3>1. ASSUME NEW d \in Jobs, Started(d), d \notin onItsWay' PROVE Newest(client[d].tokens)'
            <4>1. Newest(client[d].tokens) /\ client[d].tokens.login \in Jobs
                BY <1>1, <1>5, <1>9, <3>1 DEF Holders, ClientsNewest, Started
            <4>2. CASE Accepts(t)
                <5>1. d # c BY <1>5, <3>1, <4>2
                <5>2. client[d].tokens.login \in unsure \/ client[d].tokens.login # t.login
                    BY <1>1, <1>2, <3>1, <5>1 DEF Holders, OneHolder, t
                <5> QED BY <1>1, <1>2, <1>4, <4>1, <5>2, SpendFacts DEF Newest
            <4>3. CASE ~Accepts(t) BY <1>1, <1>2, <1>4, <4>1, <4>3, SpendFacts DEF Newest
            <4> QED BY <4>2, <4>3
        <3> QED BY <1>4, <1>8, <3>1 DEF ClientsNewest
    <2>3. OneHolder' BY <1>1, <1>4, <1>8 DEF Holders, OneHolder
    <2>4. StoredHeld'
        <3>1. Held(stored)' <=> Held(stored) BY <1>4, <1>8 DEF Held
        <3>2. stored # Nobody /\ stored.login = t.login => Held(stored) BY <1>2 DEF Held, t
        <3>3. stored # Nobody /\ stored.login # t.login => proton'[stored.login].gen = proton[stored.login].gen
            BY <1>1, <1>2, <1>10, SpendFacts
        <3> QED BY <1>1, <1>4, <1>8, <3>1, <3>2, <3>3 DEF Holders, StoredHeld, IsLive
    <2> QED BY <2>1, <2>2, <2>3, <2>4 DEF Holders
<1>16. KeysMatchTokens'
    <2>1. \A d \in ToSet(registered) : d \in Jobs /\ client[d] # Nobody
        BY <1>1, LiveIsRegistered DEF TypeOK, Turns, RegisteredStarted, Started
    <2> QED BY <1>4, <1>7, <1>9, <1>10, <2>1 DEF SessionsInv, KeysMatchTokens, Account
<1>17. StoredIsLive' /\ CachesOfAccount' /\ WrapsMatchFingerprint' /\ SecretsDisposed'
    BY <1>4 DEF SessionsInv, StoredIsLive, CachesOfAccount, WrapsMatchFingerprint, SecretsDisposed, Live
<1>18. NoTokenSpentTwice' BY <1>1, <1>2, <1>3, SpendFacts DEF SessionsInv, NoTokenSpentTwice
<1> QED BY <1>6, <1>12, <1>14, <1>15, <1>16, <1>17, <1>18 DEF SessionsInv

\* A new generation of tokens arrives at its client, and with a live session in the row,
\* if that can be written.
LEMMA DriveRefreshedKeepsInv ==
    ASSUME SessionsInv, NEW c \in Jobs, DriveRefreshed(c) \/ DriveSaveFails(c)
    PROVE  SessionsInv'
<1> DEFINE t == client[c].tokens
<1>1. TypeOK /\ Turns /\ Whose /\ Holders BY DEF SessionsInv
<1>2. c \in onItsWay /\ onItsWay' = onItsWay \ {c} BY DEF DriveRefreshed, DriveSaveFails, Arrives
<1>3. Started(c) /\ client[c] \in Clients /\ client[c] # Nobody /\ t \in Tokens
    BY <1>1, <1>2, ClientFields DEF Holders, OnItsWayIssued, Started, TypeOK
<1>4. UNCHANGED <<mode, job, registered, sids, secrets, userId, fp, passkeys, enrol, caches, proton, version,
                  restarts, unsure, unmarked, reused, unstarted>>
    BY DEF DriveRefreshed, DriveSaveFails, Arrives, rows, remote
<1>5. /\ t.gen < proton[t.login].gen /\ t.login \in Jobs /\ t.gen \in Nat
      /\ t.login \in unsure \/ proton[t.login].gen = t.gen + 1
    BY <1>1, <1>2, <1>3, TokensFields DEF Holders, OnItsWayIssued
<1>6. /\ Renewed(t) \in Tokens /\ Renewed(t).login = t.login /\ Renewed(t).gen = t.gen + 1
      /\ Renewed(t).gen <= proton[t.login].gen
    <2>1. proton[t.login].gen \in Nat /\ proton[t.login].gen <= MaxRefreshes BY <1>1, <1>5, ProtonFields
    <2>2. t.gen < MaxRefreshes BY <1>5, <2>1, SessionsAssumption
    <2> QED BY <1>3, <1>5, <2>1, <2>2, TokensFields
<1>7. client' = [client EXCEPT ![c] = [client[c] EXCEPT !.tokens = Renewed(t)]]
    BY DEF DriveRefreshed, DriveSaveFails, Arrives, Renewed
<1>8. /\ client'[c].tokens = Renewed(t) /\ client'[c].pass = client[c].pass /\ client'[c].fp = client[c].fp
      /\ client'[c] \in Clients
    BY <1>1, <1>3, <1>6, <1>7 DEF Clients, TypeOK
<1>9. \A d \in Jobs \ {c} : client'[d] = client[d] BY <1>1, <1>7 DEF TypeOK
<1>10. client'[c] # Nobody BY <1>8, ClientFields
<1>11. \/ c \in ToSet(registered) /\ stored' = Renewed(t) /\ unsaved' = unsaved \ {t.login}
       \/ c \in ToSet(registered) /\ stored' = stored /\ unsaved' = unsaved \cup {t.login}
       \/ c \notin ToSet(registered) /\ stored' = stored /\ unsaved' = unsaved
    BY <1>6 DEF DriveRefreshed, DriveSaveFails, SpeaksForStored, IsLive, rows
<1> HIDE DEF t
<1>12. \A d \in Jobs : (client'[d] # Nobody <=> client[d] # Nobody) /\ (Started(d)' <=> Started(d))
    BY <1>3, <1>4, <1>9, <1>10 DEF Started
<1>13. \A d \in Jobs : client'[d].tokens.login = client[d].tokens.login BY <1>6, <1>8, <1>9 DEF t
<1>14. \A d \in Jobs : client'[d].pass = client[d].pass /\ client'[d].fp = client[d].fp BY <1>8, <1>9
<1>15. \A d \in Jobs : Account(d)' = Account(d) BY <1>4, <1>13 DEF Account
<1>16. TypeOK'
    <2>1. client' \in [Jobs -> Clients \cup {Nobody}] BY <1>1, <1>7, <1>8 DEF TypeOK
    <2>2. unsaved' \subseteq Jobs BY <1>1, <1>5, <1>11 DEF TypeOK
    <2>3. faults' \in 0..MaxFaults BY <1>1, FaultCounted DEF DriveRefreshed, DriveSaveFails, TypeOK
    <2> QED BY <1>1, <1>2, <1>4, <1>6, <1>11, <2>1, <2>2, <2>3 DEF TypeOK
<1>17. c \in ToSet(registered) => registered # <<>> BY EmptyRegistry
<1>18. Turns'
    <2>1. RegisteredStarted' BY <1>1, <1>4, <1>12, LiveIsRegistered DEF Turns, RegisteredStarted, TypeOK
    <2>2. ClientlessYet' BY <1>1, <1>4, <1>12 DEF Turns, ClientlessYet
    <2> QED BY <1>1, <1>4, <2>1, <2>2 DEF Turns, TurnsInOrder, QueuedIsNew, HeaderHasOne, EnrolInHeader, RunningAlone,
                                          Queued, Running
<1>19. stored' = stored \/ \A j \in Jobs : ~Running(j) BY <1>1, <1>11, <1>17 DEF Turns, RunningAlone
<1>20. Whose'
    <2>1. Issued(client[c].tokens) BY <1>1, <1>3 DEF Whose, ClientsIssued
    <2>2. Issued(client[c].tokens)' BY <1>4, <1>6, <1>8, <2>1 DEF Issued, t
    <2>3. ClientsIssued'
        BY <1>1, <1>4, <1>9, <1>12, <1>14, <1>15, <2>2 DEF Whose, ClientsIssued, Issued
    <2>4. StoredIssued' BY <1>1, <1>4, <1>8, <1>11, <2>2 DEF Whose, StoredIssued, Issued
    <2>5. FpOfUser' /\ FpOfLive'
        BY <1>1, <1>4, <1>14, LiveIsRegistered DEF Whose, FpOfUser, FpOfLive, Matches, TypeOK
    <2>6. WrapsOfStored'
        <3>1. c \in ToSet(registered) => proton[t.login].account = userId
            BY DEF SessionsInv, KeysMatchTokens, Account, t
        <3> QED BY <1>1, <1>4, <1>6, <1>11, <3>1 DEF Whose, WrapsOfStored, NoPasskeys
    <2>7. UnlockOfStored'
        BY <1>1, <1>4, <1>19 DEF Whose, UnlockOfStored, Unlocks, Running, TurnsPass, Issued, Newest, Matches
    <2>8. ClearingIsFirst'
        <3>1. ASSUME NEW j \in Jobs, job[j].pc = "loginClears" PROVE j # c /\ stored' = stored
            BY <1>3, <1>19, <3>1 DEF Started, Running, TurnsPass
        <3> QED BY <1>1, <1>4, <1>9, <3>1 DEF Whose, ClearingIsFirst, Newest, NoPasskeys
    <2> QED BY <2>3, <2>4, <2>5, <2>6, <2>7, <2>8 DEF Whose
<1>21. Newest(client[c].tokens)' BY <1>4, <1>5, <1>6, <1>8 DEF Newest
<1>22. \A d \in Jobs \ {c} : Started(d) /\ client[d].tokens.login = t.login => t.login \in unsure
    BY <1>1, <1>3 DEF Holders, OneHolder, t
<1>23. Holders'
    <2>1. OnItsWayIssued' BY <1>1, <1>2, <1>4, <1>9, <1>12 DEF Holders, OnItsWayIssued, TypeOK
    <2>2. ClientsNewest'
        BY <1>1, <1>2, <1>4, <1>9, <1>12, <1>21 DEF Holders, ClientsNewest, Newest
    <2>3. OneHolder' BY <1>1, <1>4, <1>12, <1>13 DEF Holders, OneHolder
    <2>4. StoredHeld'
        <3>1. CASE c \in ToSet(registered) /\ stored' = Renewed(t)
            <4>1. Held(stored)' BY <1>3, <1>6, <1>8, <1>12, <3>1 DEF Held
            <4> QED BY <1>4, <1>6, <1>8, <1>9, <1>12, <1>22, <3>1, <4>1 DEF StoredHeld, IsLive
        <3>3. CASE c \in ToSet(registered) /\ stored' = stored /\ unsaved' = unsaved \cup {t.login}
            <4>1. Held(stored)' <=> Held(stored) BY <1>12, <1>13, <3>3 DEF Held
            <4>2. \A d \in Jobs : Started(d) /\ client[d].tokens.login = stored.login /\ d = c =>
                      stored.login \in unsaved'
                BY <3>3 DEF t
            <4> QED BY <1>1, <1>4, <1>9, <1>12, <1>13, <3>3, <4>1, <4>2 DEF Holders, StoredHeld, IsLive
        <3>2. CASE c \notin ToSet(registered)
            <4>1. stored # Nobody /\ stored.login \notin unsure => stored.login # t.login
                BY <1>1, <1>3, <3>2 DEF Holders, StoredHeld, IsLive, t
            <4>2. Held(stored)' <=> Held(stored) BY <1>11, <1>12, <1>13, <3>2 DEF Held
            <4> QED BY <1>1, <1>4, <1>6, <1>8, <1>9, <1>11, <1>12, <3>2, <4>1, <4>2 DEF Holders, StoredHeld, IsLive
        <3> QED BY <1>11, <3>1, <3>2, <3>3
    <2> QED BY <2>1, <2>2, <2>3, <2>4 DEF Holders
<1>24. KeysMatchTokens'
    <2>1. \A d \in ToSet(registered) : d \in Jobs BY <1>1, LiveIsRegistered DEF TypeOK
    <2>2. c \in ToSet(registered) => proton[t.login].account = userId BY DEF SessionsInv, KeysMatchTokens, Account, t
    <2>3. Renewed(t) # Nobody BY <1>6, TokensFields
    <2> QED BY <1>4, <1>6, <1>11, <1>15, <2>1, <2>2, <2>3 DEF SessionsInv, KeysMatchTokens
<1>25. StoredIsLive'
    <2>1. CASE c \in ToSet(registered) /\ stored' = Renewed(t)
        BY <1>1, <1>4, <1>8, <2>1, LiveIsRegistered DEF StoredIsLive, Live, Turns, HeaderHasOne, TypeOK
    <2>3. CASE c \in ToSet(registered) /\ stored' = stored /\ unsaved' = unsaved \cup {t.login}
        <3>1. mode = "header" => Live = c /\ Live' = c
            BY <1>1, <1>4, <2>3, LiveIsRegistered, EmptyRegistry DEF Turns, HeaderHasOne, TypeOK, Live
        <3>2. Nobody # c BY SessionsAssumption DEF Jobs
        <3>3. mode = "header" => stored = t \/ stored.login \in unstarted \/ stored.login = t.login
            BY <3>1, <3>2 DEF SessionsInv, StoredIsLive, t
        <3> QED BY <1>4, <1>6, <1>8, <2>3, <3>1, <3>3 DEF StoredIsLive
    <2>2. CASE c \notin ToSet(registered)
        BY <1>1, <1>4, <1>9, <1>11, <2>2, LiveIsRegistered DEF SessionsInv, StoredIsLive, Live, TypeOK
    <2> QED BY <1>11, <2>1, <2>2, <2>3
<1>26. CachesOfAccount' /\ WrapsMatchFingerprint' /\ SecretsDisposed' /\ NoTokenSpentTwice'
    BY <1>4 DEF SessionsInv, CachesOfAccount, WrapsMatchFingerprint, SecretsDisposed, NoTokenSpentTwice
<1> QED BY <1>16, <1>18, <1>20, <1>23, <1>24, <1>25, <1>26 DEF SessionsInv

-----------------------------------------------------------------------------
(* Logout and the restart: no session is left.                             *)

\* What is in order when no session is registered, and nothing is stored that a
\* client holds.
LEMMA NothingLiveKeeps ==
    ASSUME registered' = <<>>, secrets' = {}, \A j \in Jobs : job'[j].pc # "loginClears"
    PROVE  /\ RegisteredStarted' /\ HeaderHasOne' /\ RunningAlone' /\ FpOfLive'
           /\ KeysMatchTokens' /\ StoredIsLive' /\ SecretsDisposed'
BY EmptyRegistry DEF RegisteredStarted, HeaderHasOne, RunningAlone, FpOfLive, KeysMatchTokens, StoredIsLive,
                     SecretsDisposed, Live

\* Before a request has its turn, no other one runs.
LEMMA TurnIsAlone ==
    ASSUME SessionsInv, NEW j \in Jobs, MyTurn(j)
    PROVE  /\ \A i \in Jobs : ~Running(i)
           /\ client[j] = Nobody /\ proton[j].account = Nobody /\ Queued(j)
           /\ \A i \in Jobs : i < j => job[i].pc \in TurnsPass
           /\ \A i \in Jobs : i > j => Queued(i)
<1>1. Turns BY DEF SessionsInv
<1>2. Queued(j) BY DEF MyTurn, Queued
<1>3. \A i \in Jobs : i < j => job[i].pc \in TurnsPass BY DEF MyTurn, Jobs
<1>4. \A i \in Jobs : i > j => Queued(i) BY <1>1, <1>2 DEF Turns, TurnsInOrder, TurnsPass, Queued, Jobs
<1>5. \A i \in Jobs : ~Running(i) BY <1>2, <1>3, <1>4 DEF Running, Queued, TurnsPass, Jobs
<1> QED BY <1>1, <1>2, <1>3, <1>4, <1>5 DEF Turns, QueuedIsNew, ClientlessYet, Queued, TurnsPass

\* The order of the turns, when one request moves on in its turn.
LEMMA TurnKeepsOrder ==
    ASSUME SessionsInv, NEW j \in Jobs, MyTurn(j) \/ Running(j),
           \A i \in Jobs \ {j} : job'[i] = job[i]
    PROVE  TurnsInOrder'
<1>1. \A i \in Jobs : i < j => job[i].pc \in TurnsPass
    BY TurnIsAlone DEF SessionsInv, Turns, TurnsInOrder, Running, Queued, TurnsPass
<1>2. \A i \in Jobs : i > j => Queued(i)
    BY TurnIsAlone DEF SessionsInv, Turns, TurnsInOrder, Running, Queued, TurnsPass
<1> QED BY <1>1, <1>2 DEF SessionsInv, Turns, TurnsInOrder, Queued, Jobs

LEMMA LogoutKeepsInv ==
    ASSUME SessionsInv, NEW j \in Jobs, Logout(j) \/ LogoutFails(j)
    PROVE  SessionsInv'
<1>1. TypeOK /\ Turns /\ Whose /\ Holders BY DEF SessionsInv
<1>2. MyTurn(j) BY DEF Logout, LogoutFails
<1>3. /\ registered' = <<>> /\ sids' = {} /\ secrets' = secrets \ ToSet(registered)
      /\ passkeys' \in {passkeys, NoPasskeys} /\ fp' \in {fp, Nobody} /\ (fp' # fp => passkeys' = NoPasskeys)
      /\ \/ stored' = Nobody /\ unsure' = unsure
         \/ stored' = stored /\ LeavesStored
      /\ UNCHANGED <<mode, client, userId, enrol, caches, onItsWay, proton, version, restarts, unsaved, unmarked,
                     reused, unstarted>>
    BY DEF Logout, LogoutFails, ForgetSids, Forgotten, remote, books, lacks
<1>4. /\ job' \in [Jobs -> [pc: Waits, tokens: Tokens \cup {Nobody}, pass: Passes \cup {Nobody}]]
      /\ job'[j].pc \in {"answered", "failed", "logoutClears"} /\ \A i \in Jobs \ {j} : job'[i] = job[i]
    <2>1. job \in [Jobs -> [pc: Waits, tokens: Tokens \cup {Nobody}, pass: Passes \cup {Nobody}]]
        BY <1>1 DEF TypeOK
    <2>2. CASE \E pc \in {"answered", "failed"} : Ends(j, pc) BY <2>1, <2>2 DEF Ends, Waits
    <2>3. CASE job' = [job EXCEPT ![j].pc = "logoutClears"] BY <2>1, <2>3 DEF Waits
    <2> QED BY <2>2, <2>3 DEF Logout, LogoutFails
<1>5. (\A i \in Jobs : ~Running(i)) /\ client[j] = Nobody /\ proton[j].account = Nobody BY <1>2, TurnIsAlone
<1>6. \A i \in Jobs : Running(i)' => job'[i].pc = "logoutClears" BY <1>4, <1>5 DEF Running, TurnsPass
<1>7. \A c \in Jobs : Started(c)' <=> Started(c) BY <1>3, <1>4, <1>5 DEF Started
<1>8. secrets' = {}
    BY <1>3, <1>5 DEF SessionsInv, SecretsDisposed, Running, TurnsPass
<1>9. /\ unsure' \in SUBSET Jobs /\ unsure \subseteq unsure'
      /\ stored' = Nobody \/ (stored' = stored /\ (stored # Nobody => stored.login \in unsure'))
    BY <1>1, <1>3, TokensFields DEF LeavesStored, TypeOK
<1>10. TypeOK'
    <2>1. faults' \in 0..MaxFaults BY <1>1, FaultCounted DEF Logout, LogoutFails, books, TypeOK
    <2>2. passkeys' \in [Keys -> Passes \cup {Nobody}] /\ fp' \in Passes \cup {Nobody}
        BY <1>1, <1>3 DEF TypeOK, NoPasskeys
    <2> QED BY <1>1, <1>3, <1>4, <1>8, <1>9, <2>1, <2>2, EmptyRegistry DEF TypeOK
<1>11. /\ RegisteredStarted' /\ HeaderHasOne' /\ RunningAlone' /\ FpOfLive'
       /\ KeysMatchTokens' /\ StoredIsLive' /\ SecretsDisposed'
    <2>1. \A i \in Jobs : job'[i].pc # "loginClears" BY <1>6 DEF Running, TurnsPass
    <2> QED BY <1>3, <1>8, <2>1, NothingLiveKeeps
<1>12. Turns'
    <2>1. TurnsInOrder' BY <1>2, <1>4, TurnKeepsOrder
    <2>2. QueuedIsNew' /\ ClientlessYet' /\ EnrolInHeader'
        BY <1>1, <1>3, <1>4, <1>5 DEF Turns, QueuedIsNew, ClientlessYet, EnrolInHeader, Queued
    <2> QED BY <1>11, <2>1, <2>2 DEF Turns
<1>13. Whose'
    <2>1. ClientsIssued' /\ StoredIssued'
        BY <1>1, <1>3, <1>9 DEF Whose, ClientsIssued, StoredIssued, Issued, Account
    <2>2. FpOfUser' BY <1>1, <1>3 DEF Whose, FpOfUser
    <2>3. WrapsOfStored' BY <1>1, <1>3, <1>9 DEF Whose, WrapsOfStored, NoPasskeys
    <2>4. UnlockOfStored' /\ ClearingIsFirst'
        BY <1>6 DEF UnlockOfStored, ClearingIsFirst, Unlocks, Running, TurnsPass
    <2> QED BY <1>11, <2>1, <2>2, <2>3, <2>4 DEF Whose
<1>14. Holders'
    <2>1. OnItsWayIssued' /\ ClientsNewest' /\ OneHolder'
        BY <1>1, <1>3, <1>7, <1>9 DEF Holders, OnItsWayIssued, ClientsNewest, OneHolder, Newest, TypeOK
    <2>2. StoredHeld' BY <1>9 DEF StoredHeld
    <2> QED BY <2>1, <2>2 DEF Holders
<1>15. CachesOfAccount' /\ NoTokenSpentTwice' BY <1>3 DEF SessionsInv, CachesOfAccount, NoTokenSpentTwice
<1>16. WrapsMatchFingerprint'
    BY <1>1, <1>3 DEF SessionsInv, WrapsMatchFingerprint, NoPasskeys, TypeOK
<1> QED BY <1>10, <1>11, <1>12, <1>13, <1>14, <1>15, <1>16 DEF SessionsInv

\* A restart loses every session, and tokens that were on their way count as unsure.
LEMMA RestartKeepsInv ==
    ASSUME SessionsInv, Restart
    PROVE  SessionsInv'
<1>1. TypeOK /\ Turns /\ Whose /\ Holders BY DEF SessionsInv
<1>2. /\ registered' = <<>> /\ sids' = {} /\ secrets' = {} /\ enrol' = Nobody /\ onItsWay' = {}
      /\ client' = [j \in Jobs |-> Nobody]
      /\ UNCHANGED <<mode, stored, userId, fp, passkeys, caches, proton, version, faults, unsaved, unmarked,
                     reused, unstarted>>
    BY DEF Restart, rows, remote, lacks
<1>3. /\ job' \in [Jobs -> [pc: Waits, tokens: Tokens \cup {Nobody}, pass: Passes \cup {Nobody}]]
      /\ \A j \in Jobs : IF job[j].pc \in {"queued", "answered"} THEN job'[j] = job[j] ELSE job'[j].pc = "failed"
    BY <1>1 DEF Restart, TypeOK, Waits
<1>4. \A j \in Jobs : ~Running(j)' BY <1>3 DEF Running, TurnsPass
<1>5. \A c \in Jobs : ~Started(c)' BY <1>2 DEF Started
<1>6. unsure' \in SUBSET Jobs /\ unsure \subseteq unsure'
    <2>1. \A c \in onItsWay : client[c].tokens.login \in Jobs
        BY <1>1, ClientFields, TokensFields DEF Holders, OnItsWayIssued, Started, TypeOK
    <2>2. \A j \in Jobs : job[j].pc = "refreshed" => job[j].tokens.login \in Jobs
        BY <1>1, TokensFields DEF Whose, UnlockOfStored, Unlocks
    <2> QED BY <1>1, <2>1, <2>2 DEF Restart, TypeOK
<1>7. TypeOK'
    <2>1. restarts' \in 0..MaxRestarts BY <1>1, SessionsAssumption DEF Restart, TypeOK
    <2>2. client' \in [Jobs -> Clients \cup {Nobody}] BY <1>2
    <2> QED BY <1>1, <1>2, <1>3, <1>6, <2>1, <2>2, EmptyRegistry DEF TypeOK
<1>8. /\ RegisteredStarted' /\ HeaderHasOne' /\ RunningAlone' /\ FpOfLive'
      /\ KeysMatchTokens' /\ StoredIsLive' /\ SecretsDisposed'
    BY <1>2, <1>4, NothingLiveKeeps DEF Running, TurnsPass
<1>9. Turns'
    <2>1. TurnsInOrder' BY <1>1, <1>3 DEF Turns, TurnsInOrder, Queued, TurnsPass
    <2>2. QueuedIsNew' BY <1>1, <1>2, <1>3 DEF Turns, QueuedIsNew, Queued
    <2>3. ClientlessYet' /\ EnrolInHeader' BY <1>2 DEF ClientlessYet, EnrolInHeader
    <2> QED BY <1>8, <2>1, <2>2, <2>3 DEF Turns
<1>10. Whose'
    <2>1. ClientsIssued' /\ StoredIssued' BY <1>1, <1>2 DEF Whose, ClientsIssued, StoredIssued, Issued
    <2>2. FpOfUser' /\ WrapsOfStored' BY <1>1, <1>2 DEF Whose, FpOfUser, WrapsOfStored, NoPasskeys
    <2>3. UnlockOfStored' /\ ClearingIsFirst'
        BY <1>4 DEF UnlockOfStored, ClearingIsFirst, Unlocks, Running, TurnsPass
    <2> QED BY <1>8, <2>1, <2>2, <2>3 DEF Whose
<1>11. StoredHeld'
    <2>1. ASSUME stored # Nobody, stored.login \notin unsure', stored.login \notin unsaved
          PROVE  stored.gen = proton[stored.login].gen
        <3>1. stored.login \notin unsure BY <1>6, <2>1
        <3>2. CASE Held(stored)
            <4>1. PICK c \in Jobs : Started(c) /\ client[c].tokens.login = stored.login BY <3>2 DEF Held
            <4>2. client[c].tokens = stored BY <1>1, <2>1, <3>1, <4>1 DEF Holders, StoredHeld
            <4>3. c \notin onItsWay BY <2>1, <4>1 DEF Restart
            <4> QED BY <1>1, <3>1, <4>1, <4>2, <4>3 DEF Holders, ClientsNewest, Newest
        <3>3. ASSUME NEW j \in Jobs, job[j].pc = "refreshed" PROVE FALSE
            <4>1. job[j].tokens = Renewed(stored) /\ stored \in Tokens
                BY <1>1, <2>1, <3>3 DEF Whose, UnlockOfStored, Unlocks, TypeOK
            <4>2. job[j].tokens.login = stored.login BY <4>1, TokensFields
            <4> QED BY <2>1, <3>3, <4>2 DEF Restart
        <3> QED BY <1>1, <2>1, <3>1, <3>2, <3>3 DEF Holders, StoredHeld
    <2> QED BY <1>2, <1>5, <2>1 DEF StoredHeld
<1>12. Holders' BY <1>2, <1>5, <1>11 DEF Holders, OnItsWayIssued, ClientsNewest, OneHolder
<1>13. CachesOfAccount' /\ WrapsMatchFingerprint' /\ NoTokenSpentTwice'
    BY <1>2 DEF SessionsInv, CachesOfAccount, WrapsMatchFingerprint, NoTokenSpentTwice
<1> QED BY <1>7, <1>8, <1>9, <1>10, <1>12, <1>13 DEF SessionsInv

-----------------------------------------------------------------------------
(* Login.                                                                  *)

\* What Proton's answer to a login adds: a client with the first tokens of the login
\* and the current passphrase of the account, which nothing else refers to yet.
FirstTokens(j) == [login |-> j, gen |-> 0]
LEMMA AcceptedFacts ==
    ASSUME SessionsInv, NEW j \in Jobs, NEW a \in Accounts, Accepted(j, a), unsure \subseteq unsure'
    PROVE  /\ FirstTokens(j) \in Tokens /\ <<a, version[a]>> \in Passes
           /\ MyTurn(j) /\ client[j] = Nobody
           /\ proton' \in [Jobs -> [account: Accounts \cup {Nobody}, gen: 0..MaxRefreshes, ended: BOOLEAN]]
           /\ proton'[j].account = a /\ proton'[j].gen = 0 /\ \A i \in Jobs \ {j} : proton'[i] = proton[i]
           /\ client' \in [Jobs -> Clients \cup {Nobody}]
           /\ client'[j] # Nobody /\ client'[j].tokens = FirstTokens(j)
           /\ client'[j].pass = <<a, version[a]>> /\ client'[j].fp = <<a, version[a]>>
           /\ \A c \in Jobs \ {j} : client'[c] = client[c]
           /\ \A c \in Jobs : client[c] # Nobody => client[c].tokens.login \in Jobs \ {j}
           /\ stored # Nobody => stored.login \in Jobs \ {j}
           /\ FirstTokens(j).login = j /\ FirstTokens(j).gen = 0 /\ FirstTokens(j) # Nobody
           /\ Issued(FirstTokens(j))' /\ Newest(FirstTokens(j))'
           /\ ClientsIssued'
           /\ \A t \in Tokens : (Issued(t) => Issued(t)') /\ (Issued(t) /\ Newest(t) => Newest(t)')
<1> DEFINE p == <<a, version[a]>>
           new == [tokens |-> FirstTokens(j), pass |-> p, fp |-> p]
<1>1. TypeOK /\ Turns /\ Whose BY DEF SessionsInv
<1>2. 0 \in 0..MaxRefreshes BY SessionsAssumption
<1>3. FirstTokens(j) \in Tokens /\ p \in Passes BY <1>1, <1>2 DEF Tokens, FirstTokens, Passes, TypeOK
<1>4. MyTurn(j) /\ client[j] = Nobody /\ proton[j].account = Nobody BY TurnIsAlone DEF Accepted
<1>5. /\ proton' \in [Jobs -> [account: Accounts \cup {Nobody}, gen: 0..MaxRefreshes, ended: BOOLEAN]]
      /\ proton'[j].account = a /\ proton'[j].gen = 0 /\ \A i \in Jobs \ {j} : proton'[i] = proton[i]
    BY <1>1, <1>2 DEF Accepted, TypeOK
<1>6. new \in Clients BY <1>3 DEF Clients
<1>7. client' = [client EXCEPT ![j] = new] BY DEF Accepted, FirstTokens
<1>8. /\ client' \in [Jobs -> Clients \cup {Nobody}] /\ client'[j] = new
      /\ \A c \in Jobs \ {j} : client'[c] = client[c]
    BY <1>1, <1>6, <1>7 DEF TypeOK
<1>9. new # Nobody /\ new.tokens = FirstTokens(j) /\ new.pass = p /\ new.fp = p BY <1>6, ClientFields
<1>10. Nobody \notin Accounts BY SessionsAssumption
<1>11. \A c \in Jobs : client[c] # Nobody => client[c].tokens.login \in Jobs \ {j}
    BY <1>1, <1>4, <1>10, ClientFields, TokensFields DEF Whose, ClientsIssued, Issued, TypeOK
<1>12. stored # Nobody => stored.login \in Jobs \ {j}
    BY <1>1, <1>4, <1>10, TokensFields DEF Whose, StoredIssued, Issued, TypeOK
<1>13. FirstTokens(j).login = j /\ FirstTokens(j).gen = 0 /\ FirstTokens(j) # Nobody
    BY <1>3, NobodyAssumption DEF FirstTokens
<1>14. Issued(FirstTokens(j))' /\ Newest(FirstTokens(j))' BY <1>5, <1>13 DEF Issued, Newest
<1>15. \A t \in Tokens : (Issued(t) => Issued(t)') /\ (Issued(t) /\ Newest(t) => Newest(t)')
    BY <1>4, <1>5, <1>10, TokensFields DEF Issued, Newest
<1> HIDE DEF p, new
<1>16. First(p) = a BY DEF First, p
<1>17. ClientsIssued'
    <2>1. /\ Issued(client[j].tokens)' /\ First(client[j].pass)' = Account(j)'
          /\ First(client[j].fp)' = Account(j)'
        BY <1>5, <1>8, <1>9, <1>13, <1>14, <1>16 DEF Account, Issued
    <2>2. ASSUME NEW c \in Jobs \ {j}, client[c] # Nobody
          PROVE  /\ Issued(client[c].tokens)' /\ First(client[c].pass)' = Account(c)'
                 /\ client'[c].fp # Nobody => First(client[c].fp)' = Account(c)'
        <3>1. client[c].tokens \in Tokens BY <1>1, <2>2, ClientFields DEF TypeOK
        <3> QED BY <1>1, <1>5, <1>8, <1>11, <2>2, <3>1 DEF Whose, ClientsIssued, Account, Issued, First
    <2> QED BY <1>8, <2>1, <2>2 DEF ClientsIssued
<1>18. client'[j] # Nobody /\ client'[j].tokens = FirstTokens(j) /\ client'[j].pass = p /\ client'[j].fp = p
    BY <1>8, <1>9
<1> QED BY <1>3, <1>4, <1>5, <1>8, <1>11, <1>12, <1>13, <1>14, <1>15, <1>17, <1>18 DEF p

\* A login that fails before its session is live leaves its client behind, unused.
\* So does one that goes on to clear the caches.
LEMMA AcceptedKeepsHolders ==
    ASSUME SessionsInv, NEW j \in Jobs, NEW a \in Accounts, Accepted(j, a),
           job'[j].pc \in {"failed", "loginClears"}, \A i \in Jobs \ {j} : job'[i] = job[i],
           UNCHANGED <<onItsWay, unsaved>>, unsure \subseteq unsure', unsure' \in SUBSET Jobs,
           \/ /\ stored' = FirstTokens(j)
           \/ /\ stored' = stored
              /\ stored = Nobody \/ stored.login \in unsure' \/ registered' = registered
    PROVE  Holders'
<1>1. TypeOK /\ Turns /\ Whose /\ Holders BY DEF SessionsInv
<1>2. client[j] = Nobody /\ ~Started(j) /\ ~Started(j)' BY AcceptedFacts DEF Started
<1>3. \A c \in Jobs \ {j} : client'[c] = client[c] /\ (Started(c)' <=> Started(c))
    <2>1. \A c \in Jobs \ {j} : client'[c] = client[c] BY AcceptedFacts
    <2> QED BY <2>1 DEF Started
<1>4. \A c \in Jobs : Started(c)' <=> Started(c) BY <1>2, <1>3
<1>5. \A c \in Jobs : Started(c) => /\ c # j /\ client'[c] = client[c] /\ client[c].tokens.login \in Jobs \ {j}
    BY <1>2, <1>3, AcceptedFacts DEF Started
<1>6. \A i \in Jobs \ {j} : proton'[i] = proton[i] BY AcceptedFacts
<1>7. OnItsWayIssued' BY <1>1, <1>4, <1>5, <1>6 DEF Holders, OnItsWayIssued, TypeOK
<1>8. ClientsNewest' BY <1>1, <1>4, <1>5, <1>6 DEF Holders, ClientsNewest, Newest
<1>9. OneHolder' BY <1>1, <1>4, <1>5 DEF Holders, OneHolder
<1>10. StoredHeld'
    <2>1. CASE stored' = FirstTokens(j)
        <3>1. stored'.login = j /\ stored'.gen = proton'[j].gen BY <2>1, AcceptedFacts
        <3> QED BY <1>4, <1>5, <3>1 DEF StoredHeld
    <2>2. CASE stored' = stored /\ (stored = Nobody \/ stored.login \in unsure') BY <2>2 DEF StoredHeld
    <2>3. CASE stored' = stored /\ registered' = registered /\ stored # Nobody /\ stored.login \notin unsure'
        <3>1. stored.login \in Jobs \ {j} BY <2>3, AcceptedFacts
        <3>2. ASSUME Held(stored) PROVE Held(stored)'
            BY <1>4, <1>5, <2>3, <3>2 DEF Held
        <3>3. \A i \in Jobs : job[i].pc # "refreshed"
            <4>1. MyTurn(j) BY DEF Accepted
            <4> QED BY <4>1, TurnIsAlone DEF Running, TurnsPass
        <3> QED BY <1>1, <1>4, <1>5, <1>6, <2>3, <3>1, <3>2, <3>3 DEF Holders, StoredHeld, IsLive
    <2> QED BY <2>1, <2>2, <2>3
<1> QED BY <1>7, <1>8, <1>9, <1>10 DEF Holders

\* What a login of the same account leaves of the passkeys and their fingerprint.
Drops == /\ passkeys' \in {passkeys, NoPasskeys} /\ fp' \in {fp, Nobody} /\ UNCHANGED unmarked
         /\ fp' # fp => passkeys' = NoPasskeys
LEMMA DroppedFacts ==
    ASSUME SessionsInv, NEW a \in Accounts, ~Other(a), Drops
    PROVE  /\ passkeys' \in [Keys -> Passes \cup {Nobody}] /\ fp' \in Passes \cup {Nobody}
           /\ \A k \in Keys : passkeys'[k] # Nobody =>
                  passkeys'[k][1] = a /\ (passkeys'[k] = fp' \/ passkeys'[k] \in unmarked')
           /\ fp' # Nobody => First(fp') = a /\ userId = a
           /\ passkeys' # NoPasskeys => userId = a /\ passkeys # NoPasskeys
<1>1. TypeOK BY DEF SessionsInv
<1>2. Nobody \notin Accounts /\ userId \in {Nobody, a} BY SessionsAssumption DEF Other
<1>3. \A k \in Keys : passkeys[k] # Nobody =>
          First(passkeys[k]) = userId /\ (passkeys[k] = fp \/ passkeys[k] \in unmarked)
    BY DEF SessionsInv, WrapsMatchFingerprint, First
<1>4. fp # Nobody => First(fp) = userId BY DEF SessionsInv, Whose, FpOfUser
<1>5. \A k \in Keys : passkeys[k] # Nobody => First(passkeys[k]) \in Accounts
    BY <1>1, PassFields DEF TypeOK
<1>6. fp # Nobody => First(fp) \in Accounts BY <1>1, PassFields DEF TypeOK
<1>7. passkeys # NoPasskeys => userId = a
    <2>1. passkeys # NoPasskeys => \E k \in Keys : passkeys[k] # Nobody BY <1>1 DEF NoPasskeys, TypeOK
    <2> QED BY <1>2, <1>3, <1>5, <2>1
<1>8. fp # Nobody => First(fp) = a /\ userId = a BY <1>2, <1>4, <1>6
<1>9. \A k \in Keys : passkeys[k] # Nobody => passkeys[k][1] = a BY <1>2, <1>3, <1>5 DEF First
<1>10. CASE passkeys' = NoPasskeys BY <1>1, <1>8, <1>10 DEF Drops, NoPasskeys, TypeOK
<1>11. CASE passkeys' = passkeys /\ passkeys' # NoPasskeys
    BY <1>1, <1>3, <1>7, <1>8, <1>9, <1>11 DEF Drops, TypeOK
<1> QED BY <1>10, <1>11 DEF Drops

LEMMA LoginSameKeepsInv ==
    ASSUME SessionsInv, NEW j \in Jobs, NEW a \in Accounts, LoginSame(j, a)
    PROVE  SessionsInv'
<1> DEFINE p == <<a, version[a]>>
           kept == IF mode = "header" THEN <<>> ELSE registered
<1>1. TypeOK /\ Turns /\ Whose /\ Holders BY DEF SessionsInv
<1>2. /\ Accepted(j, a) /\ stored' = FirstTokens(j) /\ ~Other(a) /\ DropStale(p) /\ userId' = a
      /\ registered' = Append(kept, j) /\ secrets' = (secrets \ Replaced) \cup {j}
      /\ sids' \subseteq sids \cup {j}
      /\ UNCHANGED <<mode, enrol, caches, onItsWay, version, restarts, faults, unsure, unsaved, unmarked, reused,
                     unstarted>>
    BY DEF LoginSame, Stores, FirstTokens, Register, IssueSid, books
<1>3. /\ job' \in [Jobs -> [pc: Waits, tokens: Tokens \cup {Nobody}, pass: Passes \cup {Nobody}]]
      /\ job'[j].pc = "answered" /\ \A i \in Jobs \ {j} : job'[i] = job[i]
    BY <1>1 DEF LoginSame, Ends, TypeOK, Waits
<1>4. /\ FirstTokens(j) \in Tokens /\ p \in Passes /\ MyTurn(j) /\ client[j] = Nobody
      /\ proton' \in [Jobs -> [account: Accounts \cup {Nobody}, gen: 0..MaxRefreshes, ended: BOOLEAN]]
      /\ proton'[j].account = a /\ proton'[j].gen = 0 /\ \A i \in Jobs \ {j} : proton'[i] = proton[i]
      /\ client' \in [Jobs -> Clients \cup {Nobody}] /\ ClientsIssued'
    BY <1>2, AcceptedFacts
<1>5. /\ client'[j] # Nobody /\ client'[j].tokens = FirstTokens(j) /\ client'[j].pass = p /\ client'[j].fp = p
      /\ \A c \in Jobs \ {j} : client'[c] = client[c]
      /\ \A c \in Jobs : client[c] # Nobody => client[c].tokens.login \in Jobs \ {j}
      /\ FirstTokens(j).login = j /\ FirstTokens(j).gen = 0 /\ FirstTokens(j) # Nobody
      /\ Issued(FirstTokens(j))' /\ Newest(FirstTokens(j))'
    BY <1>2, AcceptedFacts
<1>6. First(p) = a /\ p # Nobody BY <1>4, PassFields DEF First
<1> HIDE DEF p
<1>7. /\ passkeys' \in [Keys -> Passes \cup {Nobody}] /\ fp' \in {Nobody, p}
      /\ \A k \in Keys : passkeys'[k] # Nobody =>
             passkeys'[k][1] = a /\ (passkeys'[k] = fp' \/ passkeys'[k] \in unmarked')
    <2>1. Drops BY <1>2 DEF Drops, DropStale
    <2> QED BY <1>2, <2>1, DroppedFacts DEF DropStale, Stale
<1>8. (\A i \in Jobs : ~Running(i)) /\ ~Started(j) /\ Queued(j) /\ proton[j].account = Nobody
    BY <1>4, TurnIsAlone DEF Started
<1>9. \A i \in Jobs : ~Running(i)' BY <1>3, <1>8 DEF Running, TurnsPass
<1>10. \A c \in Jobs : Started(c)' <=> c = j \/ Started(c) BY <1>3, <1>5 DEF Started
<1>11. /\ registered' \in Seq(Jobs) /\ IsInjective(registered') /\ Live' = j /\ registered' # <<>>
       /\ ToSet(registered') = ToSet(kept) \cup {j} /\ ToSet(kept) \subseteq ToSet(registered)
       /\ mode = "header" => ToSet(kept) = {}
    <2>1. kept \in Seq(Jobs) /\ IsInjective(kept) /\ ToSet(kept) \subseteq ToSet(registered)
        BY <1>1, EmptyRegistry DEF TypeOK
    <2>2. j \notin ToSet(registered) BY <1>1, <1>8 DEF Turns, RegisteredStarted
    <2>3. mode = "header" => ToSet(kept) = {} BY EmptyRegistry
    <2> HIDE DEF kept
    <2> QED BY <1>2, <2>1, <2>2, <2>3, Appended DEF Live
<1>12. \A c \in ToSet(kept) : c \in Jobs /\ c # j /\ Started(c) /\ client[c] # Nobody /\ Account(c) = userId
    BY <1>1, <1>8, <1>11, LiveIsRegistered
    DEF TypeOK, Turns, RegisteredStarted, SessionsInv, KeysMatchTokens, Started
<1> HIDE DEF kept
<1>13. TypeOK'
    <2>1. secrets' \subseteq Jobs BY <1>1, <1>2 DEF TypeOK
    <2>2. sids' \subseteq Jobs BY <1>1, <1>2 DEF TypeOK
    <2>3. fp' \in Passes \cup {Nobody} BY <1>4, <1>7
    <2> QED BY <1>1, <1>2, <1>3, <1>4, <1>7, <1>11, <2>1, <2>2, <2>3 DEF TypeOK
<1>14. Turns'
    <2>1. TurnsInOrder' BY <1>3, <1>4, TurnKeepsOrder
    <2>2. QueuedIsNew' BY <1>1, <1>3, <1>4 DEF Turns, QueuedIsNew, Queued
    <2>3. ClientlessYet' BY <1>1, <1>3, <1>5 DEF Turns, ClientlessYet, TurnsPass
    <2>4. RegisteredStarted' BY <1>10, <1>11, <1>12 DEF RegisteredStarted
    <2>5. HeaderHasOne' BY <1>2, <1>11 DEF HeaderHasOne
    <2>6. EnrolInHeader' /\ RunningAlone' BY <1>1, <1>2, <1>9 DEF Turns, EnrolInHeader, RunningAlone
    <2> QED BY <2>1, <2>2, <2>3, <2>4, <2>5, <2>6 DEF Turns
<1>15. Whose'
    <2>1. StoredIssued' BY <1>2, <1>5 DEF StoredIssued, Issued
    <2>2. FpOfUser' BY <1>2, <1>6, <1>7 DEF FpOfUser, First
    <2>3. FpOfLive' BY <1>2, <1>5, <1>7, <1>11 DEF FpOfLive, Matches
    <2>4. WrapsOfStored' BY <1>2, <1>4, <1>5 DEF WrapsOfStored
    <2>5. UnlockOfStored' /\ ClearingIsFirst'
        BY <1>9 DEF UnlockOfStored, ClearingIsFirst, Unlocks, Running, TurnsPass
    <2> QED BY <1>4, <2>1, <2>2, <2>3, <2>4, <2>5 DEF Whose
<1>16. Holders'
    <2>1. \A c \in Jobs : Started(c) => c # j /\ client'[c] = client[c] /\ client[c].tokens.login \in Jobs \ {j}
        BY <1>5, <1>8 DEF Started
    <2>2. OnItsWayIssued' BY <1>1, <1>2, <1>4, <1>10, <2>1 DEF Holders, OnItsWayIssued, TypeOK
    <2>3. Newest(client[j].tokens)' BY <1>5 DEF Newest
    <2>4. ClientsNewest' BY <1>1, <1>2, <1>4, <1>10, <2>1, <2>3 DEF Holders, ClientsNewest, Newest
    <2>5. OneHolder' BY <1>1, <1>2, <1>5, <1>10, <2>1 DEF Holders, OneHolder
    <2>6. StoredHeld' BY <1>2, <1>5, <1>10, <1>11, <2>1 DEF StoredHeld, Held, IsLive
    <2> QED BY <2>2, <2>4, <2>5, <2>6 DEF Holders
<1>17. KeysMatchTokens'
    <2>1. Account(j)' = a BY <1>4, <1>5 DEF Account
    <2>2. ASSUME NEW c \in ToSet(kept) PROVE Account(c)' = a
        <3>1. Account(c)' = Account(c) BY <1>4, <1>5, <1>12 DEF Account
        <3>2. userId \in {Nobody, a} BY <1>2 DEF Other
        <3>3. Account(c) \in Accounts BY <1>1, <1>12 DEF Whose, ClientsIssued, Issued, Account
        <3> QED BY <1>12, <3>1, <3>2, <3>3, SessionsAssumption
    <2> QED BY <1>2, <1>4, <1>5, <1>11, <2>1, <2>2 DEF KeysMatchTokens
<1>18. StoredIsLive' BY <1>2, <1>5, <1>11 DEF StoredIsLive
<1>19. CachesOfAccount'
    <2>1. userId \in {Nobody, a} BY <1>2 DEF Other
    <2> QED BY <1>1, <1>2, <2>1, SessionsAssumption DEF SessionsInv, CachesOfAccount, TypeOK
<1>20. WrapsMatchFingerprint' BY <1>2, <1>7 DEF WrapsMatchFingerprint
<1>21. SecretsDisposed'
    <2>1. secrets = ToSet(registered)
        BY <1>8 DEF SessionsInv, SecretsDisposed, Running, TurnsPass
    <2>2. secrets \ Replaced = ToSet(kept) BY <2>1, EmptyRegistry DEF Replaced, kept
    <2>3. \A i \in Jobs : job'[i].pc # "loginClears" BY <1>9 DEF Running, TurnsPass
    <2> QED BY <1>2, <1>11, <2>2, <2>3 DEF SecretsDisposed
<1>22. NoTokenSpentTwice' BY <1>2 DEF SessionsInv, NoTokenSpentTwice
<1> QED BY <1>13, <1>14, <1>15, <1>16, <1>17, <1>18, <1>19, <1>20, <1>21, <1>22 DEF SessionsInv

LEMMA LoginSameFailsKeepsInv ==
    ASSUME SessionsInv, NEW j \in Jobs, NEW a \in Accounts, LoginSameFails(j, a)
    PROVE  SessionsInv'
<1>1. TypeOK /\ Turns /\ Whose /\ Holders BY DEF SessionsInv
<1>2. /\ Accepted(j, a) /\ ~Other(a) /\ Fault /\ Drops
      /\ stored' = FirstTokens(j) \/ stored' = stored
      /\ unstarted' = unstarted \cup {j}
      /\ UNCHANGED <<mode, registered, sids, secrets, userId, enrol, caches, onItsWay, version, restarts, unsure, unsaved,
                     unmarked, reused>>
    BY DEF LoginSameFails, Stores, FirstTokens, Drops, DropStale, lacks
<1>3. /\ job' \in [Jobs -> [pc: Waits, tokens: Tokens \cup {Nobody}, pass: Passes \cup {Nobody}]]
      /\ job'[j].pc = "failed" /\ \A i \in Jobs \ {j} : job'[i] = job[i]
    BY <1>1 DEF LoginSameFails, Ends, TypeOK, Waits
<1>4. /\ FirstTokens(j) \in Tokens /\ MyTurn(j) /\ client[j] = Nobody
      /\ proton' \in [Jobs -> [account: Accounts \cup {Nobody}, gen: 0..MaxRefreshes, ended: BOOLEAN]]
      /\ proton'[j].account = a /\ \A i \in Jobs \ {j} : proton'[i] = proton[i]
      /\ client' \in [Jobs -> Clients \cup {Nobody}] /\ ClientsIssued'
    BY <1>2, AcceptedFacts
<1>5. /\ \A c \in Jobs \ {j} : client'[c] = client[c]
      /\ \A c \in Jobs : client[c] # Nobody => client[c].tokens.login \in Jobs \ {j}
      /\ stored # Nobody => stored.login \in Jobs \ {j}
      /\ FirstTokens(j).login = j /\ Issued(FirstTokens(j))' /\ FirstTokens(j) # Nobody
    BY <1>2, AcceptedFacts
<1>7. /\ passkeys' \in [Keys -> Passes \cup {Nobody}] /\ fp' \in Passes \cup {Nobody} /\ fp' \in {Nobody, fp}
      /\ \A k \in Keys : passkeys'[k] # Nobody =>
             passkeys'[k][1] = a /\ (passkeys'[k] = fp' \/ passkeys'[k] \in unmarked')
      /\ fp' # Nobody => First(fp') = a /\ userId = a
      /\ passkeys' # NoPasskeys => userId = a /\ passkeys # NoPasskeys
    BY <1>2, DroppedFacts DEF Drops
<1>8. (\A i \in Jobs : ~Running(i)) /\ ~Started(j) BY <1>4, TurnIsAlone DEF Started
<1>9. \A i \in Jobs : ~Running(i)' BY <1>3, <1>8 DEF Running, TurnsPass
<1>10. \A c \in ToSet(registered) : c \in Jobs \ {j} /\ Started(c) /\ client[c] # Nobody
    BY <1>1, <1>8, LiveIsRegistered DEF TypeOK, Turns, RegisteredStarted, Started
<1>11. userId \in {Nobody, a} BY <1>2 DEF Other
<1>12. TypeOK'
    <2>1. unstarted' \subseteq Jobs BY <1>1, <1>2 DEF TypeOK
    <2> QED BY <1>1, <1>2, <1>3, <1>4, <1>7, <2>1, FaultCounted DEF TypeOK
<1>13. Turns'
    <2>1. TurnsInOrder' BY <1>3, <1>4, TurnKeepsOrder
    <2>2. QueuedIsNew' BY <1>1, <1>3, <1>4 DEF Turns, QueuedIsNew, Queued
    <2>3. ClientlessYet' BY <1>1, <1>3, <1>5 DEF Turns, ClientlessYet, TurnsPass
    <2>4. \A c \in ToSet(registered) : Started(c)' BY <1>3, <1>5, <1>10 DEF Started
    <2>5. RegisteredStarted' /\ HeaderHasOne' /\ EnrolInHeader' /\ RunningAlone'
        BY <1>1, <1>2, <1>9, <2>4 DEF Turns, RegisteredStarted, HeaderHasOne, EnrolInHeader, RunningAlone
    <2> QED BY <2>1, <2>2, <2>3, <2>5 DEF Turns
<1>14. Whose'
    <2>1. StoredIssued' BY <1>1, <1>2, <1>4, <1>5 DEF Whose, StoredIssued, Issued
    <2>2. FpOfUser' BY <1>2, <1>7 DEF FpOfUser
    <2>3. FpOfLive' BY <1>1, <1>2, <1>5, <1>7, <1>10 DEF Whose, FpOfLive, Matches
    <2>4. WrapsOfStored'
        <3>1. CASE stored' = FirstTokens(j) BY <1>2, <1>4, <1>5, <1>7, <3>1 DEF WrapsOfStored
        <3>2. CASE stored' = stored
            BY <1>1, <1>2, <1>4, <1>5, <1>7, <3>2 DEF Whose, WrapsOfStored
        <3> QED BY <1>2, <3>1, <3>2
    <2>5. UnlockOfStored' /\ ClearingIsFirst'
        BY <1>9 DEF UnlockOfStored, ClearingIsFirst, Unlocks, Running, TurnsPass
    <2> QED BY <1>4, <2>1, <2>2, <2>3, <2>4, <2>5 DEF Whose
<1>15. Holders' BY <1>1, <1>2, <1>3, AcceptedKeepsHolders DEF TypeOK
<1>16. KeysMatchTokens'
    <2>1. ASSUME NEW c \in ToSet(registered) PROVE Account(c)' = a /\ userId = a
        <3>1. Account(c)' = Account(c) BY <1>4, <1>5, <1>10 DEF Account
        <3>2. Account(c) \in Accounts /\ Account(c) = userId
            BY <1>1, <1>10 DEF Whose, ClientsIssued, Issued, Account, SessionsInv, KeysMatchTokens
        <3> QED BY <1>11, <3>1, <3>2, SessionsAssumption
    <2>2. CASE stored' = FirstTokens(j) BY <1>2, <1>4, <1>5, <2>1, <2>2 DEF KeysMatchTokens
    <2>3. CASE stored' = stored
        <3>1. ASSUME NEW c \in ToSet(registered) PROVE stored # Nobody /\ proton'[stored.login].account = a
            BY <1>4, <1>5, <1>10, <2>1, <3>1 DEF SessionsInv, KeysMatchTokens
        <3> QED BY <1>2, <2>1, <2>3, <3>1 DEF KeysMatchTokens
    <2> QED BY <1>2, <2>2, <2>3
<1>17. StoredIsLive'
    <2>1. Live' = Live BY <1>2 DEF Live
    <2>2. Live # Nobody => client'[Live] = client[Live] BY <1>1, <1>5, <1>10, LiveIsRegistered DEF TypeOK
    <2> QED BY <1>2, <1>5, <2>1, <2>2 DEF SessionsInv, StoredIsLive
<1>18. CachesOfAccount' /\ NoTokenSpentTwice' BY <1>2 DEF SessionsInv, CachesOfAccount, NoTokenSpentTwice
<1>19. WrapsMatchFingerprint'
    <2>1. \A k \in Keys : passkeys'[k] # Nobody => passkeys' # NoPasskeys BY DEF NoPasskeys
    <2> QED BY <1>2, <1>7, <2>1 DEF WrapsMatchFingerprint
<1>20. SecretsDisposed' BY <1>2, <1>8, <1>9 DEF SessionsInv, SecretsDisposed, Running, TurnsPass
<1> QED BY <1>12, <1>13, <1>14, <1>15, <1>16, <1>17, <1>18, <1>19, <1>20 DEF SessionsInv

\* A login to another account removes what belongs to the old one before anything else.
LEMMA LoginOtherKeepsInv ==
    ASSUME SessionsInv, NEW j \in Jobs, NEW a \in Accounts, LoginOther(j, a)
    PROVE  SessionsInv'
<1>1. TypeOK /\ Turns /\ Whose /\ Holders BY DEF SessionsInv
<1>2. /\ Accepted(j, a) /\ stored' = FirstTokens(j)
      /\ registered' = <<>> /\ sids' = {} /\ secrets' = (secrets \ ToSet(registered)) \cup {j}
      /\ passkeys' = NoPasskeys /\ fp' = Nobody
      /\ UNCHANGED <<mode, userId, enrol, caches, onItsWay, version, restarts, faults, unsure, unsaved, unmarked,
                     reused, unstarted>>
    BY DEF LoginOther, Stores, FirstTokens, GoesFirst, ForgetSids, Forgotten, books
<1>3. /\ job' \in [Jobs -> [pc: Waits, tokens: Tokens \cup {Nobody}, pass: Passes \cup {Nobody}]]
      /\ job'[j].pc = "loginClears" /\ \A i \in Jobs \ {j} : job'[i] = job[i]
    <2>1. job \in [Jobs -> [pc: Waits, tokens: Tokens \cup {Nobody}, pass: Passes \cup {Nobody}]]
        BY <1>1 DEF TypeOK
    <2> QED BY <2>1 DEF LoginOther, Waits
<1>4. /\ FirstTokens(j) \in Tokens /\ MyTurn(j) /\ client[j] = Nobody
      /\ proton' \in [Jobs -> [account: Accounts \cup {Nobody}, gen: 0..MaxRefreshes, ended: BOOLEAN]]
      /\ \A i \in Jobs \ {j} : proton'[i] = proton[i]
      /\ client' \in [Jobs -> Clients \cup {Nobody}] /\ ClientsIssued'
      /\ Issued(FirstTokens(j))' /\ Newest(FirstTokens(j))'
    BY <1>2, AcceptedFacts
<1>5. /\ client'[j] # Nobody /\ client'[j].tokens = FirstTokens(j) /\ client'[j].pass = client'[j].fp
      /\ \A c \in Jobs \ {j} : client'[c] = client[c]
    <2>1. /\ client'[j] # Nobody /\ client'[j].tokens = FirstTokens(j)
          /\ client'[j].pass = <<a, version[a]>> /\ client'[j].fp = <<a, version[a]>>
          /\ \A c \in Jobs \ {j} : client'[c] = client[c]
        BY <1>2, AcceptedFacts
    <2> QED BY <2>1
<1>6. \A i \in Jobs : ~Running(i) BY <1>4, TurnIsAlone
<1>7. \A i \in Jobs : Running(i)' => i = j BY <1>3, <1>6 DEF Running, TurnsPass
<1>8. secrets' = {j} BY <1>2, <1>6 DEF SessionsInv, SecretsDisposed, Running, TurnsPass
<1>9. TypeOK' BY <1>1, <1>2, <1>3, <1>4, <1>8, EmptyRegistry DEF TypeOK, NoPasskeys
<1>10. Turns'
    <2>1. TurnsInOrder' BY <1>3, <1>4, TurnKeepsOrder
    <2>2. QueuedIsNew' BY <1>1, <1>3, <1>4 DEF Turns, QueuedIsNew, Queued
    <2>3. ClientlessYet' BY <1>1, <1>3, <1>5 DEF Turns, ClientlessYet, TurnsPass
    <2>4. RegisteredStarted' /\ HeaderHasOne' /\ EnrolInHeader' /\ RunningAlone'
        BY <1>1, <1>2, EmptyRegistry DEF Turns, RegisteredStarted, HeaderHasOne, EnrolInHeader, RunningAlone
    <2> QED BY <2>1, <2>2, <2>3, <2>4 DEF Turns
<1>11. Whose'
    <2>1. StoredIssued' BY <1>2, <1>4 DEF StoredIssued, Issued
    <2>2. FpOfUser' /\ FpOfLive' /\ WrapsOfStored'
        BY <1>2, EmptyRegistry DEF FpOfUser, FpOfLive, WrapsOfStored, NoPasskeys
    <2>3. UnlockOfStored' BY <1>3, <1>7 DEF UnlockOfStored, Unlocks, Running, TurnsPass
    <2>4. ClearingIsFirst'
        BY <1>2, <1>4, <1>5, <1>7 DEF ClearingIsFirst, Newest, Running, TurnsPass, NoPasskeys
    <2> QED BY <1>4, <2>1, <2>2, <2>3, <2>4 DEF Whose
<1>12. Holders' BY <1>1, <1>2, <1>3, AcceptedKeepsHolders DEF TypeOK
<1>13. KeysMatchTokens' /\ StoredIsLive' BY <1>2, EmptyRegistry DEF KeysMatchTokens, StoredIsLive, Live
<1>14. CachesOfAccount' /\ WrapsMatchFingerprint' /\ NoTokenSpentTwice'
    BY <1>2 DEF SessionsInv, CachesOfAccount, WrapsMatchFingerprint, NoTokenSpentTwice, NoPasskeys
<1>15. SecretsDisposed'
    <2>1. {i \in Jobs : job'[i].pc = "loginClears"} = {j} BY <1>3, <1>7 DEF Running, TurnsPass
    <2> QED BY <1>2, <1>8, <2>1, EmptyRegistry DEF SecretsDisposed
<1> QED BY <1>9, <1>10, <1>11, <1>12, <1>13, <1>14, <1>15 DEF SessionsInv

LEMMA LoginOtherFailsKeepsInv ==
    ASSUME SessionsInv, NEW j \in Jobs, NEW a \in Accounts, LoginOtherFails(j, a)
    PROVE  SessionsInv'
<1>1. TypeOK /\ Turns /\ Whose /\ Holders BY DEF SessionsInv
<1>2. /\ Accepted(j, a) /\ Fault
      /\ registered' = <<>> /\ sids' = {} /\ secrets' = secrets \ ToSet(registered)
      /\ UNCHANGED <<passkeys, fp>> \/ (passkeys' = NoPasskeys /\ fp' \in {fp, Nobody})
      /\ unsure' = unsure \cup (IF stored = Nobody THEN {} ELSE {stored.login})
      /\ UNCHANGED <<mode, stored, userId, enrol, caches, onItsWay, version, restarts, unsaved, unmarked, reused,
                     unstarted>>
    BY DEF LoginOtherFails, LeavesStored, lacks, GoesFirst, ForgetSids, Forgotten
<1>3. /\ job' \in [Jobs -> [pc: Waits, tokens: Tokens \cup {Nobody}, pass: Passes \cup {Nobody}]]
      /\ job'[j].pc = "failed" /\ \A i \in Jobs \ {j} : job'[i] = job[i]
    BY <1>1 DEF LoginOtherFails, Ends, TypeOK, Waits
<1>4. stored # Nobody => stored.login \in Jobs BY <1>1, TokensFields DEF TypeOK
<1>5. unsure' \in SUBSET Jobs /\ unsure \subseteq unsure' /\ (stored # Nobody => stored.login \in unsure')
    BY <1>1, <1>2, <1>4 DEF TypeOK
<1>6. /\ MyTurn(j) /\ client[j] = Nobody
      /\ proton' \in [Jobs -> [account: Accounts \cup {Nobody}, gen: 0..MaxRefreshes, ended: BOOLEAN]]
      /\ \A i \in Jobs \ {j} : proton'[i] = proton[i]
      /\ client' \in [Jobs -> Clients \cup {Nobody}] /\ ClientsIssued'
      /\ \A c \in Jobs \ {j} : client'[c] = client[c]
      /\ stored # Nobody => stored.login \in Jobs \ {j}
    BY <1>2, <1>5, AcceptedFacts
<1>7. \A i \in Jobs : ~Running(i) BY <1>6, TurnIsAlone
<1>8. \A i \in Jobs : ~Running(i)' BY <1>3, <1>7 DEF Running, TurnsPass
<1>9. secrets' = {} BY <1>2, <1>7 DEF SessionsInv, SecretsDisposed, Running, TurnsPass
<1>10. TypeOK'
    <2>1. passkeys' \in [Keys -> Passes \cup {Nobody}] /\ fp' \in Passes \cup {Nobody}
        BY <1>1, <1>2 DEF TypeOK, NoPasskeys
    <2> QED BY <1>1, <1>2, <1>3, <1>5, <1>6, <1>9, <2>1, EmptyRegistry, FaultCounted DEF TypeOK
<1>11. /\ RegisteredStarted' /\ HeaderHasOne' /\ RunningAlone' /\ FpOfLive'
       /\ KeysMatchTokens' /\ StoredIsLive' /\ SecretsDisposed'
    BY <1>2, <1>8, <1>9, NothingLiveKeeps DEF Running, TurnsPass
<1>12. Turns'
    <2>1. TurnsInOrder' BY <1>3, <1>6, TurnKeepsOrder
    <2>2. QueuedIsNew' BY <1>1, <1>3, <1>6 DEF Turns, QueuedIsNew, Queued
    <2>3. ClientlessYet' BY <1>1, <1>3, <1>6 DEF Turns, ClientlessYet, TurnsPass
    <2>4. EnrolInHeader' BY <1>1, <1>2 DEF Turns, EnrolInHeader
    <2> QED BY <1>11, <2>1, <2>2, <2>3, <2>4 DEF Turns
<1>13. Whose'
    <2>1. StoredIssued' BY <1>1, <1>2, <1>6 DEF Whose, StoredIssued, Issued
    <2>2. FpOfUser' BY <1>1, <1>2 DEF Whose, FpOfUser
    <2>3. WrapsOfStored' BY <1>1, <1>2, <1>6 DEF Whose, WrapsOfStored, NoPasskeys
    <2>4. UnlockOfStored' /\ ClearingIsFirst'
        BY <1>8 DEF UnlockOfStored, ClearingIsFirst, Unlocks, Running, TurnsPass
    <2> QED BY <1>6, <1>11, <2>1, <2>2, <2>3, <2>4 DEF Whose
<1>14. Holders' BY <1>1, <1>2, <1>3, <1>5, AcceptedKeepsHolders
<1>15. CachesOfAccount' /\ WrapsMatchFingerprint' /\ NoTokenSpentTwice'
    BY <1>2 DEF SessionsInv, CachesOfAccount, WrapsMatchFingerprint, NoTokenSpentTwice, NoPasskeys
<1> QED BY <1>10, <1>11, <1>12, <1>13, <1>14, <1>15 DEF SessionsInv

-----------------------------------------------------------------------------
(* A session goes live after an await: a login to another account, an unlock. *)

\* While a request runs, no session is live, and no client holds the stored tokens
\* unless an answer was lost.
LEMMA RunningFacts ==
    ASSUME SessionsInv, NEW j \in Jobs, Running(j)
    PROVE  /\ registered = <<>> /\ \A i \in Jobs : Running(i) => i = j
           /\ ~Started(j) /\ j \notin onItsWay
           /\ stored # Nobody /\ stored.login \notin unsure =>
                 \A c \in Jobs : Started(c) => client[c].tokens.login # stored.login
           /\ stored # Nobody /\ job[j].pc # "refreshed" => Newest(stored) \/ stored.login \in unsaved
<1>1. TypeOK /\ Turns /\ Holders BY DEF SessionsInv
<1>2. registered = <<>> BY <1>1 DEF Turns, RunningAlone
<1>3. \A i \in Jobs : Running(i) => i = j
    BY <1>1 DEF Turns, TurnsInOrder, Running, Queued, TurnsPass, Jobs
<1>4. ~Started(j) BY DEF Started, Running, TurnsPass
<1>5. j \notin onItsWay BY <1>1, <1>4 DEF Holders, OnItsWayIssued
<1>6. ASSUME stored # Nobody, stored.login \notin unsure, NEW c \in Jobs, Started(c)
      PROVE  client[c].tokens.login # stored.login
    BY <1>1, <1>2, <1>6, EmptyRegistry DEF Holders, StoredHeld, IsLive
<1>7. ASSUME stored # Nobody, job[j].pc # "refreshed" PROVE Newest(stored) \/ stored.login \in unsaved
    <2>1. \A i \in Jobs : job[i].pc # "refreshed" BY <1>3, <1>7 DEF Running, TurnsPass
    <2> QED BY <1>1, <1>6, <1>7, <2>1 DEF Holders, StoredHeld, Held, Newest
<1> QED BY <1>2, <1>3, <1>4, <1>5, <1>6, <1>7

LEMMA GoesLiveFacts ==
    ASSUME SessionsInv, NEW j \in Jobs, Running(j), Register(j), stored # Nobody, Newest(stored),
           client' \in [Jobs -> Clients \cup {Nobody}], client'[j] # Nobody, client'[j].tokens = stored,
           \A c \in Jobs \ {j} : client'[c] = client[c],
           job'[j].pc = "answered", \A i \in Jobs \ {j} : job'[i] = job[i],
           UNCHANGED <<mode, stored, proton, unsure, unsaved, onItsWay, enrol>>
    PROVE  /\ registered' \in Seq(Jobs) /\ IsInjective(registered') /\ Live' = j
           /\ ToSet(registered') = {j} /\ secrets' \subseteq Jobs
           /\ \A i \in Jobs : ~Running(i)'
           /\ Turns' /\ Holders' /\ SecretsDisposed'
<1>1. TypeOK /\ Turns /\ Holders BY DEF SessionsInv
<1>2. registered = <<>> /\ (\A i \in Jobs : Running(i) => i = j) /\ ~Started(j) /\ j \notin onItsWay
    BY RunningFacts
<1>3. registered' = Append(<<>>, j) /\ secrets' = secrets \cup {j}
    BY <1>2, EmptyRegistry DEF Register, Replaced
<1>4. /\ registered' \in Seq(Jobs) /\ IsInjective(registered') /\ Live' = j /\ ToSet(registered') = {j}
    <2>1. registered \in Seq(Jobs) /\ IsInjective(registered) BY <1>1 DEF TypeOK
    <2>2. ToSet(registered) = {} /\ registered' = Append(registered, j) BY <1>2, <1>3, EmptyRegistry
    <2>3. /\ Append(registered, j) \in Seq(Jobs) /\ Append(registered, j) # <<>>
          /\ ToSet(Append(registered, j)) = ToSet(registered) \cup {j} /\ Last(Append(registered, j)) = j
          /\ j \notin ToSet(registered) => IsInjective(Append(registered, j))
        BY <2>1, Appended
    <2>4. registered' # <<>> /\ Last(registered') = j BY <2>2, <2>3
    <2>5. Live' = j BY <2>4 DEF Live
    <2> QED BY <2>2, <2>3, <2>5
<1>5. \A i \in Jobs : ~Running(i)' BY <1>2 DEF Running, TurnsPass
<1>6. \A c \in Jobs : Started(c)' <=> c = j \/ Started(c) BY DEF Started
<1>7. Turns'
    <2>1. TurnsInOrder' BY TurnKeepsOrder
    <2>2. QueuedIsNew' BY <1>1 DEF Turns, QueuedIsNew, Queued
    <2>3. ClientlessYet' BY <1>1 DEF Turns, ClientlessYet, TurnsPass
    <2>4. RegisteredStarted' /\ HeaderHasOne' /\ EnrolInHeader' /\ RunningAlone'
        BY <1>1, <1>4, <1>5, <1>6 DEF Turns, RegisteredStarted, HeaderHasOne, EnrolInHeader, RunningAlone
    <2> QED BY <2>1, <2>2, <2>3, <2>4 DEF Turns
<1>8. \A c \in Jobs : Started(c) => c # j /\ client'[c] = client[c] BY <1>2
<1>10. stored.login \notin unsure => \A c \in Jobs : Started(c) => client[c].tokens.login # stored.login
    BY RunningFacts
<1>11. Holders'
    <2>1. OnItsWayIssued' BY <1>1, <1>6, <1>8 DEF Holders, OnItsWayIssued, TypeOK
    <2>2. Newest(client[j].tokens)' BY DEF Newest
    <2>3. ClientsNewest' BY <1>1, <1>6, <1>8, <2>2 DEF Holders, ClientsNewest, Newest
    <2>4. OneHolder' BY <1>1, <1>6, <1>8, <1>10 DEF Holders, OneHolder
    <2>5. StoredHeld' BY <1>4, <1>6, <1>8, <1>10 DEF StoredHeld, Held, IsLive
    <2> QED BY <2>1, <2>3, <2>4, <2>5 DEF Holders
<1>12. SecretsDisposed'
    <2>1. secrets \subseteq {j} BY <1>2, EmptyRegistry DEF SessionsInv, SecretsDisposed, Running, TurnsPass
    <2>2. \A i \in Jobs : job'[i].pc # "loginClears" BY <1>5 DEF Running, TurnsPass
    <2> QED BY <1>3, <1>4, <2>1, <2>2 DEF SecretsDisposed
<1>13. secrets' \subseteq Jobs BY <1>1, <1>3 DEF TypeOK
<1> QED BY <1>4, <1>5, <1>7, <1>11, <1>12, <1>13

LEMMA LoginClearedKeepsInv ==
    ASSUME SessionsInv, NEW j \in Jobs, LoginCleared(j)
    PROVE  SessionsInv'
<1>1. TypeOK /\ Turns /\ Whose /\ Holders BY DEF SessionsInv
<1>2. /\ job[j].pc = "loginClears" /\ caches' = {} /\ userId' = Account(j) /\ Register(j)
      /\ sids' \subseteq sids \cup {j}
      /\ UNCHANGED <<mode, client, stored, fp, passkeys, enrol, onItsWay, proton, version, restarts, faults,
                     unsure, unsaved, unmarked, reused, unstarted>>
    BY DEF LoginCleared, IssueSid, remote, books
<1>3. /\ job' \in [Jobs -> [pc: Waits, tokens: Tokens \cup {Nobody}, pass: Passes \cup {Nobody}]]
      /\ job'[j].pc = "answered" /\ \A i \in Jobs \ {j} : job'[i] = job[i]
    BY <1>1 DEF LoginCleared, Ends, TypeOK, Waits
<1>4. /\ client[j] # Nobody /\ client[j].tokens = stored /\ client[j].pass = client[j].fp
      /\ Newest(stored) /\ passkeys = NoPasskeys /\ fp = Nobody
    BY <1>1, <1>2 DEF Whose, ClearingIsFirst
<1>5. /\ client[j] \in Clients /\ stored # Nobody /\ Issued(stored) /\ stored.login \in Jobs
      /\ Account(j) = proton[stored.login].account /\ Account(j) \in Accounts
    BY <1>1, <1>4, ClientFields, TokensFields DEF Whose, ClientsIssued, Issued, Account, TypeOK
<1>6. Running(j) BY <1>2 DEF Running, TurnsPass
<1>7. client' \in [Jobs -> Clients \cup {Nobody}] BY <1>1, <1>2 DEF TypeOK
<1>8. /\ registered' \in Seq(Jobs) /\ IsInjective(registered') /\ Live' = j
      /\ ToSet(registered') = {j} /\ secrets' \subseteq Jobs
      /\ \A i \in Jobs : ~Running(i)'
      /\ Turns' /\ Holders' /\ SecretsDisposed'
    BY <1>2, <1>3, <1>4, <1>5, <1>6, <1>7, GoesLiveFacts
<1>9. TypeOK' BY <1>1, <1>2, <1>3, <1>5, <1>8 DEF TypeOK
<1>10. Whose'
    <2>1. ClientsIssued' /\ StoredIssued' BY <1>1, <1>2 DEF Whose, ClientsIssued, StoredIssued, Issued, Account
    <2>2. FpOfUser' /\ WrapsOfStored' BY <1>2, <1>4 DEF FpOfUser, WrapsOfStored, NoPasskeys
    <2>4. FpOfLive' BY <1>2, <1>4, <1>8 DEF FpOfLive, Matches
    <2>3. UnlockOfStored' /\ ClearingIsFirst'
        BY <1>8 DEF UnlockOfStored, ClearingIsFirst, Unlocks, Running, TurnsPass
    <2> QED BY <2>1, <2>2, <2>3, <2>4 DEF Whose
<1>11. KeysMatchTokens' BY <1>2, <1>5, <1>8 DEF KeysMatchTokens, Account
<1>12. StoredIsLive' BY <1>2, <1>4, <1>8 DEF StoredIsLive
<1>13. CachesOfAccount' /\ WrapsMatchFingerprint' /\ NoTokenSpentTwice'
    BY <1>2, <1>4 DEF SessionsInv, CachesOfAccount, WrapsMatchFingerprint, NoTokenSpentTwice, NoPasskeys
<1> QED BY <1>8, <1>9, <1>10, <1>11, <1>12, <1>13 DEF SessionsInv

-----------------------------------------------------------------------------
(* Unlock.                                                                 *)

LEMMA UnlockSucceedsKeepsInv ==
    ASSUME SessionsInv, NEW j \in Jobs, UnlockSucceeds(j)
    PROVE  SessionsInv'
<1>1. TypeOK /\ Turns /\ Whose /\ Holders BY DEF SessionsInv
<1>2. /\ job[j].pc \in {"opening", "reopening"} /\ OpensKeys(j) /\ Register(j)
      /\ UNCHANGED <<mode, sids, stored, userId, fp, passkeys, enrol, caches, onItsWay, proton, version, restarts,
                     faults, unsure, unsaved, unmarked, reused, unstarted>>
    BY DEF UnlockSucceeds, rows, remote, books
<1>3. /\ job' \in [Jobs -> [pc: Waits, tokens: Tokens \cup {Nobody}, pass: Passes \cup {Nobody}]]
      /\ job'[j].pc = "answered" /\ \A i \in Jobs \ {j} : job'[i] = job[i]
    BY <1>1 DEF UnlockSucceeds, Ends, TypeOK, Waits
<1> DEFINE p == job[j].pass
           new == [tokens |-> stored, pass |-> p, fp |-> fp]
<1>4. /\ mode = "header" /\ stored # Nobody /\ proton[stored.login].account = userId
      /\ p \in Passes /\ First(p) = userId /\ Matches(p, fp) /\ job[j].tokens = stored
    BY <1>1, <1>2 DEF Whose, UnlockOfStored, Unlocks
<1>5. stored \in Tokens /\ fp \in Passes \cup {Nobody} /\ Issued(stored) /\ Newest(stored)
    BY <1>1, <1>4 DEF TypeOK, Whose, StoredIssued, UnlockSucceeds, Accepts, Newest
<1>6. fp # Nobody => First(fp) = userId BY <1>1 DEF Whose, FpOfUser
<1>7. new \in Clients BY <1>4, <1>5 DEF Clients
<1>8. client' = [client EXCEPT ![j] = new] BY <1>4 DEF UnlockSucceeds
<1>9. /\ client' \in [Jobs -> Clients \cup {Nobody}] /\ client'[j] = new
      /\ \A c \in Jobs \ {j} : client'[c] = client[c]
    BY <1>1, <1>7, <1>8 DEF TypeOK
<1>10. new # Nobody /\ new.tokens = stored /\ new.pass = p /\ new.fp = fp BY <1>7, ClientFields
<1> HIDE DEF new, p
<1>11. client'[j] # Nobody /\ client'[j].tokens = stored /\ client'[j].pass = p /\ client'[j].fp = fp
    BY <1>9, <1>10
<1>12. Running(j) BY <1>2 DEF Running, TurnsPass
<1>13. /\ registered' \in Seq(Jobs) /\ IsInjective(registered') /\ Live' = j
       /\ ToSet(registered') = {j} /\ secrets' \subseteq Jobs
       /\ \A i \in Jobs : ~Running(i)'
       /\ Turns' /\ Holders' /\ SecretsDisposed'
    BY <1>2, <1>3, <1>4, <1>5, <1>9, <1>11, <1>12, GoesLiveFacts
<1>14. TypeOK' BY <1>1, <1>2, <1>3, <1>9, <1>13 DEF TypeOK
<1>15. Whose'
    <2>1. ClientsIssued'
        <3>1. /\ Issued(client[j].tokens)' /\ First(client[j].pass)' = Account(j)'
              /\ client'[j].fp # Nobody => First(client[j].fp)' = Account(j)'
            BY <1>2, <1>4, <1>5, <1>6, <1>11 DEF Issued, Account, First
        <3>2. ASSUME NEW c \in Jobs \ {j}, client[c] # Nobody
              PROVE  /\ Issued(client[c].tokens)' /\ First(client[c].pass)' = Account(c)'
                     /\ client'[c].fp # Nobody => First(client[c].fp)' = Account(c)'
            BY <1>1, <1>2, <1>9, <3>2 DEF Whose, ClientsIssued, Issued, Account, First
        <3> QED BY <1>9, <3>1, <3>2 DEF ClientsIssued
    <2>2. StoredIssued' /\ FpOfUser' BY <1>1, <1>2 DEF Whose, StoredIssued, Issued, FpOfUser
    <2>3. FpOfLive' /\ WrapsOfStored' BY <1>2, <1>4, <1>11, <1>13 DEF FpOfLive, Matches, WrapsOfStored
    <2>4. UnlockOfStored' /\ ClearingIsFirst'
        BY <1>13 DEF UnlockOfStored, ClearingIsFirst, Unlocks, Running, TurnsPass
    <2> QED BY <2>1, <2>2, <2>3, <2>4 DEF Whose
<1>16. KeysMatchTokens' BY <1>2, <1>4, <1>11, <1>13 DEF KeysMatchTokens, Account
<1>17. StoredIsLive' BY <1>2, <1>11, <1>13 DEF StoredIsLive
<1>18. CachesOfAccount' /\ WrapsMatchFingerprint' /\ NoTokenSpentTwice'
    BY <1>2 DEF SessionsInv, CachesOfAccount, WrapsMatchFingerprint, NoTokenSpentTwice
<1> QED BY <1>13, <1>14, <1>15, <1>16, <1>17, <1>18 DEF SessionsInv

\* What is in order after a step of an unlock that neither opens a session nor ends it.
LEMMA UnlockGoesOnKeeps ==
    ASSUME SessionsInv, NEW j \in Jobs, MyTurn(j) \/ Running(j), registered = <<>>,
           job'[j].pc \in {"opening", "refreshed", "refused", "reopening"}, \A i \in Jobs \ {j} : job'[i] = job[i],
           UNCHANGED <<mode, client, registered, sids, secrets, userId, fp, passkeys, enrol, caches, onItsWay,
                       version, restarts, faults, unsure, unsaved, unmarked, unstarted>>,
           \A i \in Jobs : proton'[i].account = proton[i].account,
           job[j].pc # "loginClears"
    PROVE  /\ Turns' /\ FpOfUser' /\ FpOfLive' /\ ClearingIsFirst'
           /\ KeysMatchTokens' /\ StoredIsLive' /\ CachesOfAccount' /\ WrapsMatchFingerprint' /\ SecretsDisposed'
           /\ \A c \in Jobs : Started(c)' <=> Started(c)
           /\ \A i \in Jobs \ {j} : ~Running(i) /\ ~Running(i)'
<1>1. TypeOK /\ Turns /\ Whose /\ Holders BY DEF SessionsInv
<1>2. \A i \in Jobs \ {j} : ~Running(i) BY RunningFacts, TurnIsAlone
<1>3. \A i \in Jobs \ {j} : ~Running(i)' BY <1>2 DEF Running
<1>4. client[j] = Nobody
    BY <1>1 DEF Turns, ClientlessYet, MyTurn, Running, TurnsPass
<1>5. \A c \in Jobs : Started(c)' <=> Started(c) BY <1>4 DEF Started
<1>6. Turns'
    <2>1. TurnsInOrder' BY TurnKeepsOrder
    <2>2. QueuedIsNew' BY <1>1 DEF Turns, QueuedIsNew, Queued
    <2>3. ClientlessYet' BY <1>1, <1>4 DEF Turns, ClientlessYet
    <2>4. RegisteredStarted' /\ HeaderHasOne' /\ EnrolInHeader' /\ RunningAlone'
        BY <1>1, EmptyRegistry DEF Turns, RegisteredStarted, HeaderHasOne, EnrolInHeader, RunningAlone
    <2> QED BY <2>1, <2>2, <2>3, <2>4 DEF Turns
<1>7. FpOfUser' /\ FpOfLive' BY <1>1, EmptyRegistry DEF Whose, FpOfUser, FpOfLive
<1>8. ClearingIsFirst' BY <1>3 DEF ClearingIsFirst, Running, TurnsPass
<1>9. KeysMatchTokens' /\ StoredIsLive' BY EmptyRegistry DEF KeysMatchTokens, StoredIsLive, Live
<1>10. CachesOfAccount' /\ WrapsMatchFingerprint' BY DEF SessionsInv, CachesOfAccount, WrapsMatchFingerprint
<1>11. SecretsDisposed'
    <2>1. \A i \in Jobs : job'[i].pc = "loginClears" <=> job[i].pc = "loginClears" OBVIOUS
    <2> QED BY <2>1 DEF SessionsInv, SecretsDisposed
<1> QED BY <1>2, <1>3, <1>5, <1>6, <1>7, <1>8, <1>9, <1>10, <1>11

LEMMA UnlockOpensKeepsInv ==
    ASSUME SessionsInv, NEW j \in Jobs, NEW k \in Keys, UnlockOpens(j, k)
    PROVE  SessionsInv'
<1>1. TypeOK /\ Turns /\ Whose /\ Holders BY DEF SessionsInv
<1>2. /\ mode = "header" /\ MyTurn(j) /\ registered = <<>> /\ stored # Nobody /\ passkeys[k] # Nobody
      /\ UNCHANGED <<mode, client, registered, sids, secrets, stored, userId, fp, passkeys, enrol, caches, onItsWay,
                     proton, version, restarts, faults, unsure, unsaved, unmarked, reused, unstarted>>
    BY <1>1, LiveIsRegistered DEF UnlockOpens, CanUnwrap, memory, rows, remote, books, TypeOK
<1>3. /\ passkeys[k] \in Passes /\ First(passkeys[k]) = userId /\ Matches(passkeys[k], fp)
      /\ stored \in Tokens
    BY <1>1, <1>2 DEF SessionsInv, WrapsMatchFingerprint, Matches, First, TypeOK
<1>4. passkeys # NoPasskeys BY <1>2 DEF NoPasskeys
<1>5. /\ job' \in [Jobs -> [pc: Waits, tokens: Tokens \cup {Nobody}, pass: Passes \cup {Nobody}]]
      /\ job'[j].pc = "opening" /\ job'[j].tokens = stored /\ job'[j].pass = passkeys[k]
      /\ \A i \in Jobs \ {j} : job'[i] = job[i]
    BY <1>1, <1>3 DEF UnlockOpens, TypeOK, Waits
<1>6. Queued(j) BY <1>2, TurnIsAlone
<1>7. /\ Turns' /\ FpOfUser' /\ FpOfLive' /\ ClearingIsFirst'
      /\ KeysMatchTokens' /\ StoredIsLive' /\ CachesOfAccount' /\ WrapsMatchFingerprint' /\ SecretsDisposed'
      /\ \A c \in Jobs : Started(c)' <=> Started(c)
      /\ \A i \in Jobs \ {j} : ~Running(i) /\ ~Running(i)'
    <2>1. job[j].pc # "loginClears" BY <1>6 DEF Queued
    <2> QED BY <1>2, <1>5, <2>1, UnlockGoesOnKeeps
<1>8. TypeOK' BY <1>1, <1>2, <1>5 DEF TypeOK
<1>9. Whose'
    <2>1. ClientsIssued' /\ StoredIssued' BY <1>1, <1>2 DEF Whose, ClientsIssued, StoredIssued, Issued, Account
    <2>2. WrapsOfStored' BY <1>1, <1>2 DEF Whose, WrapsOfStored, NoPasskeys
    <2>3. UnlockOfStored'
        BY <1>1, <1>2, <1>3, <1>4, <1>5, <1>7 DEF Whose, WrapsOfStored, UnlockOfStored, Matches, Unlocks, Running, TurnsPass
    <2> QED BY <1>7, <2>1, <2>2, <2>3 DEF Whose
<1>10. Holders'
    <2>1. \A i \in Jobs : job'[i].pc = "refreshed" <=> job[i].pc = "refreshed" BY <1>5, <1>6 DEF Queued
    <2>2. StoredHeld' BY <1>1, <1>2, <1>7, <2>1 DEF Holders, StoredHeld, Held, IsLive
    <2> QED BY <1>1, <1>2, <1>7, <2>2 DEF Holders, OnItsWayIssued, ClientsNewest, OneHolder, Newest, TypeOK
<1>11. NoTokenSpentTwice' BY <1>2 DEF SessionsInv, NoTokenSpentTwice
<1> QED BY <1>7, <1>8, <1>9, <1>10, <1>11 DEF SessionsInv

LEMMA UnlockRefreshesKeepsInv ==
    ASSUME SessionsInv, NEW j \in Jobs, UnlockRefreshes(j)
    PROVE  SessionsInv'
<1>1. TypeOK /\ Turns /\ Whose /\ Holders BY DEF SessionsInv
<1>2. /\ job[j].pc = "opening"
      /\ UNCHANGED <<mode, client, registered, sids, secrets, stored, userId, fp, passkeys, enrol, caches, onItsWay,
                     version, restarts, faults, unsure, unsaved, unmarked, unstarted>>
    BY DEF UnlockRefreshes, memory, rows, lacks
<1>3. Running(j) /\ registered = <<>> BY <1>2, RunningFacts DEF Running, TurnsPass
<1>4. /\ mode = "header" /\ stored # Nobody /\ proton[stored.login].account = userId
      /\ job[j].pass \in Passes /\ First(job[j].pass) = userId /\ Matches(job[j].pass, fp)
      /\ job[j].tokens = stored
    BY <1>1, <1>2 DEF Whose, UnlockOfStored, Unlocks
<1>5. stored \in Tokens /\ Spend(stored) /\ Issued(stored) /\ (Newest(stored) \/ stored.login \in unsaved)
    BY <1>1, <1>2, <1>3, <1>4, RunningFacts DEF TypeOK, UnlockRefreshes, Whose, StoredIssued
<1>6. /\ stored.login \in Jobs /\ stored.gen \in Nat /\ stored.gen <= MaxRefreshes
      /\ Renewed(stored).login = stored.login /\ Renewed(stored).gen = stored.gen + 1
      /\ stored.gen < MaxRefreshes => Renewed(stored) \in Tokens
    BY <1>5, TokensFields
<1>7. /\ proton' \in [Jobs -> [account: Accounts \cup {Nobody}, gen: 0..MaxRefreshes, ended: BOOLEAN]]
      /\ \A i \in Jobs : proton'[i].account = proton[i].account
      /\ \A i \in Jobs \ {stored.login} : proton'[i].gen = proton[i].gen
      /\ Accepts(stored) => /\ proton'[stored.login].gen = proton[stored.login].gen + 1
                            /\ stored.gen = proton[stored.login].gen /\ stored.gen < MaxRefreshes
      /\ ~Accepts(stored) => proton' = proton
      /\ ~reused => ~reused'
      /\ reused' \in BOOLEAN
    BY <1>1, <1>5, SpendFacts
<1>8. /\ job' \in [Jobs -> [pc: Waits, tokens: Tokens \cup {Nobody}, pass: Passes \cup {Nobody}]]
      /\ job'[j].pass = job[j].pass /\ \A i \in Jobs \ {j} : job'[i] = job[i]
      /\ Accepts(stored) => job'[j].pc = "refreshed" /\ job'[j].tokens = Renewed(stored)
      /\ ~Accepts(stored) => job'[j].pc = "refused" /\ job'[j].tokens = stored
    <2>1. job \in [Jobs -> [pc: Waits, tokens: Tokens \cup {Nobody}, pass: Passes \cup {Nobody}]]
        BY <1>1 DEF TypeOK
    <2>2. CASE Accepts(stored)
        <3>1. job' = [job EXCEPT ![j].pc = "refreshed", ![j].tokens = Renewed(stored)]
            BY <1>4, <2>1, <2>2 DEF UnlockRefreshes
        <3>2. Renewed(stored) \in Tokens BY <1>6, <1>7, <2>2
        <3> QED BY <1>4, <2>1, <2>2, <3>1, <3>2 DEF Waits
    <2>3. CASE ~Accepts(stored)
        <3>1. job' = [job EXCEPT ![j].pc = "refused"] BY <1>4, <2>3 DEF UnlockRefreshes
        <3> QED BY <1>4, <2>1, <2>3, <3>1 DEF Waits
    <2> QED BY <2>2, <2>3
<1>9. /\ Turns' /\ FpOfUser' /\ FpOfLive' /\ ClearingIsFirst'
      /\ KeysMatchTokens' /\ StoredIsLive' /\ CachesOfAccount' /\ WrapsMatchFingerprint' /\ SecretsDisposed'
      /\ \A c \in Jobs : Started(c)' <=> Started(c)
      /\ \A i \in Jobs \ {j} : ~Running(i) /\ ~Running(i)'
    BY <1>2, <1>3, <1>7, <1>8, UnlockGoesOnKeeps
<1>10. TypeOK' BY <1>1, <1>2, <1>7, <1>8 DEF TypeOK
<1>11. \A i \in Jobs : /\ proton[i].gen \in Nat /\ proton'[i].gen \in Nat
                       /\ proton[i].gen <= proton'[i].gen
    BY <1>1, <1>6, <1>7, ProtonFields
<1>12. \A c \in Jobs : client[c] # Nobody => client[c].tokens.login \in Jobs /\ client[c].tokens.gen \in Nat
    BY <1>1, ClientFields, TokensFields DEF TypeOK
<1>13. \A c \in Jobs : Started(c) => stored.login \in unsure \/ client[c].tokens.login # stored.login
    BY <1>3, <1>4, RunningFacts
<1>14. Whose'
    <2>1. ClientsIssued' BY <1>1, <1>2, <1>7, <1>11, <1>12 DEF Whose, ClientsIssued, Issued, Account
    <2>2. StoredIssued' BY <1>2, <1>5, <1>6, <1>7, <1>11 DEF StoredIssued, Issued
    <2>3. WrapsOfStored' BY <1>2, <1>4, <1>6, <1>7 DEF WrapsOfStored
    <2>4. ASSUME Accepts(stored)
          PROVE  job'[j].tokens \in Tokens /\ Issued(job[j].tokens)' /\ Newest(job[j].tokens)'
        BY <1>5, <1>6, <1>7, <1>8, <1>11, <2>4 DEF Issued, Newest
    <2>5. UnlockOfStored'
        <3>1. ASSUME NEW i \in Jobs, Unlocks(i)' PROVE i = j
            BY <1>9, <3>1 DEF Unlocks, Running, TurnsPass
        <3>2. CASE Accepts(stored)
            BY <1>2, <1>4, <1>6, <1>7, <1>8, <2>4, <3>1, <3>2 DEF UnlockOfStored, Renewed, Matches
        <3>3. CASE ~Accepts(stored) BY <1>2, <1>4, <1>7, <1>8, <3>1, <3>3 DEF UnlockOfStored, Matches
        <3> QED BY <3>2, <3>3
    <2> QED BY <1>9, <2>1, <2>2, <2>3, <2>5 DEF Whose
<1>15. Holders'
    <2>1. \A c \in Jobs : Started(c) =>
            /\ client[c].tokens.login \in unsure
               \/ proton'[client[c].tokens.login].gen = proton[client[c].tokens.login].gen
            /\ client[c] # Nobody
        BY <1>7, <1>12, <1>13 DEF Started
    <2>2. OnItsWayIssued' BY <1>1, <1>2, <1>9, <1>11, <1>12, <2>1 DEF Holders, OnItsWayIssued, TypeOK
    <2>3. ClientsNewest' BY <1>1, <1>2, <1>9, <2>1 DEF Holders, ClientsNewest, Newest
    <2>4. OneHolder' BY <1>1, <1>2, <1>9 DEF Holders, OneHolder
    <2>5. StoredHeld'
        <3>1. (\E i \in Jobs : job'[i].pc = "refreshed") \/ stored.login \in unsure
              \/ stored.gen = proton'[stored.login].gen \/ stored.login \in unsaved
            BY <1>5, <1>7, <1>8 DEF Newest
        <3> QED BY <1>2, <1>9, <1>13, <3>1 DEF StoredHeld
    <2> QED BY <2>2, <2>3, <2>4, <2>5 DEF Holders
<1>16. NoTokenSpentTwice' BY <1>7 DEF SessionsInv, NoTokenSpentTwice
<1> QED BY <1>9, <1>10, <1>14, <1>15, <1>16 DEF SessionsInv

LEMMA UnlockSavesKeepsInv ==
    ASSUME SessionsInv, NEW j \in Jobs, UnlockSaves(j)
    PROVE  SessionsInv'
<1> DEFINE t == job[j].tokens
<1>1. TypeOK /\ Turns /\ Whose /\ Holders BY DEF SessionsInv
<1>2. /\ job[j].pc = "refreshed" /\ stored' = t
      /\ UNCHANGED <<mode, client, registered, sids, secrets, userId, fp, passkeys, enrol, caches, onItsWay,
                     proton, version, restarts, faults, unsure, unsaved, unmarked, reused, unstarted>>
    BY DEF UnlockSaves, memory, remote, books
<1>3. Running(j) /\ registered = <<>> BY <1>2, RunningFacts DEF Running, TurnsPass
<1>4. /\ mode = "header" /\ stored # Nobody /\ proton[stored.login].account = userId
      /\ job[j].pass \in Passes /\ First(job[j].pass) = userId /\ Matches(job[j].pass, fp)
      /\ t = Renewed(stored) /\ t \in Tokens
      /\ Issued(t) /\ Newest(t)
    BY <1>1, <1>2 DEF Whose, UnlockOfStored, Unlocks
<1>5. /\ job' \in [Jobs -> [pc: Waits, tokens: Tokens \cup {Nobody}, pass: Passes \cup {Nobody}]]
      /\ job'[j].pc = "reopening" /\ job'[j].tokens = t /\ job'[j].pass = job[j].pass
      /\ \A i \in Jobs \ {j} : job'[i] = job[i]
    <2>1. job \in [Jobs -> [pc: Waits, tokens: Tokens \cup {Nobody}, pass: Passes \cup {Nobody}]]
        BY <1>1 DEF TypeOK
    <2>2. job' = [job EXCEPT ![j].pc = "reopening"] BY DEF UnlockSaves
    <2> QED BY <1>4, <2>1, <2>2 DEF Waits
<1>6. t.login = stored.login /\ t.login \in Jobs /\ t # Nobody BY <1>1, <1>4, TokensFields DEF TypeOK
<1> HIDE DEF t
<1>7. /\ Turns' /\ FpOfUser' /\ FpOfLive' /\ ClearingIsFirst'
      /\ KeysMatchTokens' /\ StoredIsLive' /\ CachesOfAccount' /\ WrapsMatchFingerprint' /\ SecretsDisposed'
      /\ \A c \in Jobs : Started(c)' <=> Started(c)
      /\ \A i \in Jobs \ {j} : ~Running(i) /\ ~Running(i)'
    BY <1>2, <1>3, <1>5, UnlockGoesOnKeeps
<1>8. TypeOK' BY <1>1, <1>2, <1>4, <1>5 DEF TypeOK
<1>9. \A c \in Jobs : Started(c) => t.login \in unsure \/ client[c].tokens.login # t.login
    BY <1>3, <1>4, <1>6, RunningFacts
<1>10. Whose'
    <2>1. ClientsIssued' /\ StoredIssued'
        BY <1>1, <1>2, <1>4 DEF Whose, ClientsIssued, StoredIssued, Issued, Account
    <2>2. WrapsOfStored' BY <1>2, <1>4, <1>6 DEF WrapsOfStored
    <2>3. UnlockOfStored'
        BY <1>2, <1>4, <1>5, <1>6, <1>7 DEF UnlockOfStored, Matches, Unlocks, Running, TurnsPass
    <2> QED BY <1>7, <2>1, <2>2, <2>3 DEF Whose
<1>11. Holders'
    <2>1. StoredHeld' BY <1>2, <1>4, <1>7, <1>9 DEF StoredHeld, Newest
    <2> QED BY <1>1, <1>2, <1>7, <2>1 DEF Holders, OnItsWayIssued, ClientsNewest, OneHolder, Newest, TypeOK
<1>12. NoTokenSpentTwice' BY <1>2 DEF SessionsInv, NoTokenSpentTwice
<1> QED BY <1>7, <1>8, <1>10, <1>11, <1>12 DEF SessionsInv

-----------------------------------------------------------------------------
(* The theorems.                                                           *)

LEMMA InitSessions == Init => SessionsInv
<1> SUFFICES ASSUME Init PROVE SessionsInv OBVIOUS
<1>1. 0 \in 0..MaxRefreshes /\ 0 \in 0..MaxRestarts /\ 0 \in 0..MaxFaults /\ 1 \in 1..MaxVersions
    BY SessionsAssumption
<1>2. TypeOK BY <1>1, EmptyRegistry DEF Init, TypeOK, NoPasskeys, Waits
<1>3. \A j \in Jobs : job[j].pc = "queued" /\ client[j] = Nobody /\ proton[j].account = Nobody BY DEF Init
<1>4. Turns
    BY <1>3, EmptyRegistry DEF Init, Turns, TurnsInOrder, QueuedIsNew, ClientlessYet, RegisteredStarted,
       HeaderHasOne, EnrolInHeader, RunningAlone, Queued
<1>5. Whose
    BY <1>3, EmptyRegistry DEF Init, Whose, ClientsIssued, StoredIssued, FpOfUser, FpOfLive, WrapsOfStored,
       UnlockOfStored, ClearingIsFirst, Unlocks
<1>6. Holders BY <1>3 DEF Init, Holders, OnItsWayIssued, ClientsNewest, OneHolder, StoredHeld, Started
<1>7. KeysMatchTokens /\ StoredIsLive /\ CachesOfAccount /\ WrapsMatchFingerprint /\ SecretsDisposed /\ NoTokenSpentTwice
    BY EmptyRegistry DEF Init, KeysMatchTokens, StoredIsLive, CachesOfAccount, WrapsMatchFingerprint, SecretsDisposed,
       NoTokenSpentTwice, Live, NoPasskeys
<1> QED BY <1>2, <1>4, <1>5, <1>6, <1>7 DEF SessionsInv

LEMMA StepSessions == SessionsInv /\ [Next]_vars => SessionsInv'
<1> SUFFICES ASSUME SessionsInv, [Next]_vars PROVE SessionsInv' OBVIOUS
<1>1. ASSUME NEW j \in Jobs, Request(j) PROVE SessionsInv'
    <2>1. ASSUME NEW a \in Accounts,
                 LoginSame(j, a) \/ LoginSameFails(j, a) \/ LoginOther(j, a) \/ LoginOtherFails(j, a)
          PROVE  SessionsInv'
        BY <2>1, LoginSameKeepsInv, LoginSameFailsKeepsInv, LoginOtherKeepsInv, LoginOtherFailsKeepsInv
    <2>2. CASE NothingDone(j) \/ LogoutCleared(j) \/ LogoutClearFails(j) \/ LoginClearFails(j) \/ UnlockFails(j)
        BY <2>2, FailingStops, StopKeepsInv
    <2>3. CASE (\E k \in Keys : UnlockUnreadable(j, k)) \/ UnlockEnded(j) \/ UnlockLost(j) \/ UnlockStale(j)
        BY <2>3, UnlockStops, StopKeepsInv
    <2>4. CASE LoginCleared(j) BY <2>4, LoginClearedKeepsInv
    <2>5. CASE Logout(j) \/ LogoutFails(j) BY <2>5, LogoutKeepsInv
    <2>6. ASSUME NEW k \in Keys, UnlockOpens(j, k) PROVE SessionsInv' BY <2>6, UnlockOpensKeepsInv
    <2>7. CASE UnlockRefreshes(j) BY <2>7, UnlockRefreshesKeepsInv
    <2>8. CASE UnlockSaves(j) BY <2>8, UnlockSavesKeepsInv
    <2>9. CASE UnlockSucceeds(j) BY <2>9, UnlockSucceedsKeepsInv
    <2> QED BY <1>1, <2>1, <2>2, <2>3, <2>4, <2>5, <2>6, <2>7, <2>8, <2>9 DEF Request
<1>2. ASSUME NEW c \in Jobs, Drive(c) PROVE SessionsInv'
    <2>1. CASE CacheWrite(c) \/ DriveRefreshLost(c) BY <2>1, OthersAreBeside, BesideKeepsInv
    <2>2. CASE DriveRefreshes(c) BY <2>2, DriveRefreshesKeepsInv
    <2>3. CASE DriveRefreshed(c) \/ DriveSaveFails(c) BY <2>3, DriveRefreshedKeepsInv
    <2> QED BY <1>2, <2>1, <2>2, <2>3 DEF Drive
<1>3. CASE Passkeys
    <2>1. CASE EnrolPosts \/ EnrolRefused \/ \E k \in Keys : RemovePasskey(k)
        BY <2>1, OthersAreBeside, BesideKeepsInv
    <2>2. ASSUME NEW k \in Keys, EnrolAdds(k) \/ EnrolUnmarked(k) PROVE SessionsInv' BY <2>2, EnrolKeepsInv
    <2> QED BY <1>3, <2>1, <2>2 DEF Passkeys
<1>4. CASE Environment
    <2>1. CASE LoginExpires \/ \E a \in Accounts : PasswordChanges(a) BY <2>1, OthersAreBeside, BesideKeepsInv
    <2>2. CASE Restart BY <2>2, RestartKeepsInv
    <2> QED BY <1>4, <2>1, <2>2 DEF Environment
<1>5. CASE UNCHANGED vars
    <2>1. Beside
        BY <1>5 DEF vars, Beside, SessionsInv, TypeOK, Turns, EnrolInHeader
    <2> QED BY <2>1, BesideKeepsInv
<1> QED BY <1>1, <1>2, <1>3, <1>4, <1>5 DEF Next

LEMMA SessionsHold == Spec => []SessionsInv
BY InitSessions, StepSessions, PTL DEF Spec

\* Whatever order logins, unlocks and logouts come in, whatever fails or restarts
\* between their awaits, and however long old clients go on: the live keys, the stored
\* tokens and SETTING.protonUserId are of one account (routes-auth.ts).
THEOREM OneAccount == Spec => []KeysMatchTokens
<1>1. SessionsInv => KeysMatchTokens BY DEF SessionsInv
<1> QED BY <1>1, SessionsHold, PTL

\* In header mode the stored session is the live one's newest, unless a later login has
\* stored its tokens and failed to start, or, of the same login, a refresh could not be
\* saved (onSessionRefreshed in routes-auth.ts).
THEOREM RestartResumes == Spec => []StoredIsLive
<1>1. SessionsInv => StoredIsLive BY DEF SessionsInv
<1> QED BY <1>1, SessionsHold, PTL

\* No entry of entities_cache outlives its account, however late its client writes.
THEOREM CachesFollowAccount == Spec => []CachesOfAccount
<1>1. SessionsInv => CachesOfAccount BY DEF SessionsInv
<1> QED BY <1>1, SessionsHold, PTL

\* Every wrap is of the account signed in and holds the passphrase that the recorded
\* fingerprint is of, so that the next password login can tell whether it is stale
\* (dropStalePasskeys); only one whose fingerprint could not be recorded may not.
THEOREM WrapsFollowFingerprint == Spec => []WrapsMatchFingerprint
<1>1. SessionsInv => WrapsMatchFingerprint BY DEF SessionsInv
<1> QED BY <1>1, SessionsHold, PTL

\* A passphrase is held by each live session, and by the one login that is about to start
\* one, and by nothing else.
THEOREM SecretsAreDisposed == Spec => []SecretsDisposed
<1>1. SessionsInv => SecretsDisposed BY DEF SessionsInv
<1> QED BY <1>1, SessionsHold, PTL

\* No client and no unlock presents a refresh token that was spent (Proton would end the
\* session), unless the answer that spent it was lost, the newer tokens could not be saved,
\* or a logout or a change of account failed with the sessions forgotten.
THEOREM TokensSpentOnce == Spec => []NoTokenSpentTwice
<1>1. SessionsInv => NoTokenSpentTwice BY DEF SessionsInv
<1> QED BY <1>1, SessionsHold, PTL
=============================================================================
