------------------------------- MODULE Sessions -------------------------------
(***************************************************************************)
(* Proton sessions on the server: login, unlock and logout, which take     *)
(* turns (http/routes-auth.ts), the registry of live sessions, the stored  *)
(* session, passkeys, and the Drive clients with their tokens and the      *)
(* entities cache they share.                                              *)
(*                                                                         *)
(* A client is named by the request that made it, a Proton login by the    *)
(* login request. A walk or a filing can hold a client for hours after its *)
(* session is gone, so every client made since the last restart may still  *)
(* act. One action is the code between two awaits.                         *)
(***************************************************************************)
EXTENDS Naturals, Sequences, SequencesExt

CONSTANTS
    Accounts,     \* Proton accounts
    Keys,         \* passkeys, by credential id
    Requests,     \* bound: requests to log in, unlock or log out
    MaxRefreshes, \* bound: token refreshes of one Proton login
    MaxVersions,  \* bound: passwords an account has had
    MaxRestarts,  \* bound: restarts of the server
    MaxFaults,    \* bound: storage errors, and answers of Proton that are lost
    Nobody        \* no account, no client, nothing stored

ASSUME SessionsAssumption ==
    /\ Requests \in Nat \ {0} /\ MaxVersions \in Nat \ {0}
    /\ MaxRefreshes \in Nat /\ MaxRestarts \in Nat /\ MaxFaults \in Nat
    /\ Nobody \notin Accounts \cup Keys \cup (1..Requests)

Jobs    == 1..Requests
\* A passphrase, or the fingerprint of the key salt it was derived with.
Passes  == Accounts \X (1..MaxVersions)
\* Access and refresh token: of which login, after how many refreshes.
Tokens  == [login: Jobs, gen: 0..MaxRefreshes]
Clients == [tokens: Tokens, pass: Passes, fp: Passes \cup {Nobody}]
ASSUME NobodyAssumption == Nobody \notin Passes \cup Tokens \cup Clients
\* A request waits for its turn, for clearCaches(), or, an unlock, for Proton.
Waits   == {"queued", "loginClears", "logoutClears", "opening", "refreshed", "refused", "reopening",
            "answered", "failed"}

VARIABLES
    mode,        \* "header" or "cookie" (AUTH_MODE)
    job,         \* the requests, in the order of their turns: what each awaits,
                 \* and the tokens and passphrase an unlock works with
    client,      \* the Drive client each request made, with its secret, or Nobody
    registered,  \* live-session.ts sessions, least recent first
    sids,        \* middleware.ts liveSids
    secrets,     \* clients whose MailboxSecret is not disposed
    stored, userId, fp, passkeys,  \* SessionStore, app_settings, PasskeyStore
    enrol,       \* the live session an enrolment captured before its body arrived
    caches,      \* accounts that have entries in entities_cache
    onItsWay,    \* clients that Proton has issued new tokens, not yet arrived
    proton,      \* external: account, generation and end of each login
    version,     \* external: current password of each account
    restarts, faults,  \* spent budgets
    unsure,      \* history: logins of which a refresh answer was lost, or whose client was
                 \* forgotten while their tokens stayed stored
    unsaved,     \* history: logins whose newest tokens could not be stored
    unmarked,    \* history: passphrases wrapped while their fingerprint could not be recorded
    reused,      \* history: a spent refresh token was presented
    unstarted    \* history: logins whose tokens were stored and whose start failed

memory == <<client, registered, sids, secrets>>
rows   == <<stored, userId, fp, passkeys>>
remote == <<proton, version>>
lacks  == <<unsaved, unmarked>>
books  == <<restarts, faults, unsure, unsaved, unmarked, reused, unstarted>>
vars   == <<mode, job, client, registered, sids, secrets, stored, userId, fp, passkeys, enrol, caches,
            onItsWay, proton, version, restarts, faults, unsure, unsaved, unmarked, reused, unstarted>>

Live       == IF registered = <<>> THEN Nobody ELSE Last(registered)
IsLive(c)  == c \in ToSet(registered)
Account(c) == proton[client[c].tokens.login].account
\* A client is used once its session has gone live, and then for as long as anything holds it.
Started(c) == client[c] # Nobody /\ job[c].pc = "answered"

\* Every variable has its type, and no session is registered twice.
TypeOK ==
    /\ mode \in {"header", "cookie"}
    /\ job \in [Jobs -> [pc: Waits, tokens: Tokens \cup {Nobody}, pass: Passes \cup {Nobody}]]
    /\ client \in [Jobs -> Clients \cup {Nobody}]
    /\ registered \in Seq(Jobs) /\ IsInjective(registered) /\ sids \subseteq Jobs /\ secrets \subseteq Jobs
    /\ stored \in Tokens \cup {Nobody} /\ userId \in Accounts \cup {Nobody}
    /\ fp \in Passes \cup {Nobody} /\ passkeys \in [Keys -> Passes \cup {Nobody}]
    /\ enrol \in Jobs \cup {Nobody} /\ caches \subseteq Accounts /\ onItsWay \subseteq Jobs
    /\ proton \in [Jobs -> [account: Accounts \cup {Nobody}, gen: 0..MaxRefreshes, ended: BOOLEAN]]
    /\ version \in [Accounts -> 1..MaxVersions]
    /\ restarts \in 0..MaxRestarts /\ faults \in 0..MaxFaults
    /\ unsure \subseteq Jobs /\ unsaved \subseteq Jobs /\ unmarked \subseteq Passes
    /\ reused \in BOOLEAN /\ unstarted \subseteq Jobs

NoPasskeys == [k \in Keys |-> Nobody]

\* A new installation.
Init ==
    /\ mode \in {"header", "cookie"}
    /\ job = [j \in Jobs |-> [pc |-> "queued", tokens |-> Nobody, pass |-> Nobody]]
    /\ client = [j \in Jobs |-> Nobody] /\ registered = <<>> /\ sids = {} /\ secrets = {}
    /\ stored = Nobody /\ userId = Nobody /\ fp = Nobody /\ passkeys = NoPasskeys
    /\ enrol = Nobody /\ caches = {} /\ onItsWay = {}
    /\ proton = [j \in Jobs |-> [account |-> Nobody, gen |-> 0, ended |-> FALSE]]
    /\ version = [a \in Accounts |-> 1]
    /\ restarts = 0 /\ faults = 0 /\ unsure = {} /\ unsaved = {} /\ unmarked = {}
    /\ reused = FALSE /\ unstarted = {}

Ends(j, pc) == job' = [job EXCEPT ![j] = [pc |-> pc, tokens |-> Nobody, pass |-> Nobody]]
Fault       == faults < MaxFaults /\ faults' = faults + 1

\* The mutex: a request starts when every earlier one has ended, however it did.
TurnsPass     == {"answered", "failed"}
MyTurn(j)     == job[j].pc = "queued" /\ \A i \in 1..(j - 1) : job[i].pc \in TurnsPass

-----------------------------------------------------------------------------
(* The registry (auth/live-session.ts, http/middleware.ts).                *)

\* registerLiveSession(): header mode has one sid, and disposes the session it
\* replaces; each cookie login has a sid of its own.
SlipReplaced == {}
Replaced == IF mode = "header" THEN ToSet(registered) ELSE {}
Register(j) ==
    /\ registered' = Append(IF mode = "header" THEN <<>> ELSE registered, j)
    /\ secrets' = (secrets \ Replaced) \cup {j}

\* issueSession(): cookie mode, once the session is live.
IssueSid(j) == sids' = IF mode = "cookie" THEN sids \cup {j} ELSE sids

\* forgetAllSessions()
Forgotten == ToSet(registered)
ForgetSids     == sids' = {}

-----------------------------------------------------------------------------
(* Login.                                                                  *)

\* Proton accepted a login to account a. Unless a write fails before, its tokens
\* are stored.
Accepted(j, a) ==
    LET p == <<a, version[a]>>
    IN  /\ MyTurn(j)
        /\ proton' = [proton EXCEPT ![j] = [account |-> a, gen |-> 0, ended |-> FALSE]]
        /\ client' = [client EXCEPT ![j] = [tokens |-> [login |-> j, gen |-> 0], pass |-> p, fp |-> p]]
Stores(j) == stored' = [login |-> j, gen |-> 0]
Other(a) == userId \notin {Nobody, a}

\* dropStalePasskeys()
Stale(p) == fp \notin {Nobody, p}
DropStale(p) ==
    IF Stale(p) THEN passkeys' = NoPasskeys /\ fp' = Nobody ELSE UNCHANGED <<passkeys, fp>>

LoginSame(j, a) ==
    /\ Accepted(j, a) /\ Stores(j) /\ ~Other(a)
    /\ DropStale(<<a, version[a]>>)
    /\ userId' = a /\ Register(j) /\ IssueSid(j) /\ Ends(j, "answered")
    /\ UNCHANGED <<mode, enrol, caches, onItsWay, version, books>>

\* A write fails, of the stale passkeys or before or after the tokens are stored: the
\* session never goes live.
LoginSameFails(j, a) ==
    /\ Accepted(j, a) /\ ~Other(a) /\ Fault
    /\ \/ Stale(<<a, version[a]>>) /\ passkeys' \in {passkeys, NoPasskeys} /\ UNCHANGED <<fp, stored>>
       \/ DropStale(<<a, version[a]>>) /\ (Stores(j) \/ UNCHANGED stored)
    /\ unstarted' = unstarted \cup {j} /\ Ends(j, "failed")
    /\ UNCHANGED <<mode, registered, sids, secrets, userId, enrol, caches, onItsWay, version, restarts,
                   unsure, lacks, reused>>

\* Another account: what belongs to the old one goes first, then clearCaches().
SlipGoesFirst == UNCHANGED registered
GoesFirst     == registered' = <<>>
LoginOther(j, a) ==
    /\ Accepted(j, a) /\ Stores(j) /\ Other(a)
    /\ GoesFirst /\ ForgetSids /\ secrets' = (secrets \ Forgotten) \cup {j}
    /\ passkeys' = NoPasskeys /\ fp' = Nobody
    /\ job' = [job EXCEPT ![j].pc = "loginClears"]
    /\ UNCHANGED <<mode, userId, enrol, caches, onItsWay, version, books>>

\* The sessions are forgotten and their login stays stored: a client of it can no
\* longer save what it refreshes.
LeavesStored == unsure' = unsure \cup (IF stored = Nobody THEN {} ELSE {stored.login})

\* A write fails before the tokens are stored, with some of it gone.
LoginOtherFails(j, a) ==
    /\ Accepted(j, a) /\ Other(a) /\ Fault
    /\ GoesFirst /\ ForgetSids /\ secrets' = secrets \ Forgotten
    /\ \/ UNCHANGED <<passkeys, fp>>
       \/ passkeys' = NoPasskeys /\ fp' \in {fp, Nobody}
    /\ LeavesStored /\ Ends(j, "failed")
    /\ UNCHANGED <<mode, stored, userId, enrol, caches, onItsWay, version, restarts, lacks, reused, unstarted>>

LoginCleared(j) ==
    /\ job[j].pc = "loginClears"
    /\ caches' = {} /\ userId' = Account(j)
    /\ Register(j) /\ IssueSid(j) /\ Ends(j, "answered")
    /\ UNCHANGED <<mode, client, stored, fp, passkeys, enrol, onItsWay, remote, books>>

LoginClearFails(j) ==
    /\ job[j].pc = "loginClears" /\ Fault
    /\ caches' \in {caches, {}}
    /\ secrets' = secrets \ {j} /\ unstarted' = unstarted \cup {j} /\ Ends(j, "failed")
    /\ UNCHANGED <<mode, client, registered, sids, rows, enrol, onItsWay, remote, restarts, unsure, lacks, reused>>

-----------------------------------------------------------------------------
(* Logout: sessions, the stored session and passkeys in one turn; a client *)
(* that was live then clears the caches. A failure there is only logged.   *)

Logout(j) ==
    /\ MyTurn(j)
    /\ registered' = <<>> /\ ForgetSids /\ secrets' = secrets \ Forgotten
    /\ stored' = Nobody /\ passkeys' = NoPasskeys /\ fp' = Nobody
    /\ IF Live = Nobody THEN Ends(j, "answered") ELSE job' = [job EXCEPT ![j].pc = "logoutClears"]
    /\ UNCHANGED <<mode, client, userId, enrol, caches, onItsWay, remote, books>>

\* A write fails with the sessions forgotten: of the stored session, the passkeys,
\* or their fingerprint. What follows it is not done.
LogoutFails(j) ==
    /\ MyTurn(j) /\ Fault
    /\ registered' = <<>> /\ ForgetSids /\ secrets' = secrets \ Forgotten
    /\ \/ LeavesStored /\ UNCHANGED <<stored, passkeys>>
       \/ stored' = Nobody /\ passkeys' \in {passkeys, NoPasskeys} /\ UNCHANGED unsure
    /\ Ends(j, "failed")
    /\ UNCHANGED <<mode, client, userId, fp, enrol, caches, onItsWay, remote, restarts, lacks, reused, unstarted>>

LogoutCleared(j) ==
    /\ job[j].pc = "logoutClears"
    /\ caches' = {} /\ Ends(j, "answered")
    /\ UNCHANGED <<mode, memory, rows, enrol, onItsWay, remote, books>>

LogoutClearFails(j) ==
    /\ job[j].pc = "logoutClears" /\ Fault /\ Ends(j, "answered")
    /\ UNCHANGED <<mode, memory, rows, enrol, caches, onItsWay, remote, restarts, unsure, lacks, reused, unstarted>>

\* A login Proton refuses, or an unlock of a live session, of nothing stored, of
\* an unknown passkey or with a wrong PRF output: nothing changes.
NothingDone(j) ==
    /\ MyTurn(j) /\ Ends(j, "failed")
    /\ UNCHANGED <<mode, memory, rows, enrol, caches, onItsWay, remote, books>>

-----------------------------------------------------------------------------
(* Unlock: a passkey opens the passphrase, which opens the keys again.     *)

CanUnwrap(j, k) ==
    mode = "header" /\ MyTurn(j) /\ Live = Nobody /\ stored # Nobody /\ passkeys[k] # Nobody

\* The outer layer does not open: the row can never open again, and goes.
UnlockUnreadable(j, k) ==
    /\ CanUnwrap(j, k) /\ Fault
    /\ passkeys' = [passkeys EXCEPT ![k] = Nobody] /\ Ends(j, "failed")
    /\ UNCHANGED <<mode, memory, stored, userId, fp, enrol, caches, onItsWay, remote, restarts, unsure,
                   lacks, reused, unstarted>>

UnlockOpens(j, k) ==
    /\ CanUnwrap(j, k)
    /\ job' = [job EXCEPT ![j] = [pc |-> "opening", tokens |-> stored, pass |-> passkeys[k]]]
    /\ UNCHANGED <<mode, memory, rows, enrol, caches, onItsWay, remote, books>>

\* Proton gets a refresh token: the newest of a login that lives is spent for a
\* new one, any other is refused.
Accepts(t) == ~proton[t.login].ended /\ t.gen = proton[t.login].gen
Renewed(t) == [t EXCEPT !.gen = @ + 1]
Spend(t) ==
    /\ Accepts(t) => t.gen < MaxRefreshes
    /\ proton' = IF Accepts(t) THEN [proton EXCEPT ![t.login].gen = @ + 1] ELSE proton
    /\ reused' = (reused \/ (t.gen # proton[t.login].gen /\ t.login \notin unsure \cup unsaved))

\* The access token has expired (401): resume() refreshes once.
UnlockRefreshes(j) ==
    /\ job[j].pc = "opening" /\ Spend(job[j].tokens)
    /\ job' = IF Accepts(job[j].tokens)
              THEN [job EXCEPT ![j].pc = "refreshed", ![j].tokens = Renewed(@)]
              ELSE [job EXCEPT ![j].pc = "refused"]
    /\ UNCHANGED <<mode, memory, rows, enrol, caches, onItsWay, version, restarts, faults, unsure, lacks,
                   unstarted>>

\* onRefreshed saves the new tokens before the retry.
UnlockSaves(j) ==
    /\ job[j].pc = "refreshed"
    /\ stored' = job[j].tokens /\ job' = [job EXCEPT ![j].pc = "reopening"]
    /\ UNCHANGED <<mode, memory, userId, fp, passkeys, enrol, caches, onItsWay, remote, books>>

\* SessionEndedError: the stored session is forgotten, unless that write fails; the
\* passkeys stay.
UnlockEnded(j) ==
    /\ job[j].pc = "refused"
    /\ \/ stored' = Nobody /\ UNCHANGED faults
       \/ Fault /\ UNCHANGED stored
    /\ Ends(j, "failed")
    /\ UNCHANGED <<mode, memory, userId, fp, passkeys, enrol, caches, onItsWay, remote, restarts, unsure, lacks,
                   reused, unstarted>>

\* No answer, an outage, or a session that could not start: nothing changes.
UnlockFails(j) ==
    /\ job[j].pc \in {"opening", "reopening"} /\ Ends(j, "failed")
    /\ UNCHANGED <<mode, memory, rows, enrol, caches, onItsWay, remote, books>>

\* Proton's new tokens were lost on the way, or could not be saved.
UnlockLost(j) ==
    /\ job[j].pc = "refreshed" /\ Fault
    /\ unsure' = unsure \cup {job[j].tokens.login} /\ Ends(j, "failed")
    /\ UNCHANGED <<mode, memory, rows, enrol, caches, onItsWay, remote, restarts, lacks, reused, unstarted>>

OpensKeys(j) ==
    LET a == proton[job[j].tokens.login].account IN job[j].pass = <<a, version[a]>>

\* The keys are open: the session goes live with the recorded fingerprint.
UnlockSucceeds(j) ==
    /\ job[j].pc \in {"opening", "reopening"} /\ Accepts(job[j].tokens) /\ OpensKeys(j)
    /\ client' = [client EXCEPT ![j] = [tokens |-> job[j].tokens, pass |-> job[j].pass, fp |-> fp]]
    /\ Register(j) /\ Ends(j, "answered")
    /\ UNCHANGED <<mode, sids, rows, enrol, caches, onItsWay, remote, books>>

\* KeyDecryptError user_key: the password changed, every wrap is stale. (If they
\* cannot be removed nothing changes, as in UnlockFails.)
UnlockStale(j) ==
    /\ job[j].pc \in {"opening", "reopening"} /\ Accepts(job[j].tokens) /\ ~OpensKeys(j)
    /\ passkeys' = NoPasskeys /\ Ends(j, "failed")
    /\ \/ fp' = Nobody /\ UNCHANGED faults
       \/ Fault /\ UNCHANGED fp
    /\ UNCHANGED <<mode, memory, stored, userId, enrol, caches, onItsWay, remote, restarts, unsure, lacks,
                   reused, unstarted>>

-----------------------------------------------------------------------------
(* Passkeys (http/routes-passkeys.ts); header mode only.                   *)

\* The headers are in, the body is not: the live session is captured.
EnrolPosts ==
    /\ mode = "header" /\ Live # Nobody /\ enrol = Nobody /\ enrol' = Live
    /\ UNCHANGED <<mode, job, memory, rows, caches, onItsWay, remote, books>>

\* The captured session must still be the live one. Its secret is used, and the
\* fingerprint recorded. (use() runs add() at once, and what follows in the same turn.)
SlipMayUse(c) == c # Nobody
MayUse(c) == c # Nobody /\ c = Live /\ c \in secrets
EnrolAdds(k) ==
    /\ MayUse(enrol) /\ passkeys[k] = Nobody
    /\ passkeys' = [passkeys EXCEPT ![k] = client[enrol].pass]
    /\ IF client[enrol].fp = Nobody THEN UNCHANGED <<fp, unmarked>>
       ELSE fp' = client[enrol].fp /\ unmarked' = unmarked \ {fp'}
    /\ enrol' = Nobody
    /\ UNCHANGED <<mode, job, memory, stored, userId, caches, onItsWay, remote, restarts, faults, unsure, unsaved,
                   reused, unstarted>>

\* The wrap is written and its fingerprint is not: the write fails, or the process
\* dies before it (then Restart follows).
EnrolUnmarked(k) ==
    /\ MayUse(enrol) /\ passkeys[k] = Nobody /\ client[enrol].fp # Nobody /\ Fault
    /\ passkeys' = [passkeys EXCEPT ![k] = client[enrol].pass]
    /\ unmarked' = unmarked \cup ({client[enrol].pass} \ {fp})
    /\ enrol' = Nobody
    /\ UNCHANGED <<mode, job, memory, stored, userId, fp, caches, onItsWay, remote, restarts, unsure, unsaved,
                   reused, unstarted>>

\* The session is gone, the salt is not pending (it expired, or was used), the
\* passkey is known, or the body is invalid.
EnrolRefused ==
    /\ enrol # Nobody /\ enrol' = Nobody
    /\ UNCHANGED <<mode, job, memory, rows, caches, onItsWay, remote, books>>

RemovePasskey(k) ==
    /\ mode = "header" /\ passkeys[k] # Nobody /\ passkeys' = [passkeys EXCEPT ![k] = Nobody]
    /\ UNCHANGED <<mode, job, memory, stored, userId, fp, enrol, caches, onItsWay, remote, books>>

-----------------------------------------------------------------------------
(* Drive clients (drive/).                                                 *)

\* entities-cache.ts: a client whose session is not live neither reads nor writes.
SlipMayWrite(c) == Started(c)
MayWrite(c) == Started(c) /\ IsLive(c)
CacheWrite(c) ==
    /\ MayWrite(c) /\ caches' = caches \cup {Account(c)}
    /\ UNCHANGED <<mode, job, memory, rows, enrol, onItsWay, remote, books>>

\* A request of the client got a 401, and its refresh token reaches Proton. One
\* refresh is in flight per client: other requests wait for it.
SlipMayRefresh(c) == Started(c)
MayRefresh(c) == Started(c) /\ c \notin onItsWay
DriveRefreshes(c) ==
    /\ MayRefresh(c) /\ Spend(client[c].tokens)
    /\ onItsWay' = IF Accepts(client[c].tokens) THEN onItsWay \cup {c} ELSE onItsWay
    /\ UNCHANGED <<mode, job, memory, rows, enrol, caches, version, restarts, faults, unsure, lacks, unstarted>>

\* onSessionRefreshed: only the client of a live session speaks for the stored one.
SlipSpeaksForStored(c) == TRUE
SpeaksForStored(c) == IsLive(c)
Arrives(c) ==
    /\ c \in onItsWay /\ onItsWay' = onItsWay \ {c}
    /\ client' = [client EXCEPT ![c].tokens = Renewed(@)]
DriveRefreshed(c) ==
    /\ Arrives(c)
    /\ IF SpeaksForStored(c)
       THEN stored' = Renewed(client[c].tokens) /\ unsaved' = unsaved \ {stored'.login}
       ELSE UNCHANGED <<stored, unsaved>>
    /\ UNCHANGED <<mode, job, registered, sids, secrets, userId, fp, passkeys, enrol, caches, remote, restarts,
                   faults, unsure, unmarked, reused, unstarted>>

\* The client has its new tokens and store.save() throws: the stored ones are spent.
DriveSaveFails(c) ==
    /\ Arrives(c) /\ SpeaksForStored(c) /\ Fault
    /\ unsaved' = unsaved \cup {client[c].tokens.login}
    /\ UNCHANGED <<mode, job, registered, sids, secrets, rows, enrol, caches, remote, restarts, unsure, unmarked,
                   reused, unstarted>>

\* The answer is lost: the request keeps its 401, the client its spent token.
DriveRefreshLost(c) ==
    /\ c \in onItsWay /\ onItsWay' = onItsWay \ {c} /\ Fault
    /\ unsure' = unsure \cup {client[c].tokens.login}
    /\ UNCHANGED <<mode, job, memory, rows, enrol, caches, remote, restarts, lacks, reused, unstarted>>

-----------------------------------------------------------------------------
(* Proton, and the server process.                                         *)

\* Bound: what only a later unlock or login could tell happens while one may follow.
MayFollow == \E j \in Jobs : job[j].pc \notin TurnsPass

\* Proton ends the login the stored session is of.
LoginExpires ==
    /\ MayFollow /\ stored # Nobody /\ ~proton[stored.login].ended
    /\ proton' = [proton EXCEPT ![stored.login].ended = TRUE]
    /\ UNCHANGED <<mode, job, memory, rows, enrol, caches, onItsWay, version, books>>

\* Bound: the password of the account signed in.
PasswordChanges(a) ==
    /\ MayFollow /\ a = userId /\ version[a] < MaxVersions /\ version' = [version EXCEPT ![a] = @ + 1]
    /\ UNCHANGED <<mode, job, memory, rows, enrol, caches, onItsWay, proton, books>>

\* Memory is lost, and tokens Proton has issued may never have arrived.
Restart ==
    /\ MayFollow /\ restarts < MaxRestarts /\ restarts' = restarts + 1
    /\ job' = [j \in Jobs |-> IF job[j].pc \in {"queued", "answered"} THEN job[j]
                              ELSE [pc |-> "failed", tokens |-> Nobody, pass |-> Nobody]]
    /\ unsure' = unsure \cup {client[c].tokens.login : c \in onItsWay}
                        \cup {job[j].tokens.login : j \in {i \in Jobs : job[i].pc = "refreshed"}}
    /\ client' = [j \in Jobs |-> Nobody] /\ registered' = <<>> /\ sids' = {} /\ secrets' = {}
    /\ enrol' = Nobody /\ onItsWay' = {}
    /\ UNCHANGED <<mode, rows, caches, remote, faults, lacks, reused, unstarted>>

Request(j) ==
    \/ \E a \in Accounts : LoginSame(j, a) \/ LoginSameFails(j, a) \/ LoginOther(j, a) \/ LoginOtherFails(j, a)
    \/ LoginCleared(j) \/ LoginClearFails(j)
    \/ Logout(j) \/ LogoutFails(j) \/ LogoutCleared(j) \/ LogoutClearFails(j) \/ NothingDone(j)
    \/ \E k \in Keys : UnlockUnreadable(j, k) \/ UnlockOpens(j, k)
    \/ UnlockRefreshes(j) \/ UnlockSaves(j) \/ UnlockEnded(j) \/ UnlockFails(j) \/ UnlockLost(j)
    \/ UnlockSucceeds(j) \/ UnlockStale(j)
Passkeys == EnrolPosts \/ EnrolRefused \/ \E k \in Keys : EnrolAdds(k) \/ EnrolUnmarked(k) \/ RemovePasskey(k)
Drive(c) == CacheWrite(c) \/ DriveRefreshes(c) \/ DriveRefreshed(c) \/ DriveSaveFails(c) \/ DriveRefreshLost(c)
Environment == LoginExpires \/ (\E a \in Accounts : PasswordChanges(a)) \/ Restart
Next == (\E j \in Jobs : Request(j) \/ Drive(j)) \/ Passkeys \/ Environment

Spec == Init /\ [][Next]_vars

-----------------------------------------------------------------------------
\* One account's keys are never live beside another account's tokens, and the
\* account of a live session is the one the next login is compared with
\* (routes-auth.ts 188-215).
KeysMatchTokens ==
    \A c \in ToSet(registered) :
        /\ stored # Nobody /\ proton[stored.login].account = Account(c)
        /\ userId = Account(c)

\* In header mode the stored session is the live one's newest: a restart resumes
\* from there. No old client overwrites it, no refresh is kept from it
\* (routes-auth.ts 115-134). If a later login's start failed, the older session
\* stays live beside the newer tokens; if a save failed, the stored tokens are older
\* ones of the same login until its next refresh.
StoredIsLive ==
    mode = "header" /\ Live # Nobody =>
        LET t == client[Live].tokens
        IN  \/ stored = t
            \/ stored.login \in unstarted
            \/ stored.login = t.login /\ t.login \in unsaved

\* The entities cache is of the account the next login is compared with, so a
\* session never reads another account's entries (entities-cache.ts 31-36).
CachesOfAccount == caches \subseteq {userId}

\* Every wrap is of the account signed in and holds the passphrase of the recorded
\* fingerprint: a login can tell that they are stale (routes-auth.ts 152-163,
\* routes-passkeys.ts 73-75). Only a wrap whose fingerprint could not be recorded
\* (routes-passkeys.ts 93, 101) escapes that, until an enrolment records it.
WrapsMatchFingerprint ==
    \A k \in Keys : passkeys[k] # Nobody =>
        passkeys[k][1] = userId /\ (passkeys[k] = fp \/ passkeys[k] \in unmarked)

\* Exactly a live session, or a login on its way to one, holds a passphrase: none is
\* left behind, and none is disposed while it may be used (live-session.ts 45-47,
\* routes-auth.ts 177-178).
SecretsDisposed ==
    secrets = ToSet(registered) \cup {j \in Jobs : job[j].pc = "loginClears"}

\* No refresh token is presented twice, unless Proton's answer was lost, the newer
\* tokens could not be saved, or a logout or a change of account failed after the
\* sessions were forgotten (routes-auth.ts 79-80, http-client.ts 48).
NoTokenSpentTwice == ~reused

===============================================================================
