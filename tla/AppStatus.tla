------------------------------ MODULE AppStatus ------------------------------
(***************************************************************************)
(* What the app knows of its sign-in and of Proton (ui/App.tsx): the reads *)
(* of GET /api/auth/status, the answers that bring a status with them, the *)
(* screens that follow it (ui/LoginScreen.tsx, ui/inbox/LockedBanner.tsx)  *)
(* and the watch that notices a server whose state changed on its own      *)
(* (ui/status-watch.ts), against a server that other browsers, its own     *)
(* restarts, the proxy and Proton change at any moment.                    *)
(*                                                                         *)
(* A request is sent, answered by the server, and its answer is taken, in  *)
(* three steps. Status, route and what they mount change in one step.      *)
(***************************************************************************)
EXTENDS Naturals, FiniteSets

CONSTANTS
    Passkeys,      \* passkeys that can be enrolled
    MaxEvents,     \* bound: what the user and the world do: taps, changes of the server
                   \* elsewhere, lost answers, polls heard, reloads, in any combination
    MaxGen,        \* bound: status reads, and statuses set from answers
    MaxFetches,    \* bound: fetches of salts by one banner
    Modes,         \* bound: AUTH_MODE of the server, header or not
    None, Unknown

ASSUME AppStatusAssumption ==
    /\ MaxEvents \in Nat /\ MaxGen \in Nat /\ MaxFetches \in Nat
    /\ IsFiniteSet(Passkeys) /\ Modes \subseteq BOOLEAN /\ Unknown # None /\ Unknown \notin BOOLEAN

Protons  == {"live", "locked", "none"}
Statuses == [proton : Protons, passkeys : 0..Cardinality(Passkeys), unlockAvailable : BOOLEAN \cup {Unknown}]
Taps     == 1..MaxEvents

VARIABLES
    header,     \* the server's mode: a proxy signs browsers in, or its own cookie
    proton, keys, door, waits,  \* the server: Proton's state, the passkeys, whether it takes this browser in, and whether documents wait for a login
    version,    \* changes of proton, keys and door, counted
    status, route, loaded, unreachable, expired,  \* state of App
    gen,        \* statusGeneration
    reads,      \* readStatus() and refreshStatus() in flight
    watch,      \* the state of watchStatus(), None while it is off
    banner,     \* the state of LockedBanner, None while it is not shown
    fetches,    \* prepare() of that banner in flight
    logins, logouts, unlocks,  \* the other requests in flight
    events,     \* what the user and the world have done, counted
    shown       \* history: the version of the server that status shows

server  == <<header, proton, keys, door, waits, version>>
app     == <<status, route, loaded, unreachable, expired, shown>>
panel   == <<banner, fetches, unlocks>>
sent    == <<logins, logouts>>
vars    == <<server, app, gen, reads, watch, panel, sent, events>>

NewWatch == [inflight |-> None, recent |-> FALSE, held |-> FALSE, awaiting |-> None, failing |-> FALSE]
\* The requests in flight, with their answers, and what the banner has of them.
Answered == [ok : BOOLEAN, status : Statuses \cup {None}, version : Nat]
Reads    == [mine : Nat, kind : {"first", "refresh", "again"}, answer : Answered \cup {None}]
SaltSets == [keys : SUBSET Passkeys, version : Nat]
Fetches  == [generation : Nat, answer : SaltSets \cup {None}]
Heard    == [ok : BOOLEAN, version : Nat]
Logins   == [tap : Nat, answer : Heard \cup {None}]
Logouts  == [tap : Nat, again : BOOLEAN, answer : Heard \cup {None}]
Codes    == {"ok", "retry", "not_authenticated", "proton_login_required", "no_passkeys", "passkeys_stale",
             "passkey_unreadable", "unknown_passkey"}
Opened   == [code : Codes, status : Statuses \cup {None}, version : Nat]
Unlocks  == [tap : Nat, here : BOOLEAN, salts : SaltSets \cup {None}, answer : Opened \cup {None}]
Banners  == [generation : Nat, prepared : SaltSets \cup {None}, preparing : BOOLEAN, busy : BOOLEAN, over : BOOLEAN,
             passkeys : Nat, refusedAt : Nat]
Watched  == [inflight : Nat \cup {None}, recent : BOOLEAN, held : BOOLEAN, awaiting : BOOLEAN \cup {None}, failing : BOOLEAN]
ASSUME NoneAssumption == None \notin Statuses \cup Answered \cup SaltSets \cup Heard \cup Opened \cup Banners \cup Watched

\* Every variable has its type.
TypeOK ==
    /\ header \in Modes /\ proton \in Protons /\ keys \subseteq Passkeys /\ door \in BOOLEAN /\ waits \in BOOLEAN
    /\ version \in Nat /\ shown \in Nat
    /\ status \in Statuses \cup {None} /\ route \in {"inbox", "settings", "proton-login"}
    /\ loaded \in BOOLEAN /\ unreachable \in BOOLEAN /\ expired \in BOOLEAN
    /\ gen \in Nat /\ reads \subseteq Reads /\ watch \in Watched \cup {None}
    /\ banner \in Banners \cup {None} /\ fetches \subseteq Fetches /\ unlocks \subseteq Unlocks
    /\ logins \subseteq Logins /\ logouts \subseteq Logouts /\ events \in Nat

\* Whether the app counts as signed in: email of App.
Email(s)  == s # None /\ s.proton # "none"
Locked(s, r) == Email(s) /\ s.proton = "locked" /\ r = "inbox"
Ready     == loaded /\ ~unreachable /\ ~expired
Event     == events < MaxEvents /\ events' = events + 1

\* GET /status: none for a browser the server does not take in (401).
StatusNow == IF door THEN [proton |-> proton, passkeys |-> Cardinality(keys), unlockAvailable |-> header] ELSE None

\* The page has been opened: the first read is on its way.
FirstRead(n) == {[mine |-> n, kind |-> "first", answer |-> None]}
Init ==
    /\ header \in Modes /\ door \in BOOLEAN /\ waits = FALSE /\ version = 0
    /\ proton \in {"live", "locked"} /\ keys \in SUBSET Passkeys
    /\ ~header => keys = {} /\ (door => proton = "live")
    /\ status = None /\ route = "inbox" /\ loaded = FALSE /\ unreachable = FALSE /\ expired = FALSE /\ shown = 0
    /\ watch = None /\ banner = None /\ fetches = {} /\ unlocks = {} /\ logins = {} /\ logouts = {}
    /\ gen = 1 /\ reads = FirstRead(1)
    /\ events = 0

-----------------------------------------------------------------------------
(* The server changes.                                                     *)

\* What waited for a login is resumed when Proton goes live.
Becomes(p, ks, d) ==
    /\ proton' = p /\ keys' = ks /\ door' = d /\ waits' = (waits /\ p # "live")
    /\ version' = version + 1
Change(p, ks, d) ==
    /\ <<p, ks, d>> # <<proton, keys, door>>
    /\ Event
    /\ Becomes(p, ks, d) /\ UNCHANGED <<header, app, gen, reads, watch, panel, sent>>

\* A restart keeps the tokens and loses the keys, and the sessions of cookie mode.
Restart           == Change(IF proton = "live" THEN "locked" ELSE proton, keys, door /\ header)
ProxySignInEnds   == header /\ Change(proton, keys, FALSE)
ProxySignIn       == header /\ Change(proton, keys, TRUE)
SignedInElsewhere == header /\ \E ks \in {keys, {}} : Change("live", ks, door)
SignedOutElsewhere == IF header THEN Change("none", {}, door) ELSE Change("none", {}, FALSE)
ProtonEnds        == header /\ proton = "locked" /\ Change("none", keys, door)
KeyAddedElsewhere(k)   == header /\ proton = "live" /\ Change(proton, keys \cup {k}, door)
KeyRemovedElsewhere(k) == header /\ Change(proton, keys \ {k}, door)

\* The filing of a document finds no session that can reach Drive.
DocumentWaits ==
    /\ proton # "live" /\ ~waits /\ waits' = TRUE /\ Event
    /\ UNCHANGED <<header, proton, keys, door, version, app, gen, reads, watch, panel, sent>>

-----------------------------------------------------------------------------
(* Status, route, and what is mounted with them.                           *)

StartRead(kind) == /\ gen < MaxGen /\ gen' = gen + 1
                   /\ reads' = reads \cup {[mine |-> gen + 1, kind |-> kind, answer |-> None]}

\* The watch runs while the app is signed in.
Watching(s, w) == watch' = IF ~Email(s) THEN None ELSE IF Email(status) THEN w ELSE NewWatch

\* The banner fetches salts when it comes, and when the number of passkeys changes.
NewBanner(n) == [generation |-> IF n > 0 THEN 1 ELSE 0, prepared |-> None, preparing |-> n > 0, busy |-> FALSE,
                 over |-> FALSE, passkeys |-> n, refusedAt |-> 0]
Fetching(generation) == [generation |-> generation, answer |-> None]
BannerFollows(s, r, us) ==
    LET n == s.passkeys
    IN  CASE ~Locked(s, r) -> banner' = None /\ fetches' = {} /\ unlocks' = {[u EXCEPT !.here = FALSE] : u \in us}
        [] Locked(s, r) /\ banner = None ->
             banner' = NewBanner(n) /\ fetches' = (IF n > 0 THEN {Fetching(1)} ELSE {}) /\ unlocks' = us
        [] Locked(s, r) /\ banner # None /\ (n = banner.passkeys \/ n = 0) ->
             banner' = [banner EXCEPT !.passkeys = n] /\ UNCHANGED fetches /\ unlocks' = us
        [] OTHER ->
             /\ banner.generation < MaxFetches
             /\ banner' = [banner EXCEPT !.passkeys = n, !.generation = @ + 1, !.prepared = None, !.preparing = TRUE]
             /\ fetches' = fetches \cup {Fetching(banner.generation + 1)} /\ unlocks' = us

Show(s, v, r, us, w) ==
    /\ status' = s /\ shown' = v /\ route' = r
    /\ Watching(s, w) /\ BannerFollows(s, r, us)
Goes(r, us) == Show(status, shown, r, us, watch)

\* signedOut(), of unauthorized() also; unauthorized() is how header mode ends.
Later(v)     == IF v > shown THEN v ELSE shown
SignedOut(v) == gen < MaxGen /\ gen' = gen + 1 /\ Show(None, Later(v), "inbox", unlocks, watch)
Expires      == expired' = (expired \/ (status # None /\ status.unlockAvailable = TRUE))
Stays        == UNCHANGED <<loaded, unreachable>>

-----------------------------------------------------------------------------
(* Status reads.                                                           *)

Reply(r) ==
    /\ r \in reads /\ r.answer = None
    /\ \/ /\ reads' = (reads \ {r}) \cup {[r EXCEPT !.answer = [ok |-> TRUE, status |-> StatusNow, version |-> version]]}
          /\ UNCHANGED events
       \/ /\ Event
          /\ reads' = (reads \ {r}) \cup {[r EXCEPT !.answer = [ok |-> FALSE, status |-> None, version |-> version]]}
    /\ UNCHANGED <<server, app, gen, watch, panel, sent>>

\* readStatus(): the screen waits for it, so nothing else sets the status meanwhile.
FirstLands(r) ==
    /\ r \in reads /\ r.answer # None /\ r.kind = "first" /\ reads' = reads \ {r}
    /\ loaded' = TRUE /\ unreachable' = ~r.answer.ok
    /\ IF r.answer.ok THEN Show(r.answer.status, r.answer.version, route, unlocks, watch)
                      ELSE UNCHANGED <<status, shown, route, watch, panel>>
    /\ UNCHANGED <<server, expired, gen, sent, events>>
Retry ==
    /\ loaded /\ unreachable /\ ~expired /\ \A r \in reads : r.kind # "first"
    /\ StartRead("first")
    /\ UNCHANGED <<server, app, watch, panel, sent, events>>

\* refreshStatus(): only the latest read may apply, and no status set since.
SlipIsLatest(r) == TRUE
IsLatest(r)     == r.mine = gen
WatchEnds(r)    == IF watch # None /\ watch.inflight = r.mine THEN [watch EXCEPT !.inflight = None] ELSE watch
\* signInAgain() goes on after its read: to the banner, or to a sign-in over the app.
AfterRead(r, s) == IF r.kind = "again" /\ ~(s # None /\ s.proton = "locked") THEN "proton-login" ELSE route
Lands(r) == r \in reads /\ r.answer # None /\ r.kind # "first" /\ reads' = reads \ {r}
RefreshApplies(r) ==
    /\ Lands(r) /\ IsLatest(r) /\ r.answer.ok /\ r.answer.status # None
    /\ Show(r.answer.status, r.answer.version, AfterRead(r, r.answer.status), unlocks, WatchEnds(r))
    /\ Stays /\ UNCHANGED <<server, expired, gen, sent, events>>
RefreshUnauthorized(r) ==
    /\ Lands(r) /\ IsLatest(r) /\ r.answer.ok /\ r.answer.status = None
    /\ Expires /\ SignedOut(r.answer.version)
    /\ Stays /\ UNCHANGED <<server, sent, events>>
RefreshDropped(r) ==
    /\ Lands(r) /\ ~(IsLatest(r) /\ r.answer.ok)
    /\ Show(status, shown, AfterRead(r, None), unlocks, WatchEnds(r))
    /\ Stays /\ UNCHANGED <<server, expired, gen, sent, events>>

-----------------------------------------------------------------------------
(* The watch.                                                              *)

\* trigger(): dropped while a read is in flight, held for the end of the gap
\* after one.
Triggered(w) ==
    CASE w.inflight # None \/ w.held -> w
    [] w.inflight = None /\ ~w.held /\ w.recent -> [w EXCEPT !.held = TRUE]
    [] OTHER -> [w EXCEPT !.recent = TRUE, !.inflight = gen + 1]
Trigger(w) ==
    /\ watch' = Triggered(w)
    /\ IF watch'.inflight # w.inflight THEN StartRead("refresh") ELSE UNCHANGED <<gen, reads>>
Visible == watch # None /\ Event /\ Trigger(watch) /\ UNCHANGED <<server, app, panel, sent>>
GapEnds ==
    /\ watch # None /\ watch.recent
    /\ LET after == [watch EXCEPT !.recent = FALSE, !.held = FALSE]
       IN  IF watch.held THEN Trigger(after) ELSE watch' = after /\ UNCHANGED <<gen, reads>>
    /\ UNCHANGED <<server, app, panel, sent, events>>

\* A poll of the document sync is heard: documents start to wait while the app
\* takes Proton for live, or the sync recovers from an error.
Live      == status # None /\ status.proton = "live"
Rises     == watch.awaiting = FALSE /\ waits /\ Live
Recovers  == watch.failing
PollLands ==
    /\ watch # None /\ door /\ Event
    /\ LET heard == [watch EXCEPT !.awaiting = waits, !.failing = FALSE]
       IN  IF Rises \/ Recovers THEN Trigger(heard) ELSE watch' = heard /\ UNCHANGED <<gen, reads>>
    /\ UNCHANGED <<server, app, panel, sent>>
PollFails ==
    /\ watch # None /\ ~watch.failing /\ Event
    /\ watch' = [watch EXCEPT !.failing = TRUE]
    /\ UNCHANGED <<server, app, gen, reads, panel, sent>>
PollUnauthorized ==
    /\ watch # None /\ ~door
    /\ Expires /\ SignedOut(version)
    /\ Stays /\ UNCHANGED <<server, reads, sent, events>>

-----------------------------------------------------------------------------
(* Sign-in and sign-out.                                                   *)

\* bound: one login and one logout are in flight at a time.
Tap(n) == Event /\ n = events + 1
LoginShown == Ready /\ (~Email(status) \/ route = "proton-login")

Login(n) ==
    /\ LoginShown /\ logins = {} /\ Tap(n) /\ logins' = logins \cup {[tap |-> n, answer |-> None]}
    /\ UNCHANGED <<server, app, gen, reads, watch, panel, logouts>>
\* POST /login: it may drop passkeys whose password has changed.
LoginServed(l) ==
    /\ l \in logins /\ l.answer = None
    /\ \E ok \in BOOLEAN, ks \in {keys, {}} :
          /\ ok => door \/ ~header
          /\ IF ok THEN Becomes("live", ks, TRUE) ELSE ks = keys /\ UNCHANGED <<proton, keys, door, waits, version>>
          /\ logins' = (logins \ {l}) \cup {[l EXCEPT !.answer = [ok |-> ok, version |-> version']]}
    /\ UNCHANGED <<header, app, gen, reads, watch, panel, logouts, events>>
\* loggedIn(): live at once; a refresh brings the passkeys and the mode.
LoggedIn(l) ==
    /\ l \in logins /\ l.answer # None /\ l.answer.ok /\ logins' = logins \ {l}
    /\ gen + 2 <= MaxGen /\ gen' = gen + 2
    /\ reads' = reads \cup {[mine |-> gen + 2, kind |-> "refresh", answer |-> None]}
    /\ Show([proton |-> "live", passkeys |-> IF status = None THEN 0 ELSE status.passkeys,
             unlockAvailable |-> IF status = None THEN Unknown ELSE status.unlockAvailable],
            l.answer.version, "inbox", unlocks, watch)
    /\ Stays /\ UNCHANGED <<server, expired, logouts, events>>
LoginFails(l) ==
    /\ l \in logins /\ l.answer # None /\ logins' = logins \ {l}
    /\ (~l.answer.ok /\ UNCHANGED events) \/ Event
    /\ UNCHANGED <<server, app, gen, reads, watch, panel, logouts>>
CancelLogin ==
    /\ Ready /\ Email(status) /\ route = "proton-login" /\ Event
    /\ Goes("inbox", unlocks) /\ Stays /\ UNCHANGED <<server, expired, gen, reads, sent>>

\* signInAgain(), of the inbox.
SlipSignsOut == status.unlockAvailable # TRUE
SignsOut     == status.unlockAvailable = FALSE
SignInAgain(n) ==
    /\ Ready /\ Email(status) /\ route = "inbox"
    /\ \/ /\ status.unlockAvailable = TRUE /\ StartRead("again") /\ Event
          /\ UNCHANGED <<app, watch, panel, sent>>
       \/ /\ status.unlockAvailable # TRUE /\ ~SignsOut /\ Goes("proton-login", unlocks) /\ Event
          /\ Stays /\ UNCHANGED <<expired, gen, reads, sent>>
       \/ /\ SignsOut /\ status.unlockAvailable # TRUE /\ logouts = {} /\ Tap(n)
          /\ logouts' = logouts \cup {[tap |-> n, again |-> TRUE, answer |-> None]}
          /\ UNCHANGED <<app, gen, reads, watch, panel, logins>>
    /\ UNCHANGED <<server>>

\* Settings, with Sign out in it.
Settings(r) ==
    /\ Ready /\ Email(status) /\ {route, r} = {"inbox", "settings"} /\ Event
    /\ Goes(r, unlocks) /\ Stays /\ UNCHANGED <<server, expired, gen, reads, sent>>
Logout(n) ==
    /\ Ready /\ Email(status) /\ route = "settings" /\ logouts = {} /\ Tap(n)
    /\ logouts' = logouts \cup {[tap |-> n, again |-> FALSE, answer |-> None]}
    /\ UNCHANGED <<server, app, gen, reads, watch, panel, logins>>
LogoutServed(l) ==
    /\ l \in logouts /\ l.answer = None
    /\ IF header /\ ~door THEN UNCHANGED <<proton, keys, door, waits, version>> ELSE Becomes("none", {}, header)
    /\ logouts' = (logouts \ {l}) \cup {[l EXCEPT !.answer = [ok |-> door \/ ~header, version |-> version']]}
    /\ UNCHANGED <<header, app, gen, reads, watch, panel, logins, events>>
\* A sign-out that failed stays in Settings; of signInAgain(), it does not matter.
LoggedOut(l) ==
    /\ l \in logouts /\ l.answer # None /\ logouts' = logouts \ {l}
    /\ (l.answer.ok \/ l.again) /\ SignedOut(IF l.answer.ok THEN l.answer.version ELSE 0)
    /\ Stays /\ UNCHANGED <<server, expired, reads, logins, events>>
LogoutFails(l) ==
    /\ l \in logouts /\ l.answer # None /\ logouts' = logouts \ {l} /\ ~l.again
    /\ (~l.answer.ok /\ UNCHANGED events) \/ Event
    /\ UNCHANGED <<server, app, gen, reads, watch, panel, logins>>

-----------------------------------------------------------------------------
(* Unlocking.                                                              *)

FetchServed(f) ==
    /\ f \in fetches /\ f.answer = None
    /\ \/ /\ fetches' = (fetches \ {f}) \cup {[f EXCEPT !.answer = [keys |-> IF door THEN keys ELSE {}, version |-> version]]}
          /\ UNCHANGED events
       \/ Event /\ fetches' = (fetches \ {f}) \cup {[f EXCEPT !.answer = [keys |-> {}, version |-> version]]}
    /\ UNCHANGED <<server, app, gen, reads, watch, banner, unlocks, sent>>
\* Only the latest fetch may fill the salts; one that failed leaves none.
SlipFills(f) == TRUE
Fills(f)     == f.generation = banner.generation
FetchLands(f) ==
    /\ f \in fetches /\ f.answer # None /\ fetches' = fetches \ {f}
    /\ banner' = IF Fills(f) THEN [banner EXCEPT !.prepared = IF f.answer.keys = {} THEN None ELSE f.answer, !.preparing = FALSE]
                             ELSE banner
    /\ UNCHANGED <<server, app, gen, reads, watch, unlocks, sent, events>>

\* tap(): the prompt starts with the salts at hand, or after fetching some.
Unlock(n) ==
    /\ Ready /\ banner # None /\ ~banner.busy /\ ~banner.preparing /\ ~banner.over /\ banner.passkeys > 0 /\ Tap(n)
    /\ banner' = [banner EXCEPT !.busy = TRUE]
    /\ unlocks' = unlocks \cup {[tap |-> n, here |-> TRUE, salts |-> banner.prepared, answer |-> None]}
    /\ UNCHANGED <<server, app, gen, reads, watch, fetches, sent>>
Answer(u, code, s) == unlocks' = (unlocks \ {u}) \cup {[u EXCEPT !.answer = [code |-> code, status |-> s, version |-> version']]}
UnlockBegins(u) ==
    /\ u \in unlocks /\ u.answer = None /\ u.salts = None
    /\ UNCHANGED server
    /\ IF door /\ keys # {} THEN unlocks' = (unlocks \ {u}) \cup {[u EXCEPT !.salts = [keys |-> keys, version |-> version]]}
                            ELSE Answer(u, IF door THEN "no_passkeys" ELSE "not_authenticated", None)
    /\ UNCHANGED <<app, gen, reads, watch, banner, fetches, sent, events>>
\* POST /unlock with one of the prompt's passkeys, or a prompt that is cancelled
\* or a passkey, a Proton or a request that fails.
Opens(u, code, p, ks) ==
    /\ Becomes(p, ks, door)
    /\ Answer(u, code, IF code = "ok" THEN [proton |-> p, passkeys |-> Cardinality(ks), unlockAvailable |-> TRUE] ELSE None)
UnlockServed(u) ==
    /\ u \in unlocks /\ u.answer = None /\ u.salts # None /\ door
    /\ \E k \in u.salts.keys :
         \/ /\ proton # "locked" \/ k \notin keys
            /\ UNCHANGED <<proton, keys, door, waits, version>>
            /\ CASE proton = "live"   -> Answer(u, "ok", StatusNow)
               [] proton = "none"   -> Answer(u, "proton_login_required", None)
               [] proton = "locked" -> Answer(u, "unknown_passkey", None)
         \/ /\ proton = "locked" /\ k \in keys
            /\ \/ Opens(u, "ok", "live", keys)
               \/ Opens(u, "proton_login_required", "none", keys)
               \/ Opens(u, "passkeys_stale", "locked", {})
               \/ Opens(u, "passkey_unreadable", "locked", keys \ {k})
    /\ UNCHANGED <<header, app, gen, reads, watch, banner, fetches, sent, events>>
UnlockRefused(u) ==
    /\ u \in unlocks /\ u.answer = None /\ u.salts # None
    /\ UNCHANGED <<proton, keys, door, waits, version>> /\ Answer(u, IF door THEN "retry" ELSE "not_authenticated", None)
    /\ UNCHANGED <<header, app, gen, reads, watch, banner, fetches, sent, events>>

\* The answer, to a banner that is still there. A status in it is taken at once;
\* a refusal after which the server differs has the status read again, and one
\* that leaves a way to unlock has the salts fetched again.
StatusChanging == {"proton_login_required", "no_passkeys", "passkeys_stale", "passkey_unreadable", "unknown_passkey"}
SignInOnly     == {"proton_login_required", "no_passkeys", "passkeys_stale", "passkey_unreadable"}
Unlocked(u) ==
    /\ u \in unlocks /\ u.here /\ u.answer # None /\ u.answer.code = "ok"
    /\ gen < MaxGen /\ gen' = gen + 1
    /\ Show(u.answer.status, u.answer.version, route, unlocks \ {u}, watch)
    /\ Stays /\ UNCHANGED <<server, expired, reads, sent, events>>
Refused(u) ==
    /\ u \in unlocks /\ u.here /\ u.answer # None /\ u.answer.code # "ok" /\ unlocks' = unlocks \ {u}
    /\ IF u.answer.code \in SignInOnly
         THEN banner' = [banner EXCEPT !.busy = FALSE, !.over = TRUE] /\ UNCHANGED fetches
         ELSE /\ banner.generation < MaxFetches
              /\ banner' = [banner EXCEPT !.busy = FALSE, !.generation = @ + 1, !.prepared = None,
                                          !.refusedAt = u.answer.version]
              /\ fetches' = fetches \cup {Fetching(banner.generation + 1)}
    /\ IF u.answer.code \in StatusChanging THEN StartRead("refresh") ELSE UNCHANGED <<gen, reads>>
    /\ UNCHANGED <<server, app, watch, sent, events>>
UnheardUnlock(u) ==
    /\ u \in unlocks /\ ~u.here /\ u.answer # None /\ unlocks' = unlocks \ {u}
    /\ UNCHANGED <<server, app, gen, reads, watch, banner, fetches, sent, events>>
\* Sign in to Proton, of the banner.
BannerSignIn ==
    /\ Ready /\ banner # None /\ Event
    /\ Goes("proton-login", unlocks) /\ Stays /\ UNCHANGED <<server, expired, gen, reads, sent>>

-----------------------------------------------------------------------------
\* The page is loaded again, through the proxy's sign-in in header mode.
Reload ==
    /\ Event /\ gen < MaxGen
    /\ status' = None /\ route' = "inbox" /\ loaded' = FALSE /\ unreachable' = FALSE /\ expired' = FALSE
    /\ shown' = 0 /\ watch' = None /\ banner' = None /\ fetches' = {} /\ unlocks' = {} /\ logins' = {} /\ logouts' = {}
    /\ gen' = gen + 1 /\ reads' = FirstRead(gen + 1)
    /\ door' = (door \/ header) /\ version' = version
    /\ UNCHANGED <<header, proton, keys, waits>>

ServerChanges ==
    \/ Restart \/ ProxySignInEnds \/ ProxySignIn \/ SignedInElsewhere \/ SignedOutElsewhere \/ ProtonEnds \/ DocumentWaits
    \/ \E k \in Passkeys : KeyAddedElsewhere(k) \/ KeyRemovedElsewhere(k)
Reading(r)  == Reply(r) \/ FirstLands(r) \/ RefreshApplies(r) \/ RefreshUnauthorized(r) \/ RefreshDropped(r)
Watches     == Visible \/ GapEnds \/ PollLands \/ PollFails \/ PollUnauthorized
Signing     == \/ \E n \in Taps : Login(n) \/ SignInAgain(n) \/ Logout(n)
               \/ \E l \in logins : LoginServed(l) \/ LoggedIn(l) \/ LoginFails(l)
               \/ \E l \in logouts : LogoutServed(l) \/ LoggedOut(l) \/ LogoutFails(l)
Unlocking   == \/ \E f \in fetches : FetchServed(f) \/ FetchLands(f)
               \/ \E n \in Taps : Unlock(n)
               \/ \E u \in unlocks : UnlockBegins(u) \/ UnlockServed(u) \/ UnlockRefused(u) \/ Unlocked(u) \/ Refused(u)
                                     \/ UnheardUnlock(u)
Screens     == Retry \/ CancelLogin \/ BannerSignIn \/ Reload \/ (\E r \in {"inbox", "settings"} : Settings(r))
Next == ServerChanges \/ (\E r \in reads : Reading(r)) \/ Watches \/ Signing \/ Unlocking \/ Screens
Spec == Init /\ [][Next]_vars

-----------------------------------------------------------------------------
(* Properties.                                                             *)

\* A status read never takes the app back to a state of the server that is
\* older than what it shows, whichever reads, sign-ins and unlocks overlap: a
\* read begun before a login cannot undo it (App.tsx:40, 156).
ReadNeverOlder ==
    [][shown' < shown /\ loaded' => logins' # logins \/ unlocks' # unlocks]_vars

\* Sign in again never signs a header-mode server out, which would remove
\* every passkey, although a login over the app leaves the mode unknown until
\* the next read (App.tsx:234).
PasskeysSurviveSignIn == header => \A l \in logouts : ~l.again

\* After a refusal no prompt offers salts that were fetched before it, so a
\* passkey that the server no longer has is offered once (LockedBanner.tsx:111).
FreshSalts ==
    [][\A u \in unlocks' : u.tap > events /\ u.salts # None
         => u.salts.version >= banner.refusedAt]_vars

\* "a trigger while one is in flight is dropped (that read is already asking)"
\* (status-watch.ts:24): documents that start to wait while the app takes
\* Proton for live leave a read that is still to be answered, or was answered by
\* the server as it is now.
RiseIsAsked ==
    [][watch # None /\ watch' # None /\ watch.awaiting = FALSE /\ watch'.awaiting = TRUE /\ Live
         => watch'.held \/ \E r \in reads' : r.answer = None \/ r.answer.version = version]_vars
=============================================================================
