------------------------------ MODULE Enrolment ------------------------------
(***************************************************************************)
(* Passkeys in Settings, in header mode (ui/PasskeysSection.tsx): adding   *)
(* one (auth/flows.ts enrol, settle; auth/passkeys.ts), removing one, and  *)
(* the server that holds them (http/routes-passkeys.ts,                    *)
(* auth/passkey-store.ts). A passkey is made by the device's password      *)
(* manager before the server stores it, and one the server does not hold   *)
(* can never unlock: the browser then asks the password manager to hide it.*)
(*                                                                         *)
(* What the code does with a passkey once it asked for it to be hidden (a  *)
(* hint to the user where the browser cannot) is not told apart.           *)
(***************************************************************************)
EXTENDS Naturals, FiniteSets

CONSTANTS
    Passkeys,      \* passkeys the password manager can make
    MaxSalts,      \* bound: salts the server makes
    MaxVisits,     \* bound: times Settings is opened
    MaxTaps,       \* bound: taps on Add, Continue, Finish setup, Remove and Unlock
    MaxSessions,   \* bound: logins, after the first
    MaxFaults,     \* bound: lost answers, restarts, logouts, salts and passkeys lost elsewhere
    None

ASSUME EnrolmentAssumption ==
    /\ IsFiniteSet(Passkeys) /\ None \notin Passkeys
    /\ MaxSalts \in Nat /\ MaxVisits \in Nat /\ MaxTaps \in Nat /\ MaxSessions \in Nat /\ MaxFaults \in Nat

Salts    == 1..MaxSalts
Loading  == MaxSalts + 1

VARIABLES
    session,    \* the live Proton session, 0 without one
    sessions,   \* sessions begun, counted
    held,       \* rows of passkey_unlocks
    pending,    \* salts that can still be used
    salts,      \* salts made, counted
    posts,      \* POST /api/passkeys on their way
    section,    \* the state of PasskeysSection, None while Settings is closed
    visits,     \* times it was opened
    runs,       \* steps of run() in flight, of this section or of one that is gone
    begins,     \* fetches of begin() in flight
    removal,    \* the DELETE in flight, None without one (bound: one, of any visit)
    unlock,     \* the unlock in flight, None without one
    taps, faults,
    made, stored, unclear, signalled  \* history: passkeys made, ever held, whose POST had no clear answer, and asked to be hidden

server  == <<session, sessions, held, pending, salts, posts>>
browser == <<section, visits, runs, begins, removal, unlock>>
history == <<made, stored, unclear, signalled>>
vars    == <<server, browser, taps, faults, history>>

\* The setup that waits for a tap, a section, a POST, and a step of run().
Setups   == [key: Passkeys, salt: Salts \cup {None}]
Sections == [listed: SUBSET Passkeys, list: {"asked", "served", "taken"}, answer: SUBSET Passkeys, naming: BOOLEAN,
             begin: Salts \cup {Loading, None}, busy: BOOLEAN, finish: Setups \cup {None}, abandon: Passkeys \cup {None}]
Codes    == {"added", "already_enrolled", "invalid_enrolment", "refused", "unclear"}
Posts    == [key: Passkeys, salt: Salts \cup {None}, at: {"sent", "captured", "stored", "answered"},
             live: 0..(MaxSessions + 1), code: Codes \cup {None}]
Runs     == [visit: 1..MaxVisits, step: {"begin", "create", "assert", "post"}, key: Passkeys \cup {None},
             salt: Salts \cup {None}]
Removals == [visit: 1..MaxVisits, key: Passkeys, code: {"gone", "unclear", None}]
Unlocks  == [key: Passkeys, code: {"ok", "passkey_unreadable", "unknown_passkey", "failed", None}]
ASSUME NoneAssumption == None \notin Sections \cup Setups \cup Removals \cup Unlocks \cup Codes \cup {"gone", "unknown_passkey"}

\* Every variable has its type.
TypeOK ==
    /\ session \in 0..(MaxSessions + 1) /\ sessions \in 1..(MaxSessions + 1)
    /\ held \subseteq Passkeys /\ pending \subseteq Salts /\ salts \in 0..MaxSalts /\ posts \subseteq Posts
    /\ section \in Sections \cup {None} /\ visits \in 0..MaxVisits /\ runs \subseteq Runs /\ begins \in Nat
    /\ removal \in Removals \cup {None} /\ unlock \in Unlocks \cup {None}
    /\ taps \in 0..MaxTaps /\ faults \in 0..MaxFaults
    /\ made \subseteq Passkeys /\ stored \subseteq made /\ unclear \subseteq made /\ signalled \subseteq made

\* list: how far GET /api/passkeys has come, answer: its answer; begin: a salt,
\* Loading or None; abandon: pendingAbandon.
Opened ==
    [listed |-> {}, list |-> "asked", answer |-> {}, naming |-> FALSE, begin |-> None, busy |-> FALSE, finish |-> None, abandon |-> None]

Init ==
    /\ session = 1 /\ sessions = 1 /\ held = {} /\ pending = {} /\ salts = 0 /\ posts = {}
    /\ section = None /\ visits = 0 /\ runs = {} /\ begins = 0 /\ removal = None /\ unlock = None
    /\ taps = 0 /\ faults = 0
    /\ made = {} /\ stored = {} /\ unclear = {} /\ signalled = {}

Tap   == taps < MaxTaps /\ taps' = taps + 1
Fault == faults < MaxFaults /\ faults' = faults + 1
Idle  == section # None /\ ~section.busy

-----------------------------------------------------------------------------
(* The server.                                                             *)

\* POST /begin, for a live session.
Begin(salt) == session # 0 /\ salts < MaxSalts /\ salt = salts + 1 /\ salts' = salt /\ pending' = pending \cup {salt}

\* POST /: the session is captured before the body is read.
Moves(p, at, code) == posts' = (posts \ {p}) \cup {[p EXCEPT !.at = at, !.code = code]}
PostArrives(p) ==
    /\ p \in posts /\ p.at = "sent"
    /\ posts' = (posts \ {p}) \cup {IF session = 0 THEN [p EXCEPT !.at = "answered", !.code = "refused"]
                                                  ELSE [p EXCEPT !.at = "captured", !.live = session]}
    /\ UNCHANGED <<session, sessions, held, pending, salts, browser, taps, faults, history>>
\* Refusals in their order, then the wrap is stored.
Refusal(p) ==
    IF p.live # session THEN "refused"
    ELSE IF p.salt \notin pending THEN "invalid_enrolment"
    ELSE IF p.key \in held THEN "already_enrolled" ELSE "none"
PostStores(p) ==
    /\ p \in posts /\ p.at = "captured"
    /\ IF Refusal(p) = "none" THEN Moves(p, "stored", None) /\ held' = held \cup {p.key} /\ stored' = stored \cup {p.key}
                              ELSE Moves(p, "answered", Refusal(p)) /\ UNCHANGED <<held, stored>>
    /\ UNCHANGED <<session, sessions, pending, salts, browser, taps, faults, made, unclear, signalled>>
\* What follows use() may fail: a 500 for a passkey that is stored.
PostEnds(p) ==
    /\ p \in posts /\ p.at = "stored"
    /\ \/ Moves(p, "answered", "added") /\ UNCHANGED faults
       \/ Moves(p, "answered", "unclear") /\ Fault
    /\ pending' = pending \ {p.salt}
    /\ UNCHANGED <<session, sessions, held, salts, browser, taps, history>>

\* A restart ends every enrolment under way; a request not yet read is read after it.
Restart ==
    /\ Fault /\ session' = 0 /\ pending' = {}
    /\ posts' = {IF p.at \in {"captured", "stored"} THEN [p EXCEPT !.at = "answered", !.code = "unclear"] ELSE p : p \in posts}
    /\ UNCHANGED <<sessions, held, salts, browser, taps, history>>
\* A password login, or an unlock in another browser; it may remove stale passkeys.
LoginElsewhere ==
    /\ sessions <= MaxSessions /\ sessions' = sessions + 1 /\ session' = sessions + 1
    /\ held' \in {held, {}}
    /\ UNCHANGED <<pending, salts, posts, browser, taps, faults, history>>
LogoutElsewhere ==
    /\ Fault /\ session # 0 /\ session' = 0 /\ held' = {}
    /\ UNCHANGED <<sessions, pending, salts, posts, browser, taps, history>>
\* 5 minutes pass, or other enrolments fill the map.
SaltLost(salt) ==
    /\ salt \in pending /\ Fault /\ pending' = pending \ {salt}
    /\ UNCHANGED <<session, sessions, held, salts, posts, browser, taps, history>>
RemovedElsewhere(k) ==
    /\ k \in held /\ Fault /\ held' = held \ {k}
    /\ UNCHANGED <<session, sessions, pending, salts, posts, browser, taps, history>>

-----------------------------------------------------------------------------
(* The section.                                                            *)

Signal(ks) == signalled' = signalled \cup ks

Open ==
    /\ section = None /\ unlock = None /\ visits < MaxVisits /\ visits' = visits + 1
    /\ section' = Opened
    /\ UNCHANGED <<server, runs, begins, removal, unlock, taps, faults, history>>
\* Leaving Settings in mid-setup hides the passkey that will never unlock.
SlipAbandoned(s) == {}
Abandoned(s)     == {s.abandon} \ {None}
Leave ==
    /\ section # None /\ section' = None /\ Signal(Abandoned(section))
    /\ begins' = 0
    /\ UNCHANGED <<server, visits, runs, removal, unlock, taps, faults, made, stored, unclear>>

ListServed ==
    /\ section # None /\ section.list = "asked"
    /\ \/ section' = [section EXCEPT !.list = "served", !.answer = held] /\ UNCHANGED faults
       \/ section' = [section EXCEPT !.list = "taken"] /\ Fault
    /\ UNCHANGED <<server, visits, runs, begins, removal, unlock, taps, history>>
ListLands ==
    /\ section # None /\ section.list = "served"
    /\ section' = [section EXCEPT !.list = "taken", !.answer = {}, !.listed = section.answer]
    /\ UNCHANGED <<server, visits, runs, begins, removal, unlock, taps, faults, history>>

StartAdding ==
    /\ section # None /\ section.finish = None /\ ~section.naming /\ Tap
    /\ section' = [section EXCEPT !.naming = TRUE, !.begin = Loading] /\ begins' = begins + 1
    /\ UNCHANGED <<server, visits, runs, removal, unlock, faults, history>>
CancelNaming ==
    /\ Idle /\ section.naming /\ section.finish = None
    /\ section' = [section EXCEPT !.naming = FALSE]
    /\ UNCHANGED <<server, visits, runs, begins, removal, unlock, taps, faults, history>>
\* fetchBegin(): a salt, or none, in which case Continue fetches it itself.
BeginLands ==
    /\ section # None /\ begins > 0 /\ begins' = begins - 1
    /\ \/ \E salt \in Salts : Begin(salt) /\ section' = [section EXCEPT !.begin = salt] /\ UNCHANGED faults
       \/ /\ (session = 0 /\ UNCHANGED faults) \/ Fault
          /\ section' = [section EXCEPT !.begin = None] /\ UNCHANGED <<salts, pending>>
    /\ UNCHANGED <<session, sessions, held, posts, visits, runs, removal, unlock, taps, history>>

-----------------------------------------------------------------------------
(* Adding a passkey: run() and the steps it awaits.                        *)

\* pendingAbandon is forgotten before the await: the step may store the passkey.
Starts(step, key, salt) ==
    /\ Idle /\ Tap
    /\ section' = [section EXCEPT !.busy = TRUE, !.abandon = None]
    /\ runs' = runs \cup {[visit |-> visits, step |-> step, key |-> key, salt |-> salt]}
Continue ==
    /\ section # None /\ section.naming /\ section.finish = None /\ section.begin # Loading
    /\ Starts(IF section.begin = None THEN "begin" ELSE "create", None, section.begin)
    /\ UNCHANGED <<server, visits, begins, removal, unlock, faults, history>>
FinishSetup ==
    /\ section # None /\ section.finish # None
    /\ Starts("assert", section.finish.key, section.finish.salt)
    /\ UNCHANGED <<server, visits, begins, removal, unlock, faults, history>>
CancelSetup ==
    /\ Idle /\ section.finish # None
    /\ section' = [section EXCEPT !.finish = None, !.abandon = None]
    /\ Signal({section.finish.key})
    /\ UNCHANGED <<server, visits, runs, begins, removal, unlock, taps, faults, made, stored, unclear>>

\* The step ends; a section that is gone only abandons what is unfinished.
Ends(run, outcome) ==
    /\ runs' = runs \ {run}
    /\ LET here == section # None /\ run.visit = visits
           done == [section EXCEPT !.busy = FALSE, !.finish = None]
       IN  CASE ~here -> UNCHANGED <<section, begins>>
           [] here /\ outcome = "added" ->
                section' = [done EXCEPT !.listed = @ \cup {run.key}, !.naming = FALSE, !.begin = None] /\ UNCHANGED begins
           [] here /\ outcome = "finish_setup" ->
                /\ section' = [done EXCEPT !.finish = [key |-> run.key, salt |-> run.salt], !.abandon = run.key,
                                           !.naming = FALSE]
                /\ UNCHANGED begins
           [] here /\ outcome = "expired" -> section' = [done EXCEPT !.begin = Loading] /\ begins' = begins + 1
           [] OTHER -> section' = done /\ UNCHANGED begins
Unfinished(run) == IF section # None /\ run.visit = visits THEN {} ELSE {run.key}
Goes(run, step, key) == runs' = (runs \ {run}) \cup {[run EXCEPT !.step = step, !.key = key]} /\ UNCHANGED <<section, begins>>
Sends(run, key) == posts' = posts \cup {[key |-> key, salt |-> run.salt, at |-> "sent", live |-> 0, code |-> None]}

RunBegins(run) ==
    /\ run \in runs /\ run.step = "begin"
    /\ \/ /\ \E salt \in Salts : /\ Begin(salt)
                                 /\ runs' = (runs \ {run}) \cup {[run EXCEPT !.step = "create", !.salt = salt]}
          /\ UNCHANGED <<section, begins, faults>>
       \/ ((session = 0 /\ UNCHANGED faults) \/ Fault) /\ Ends(run, "failed") /\ UNCHANGED <<salts, pending>>
    /\ UNCHANGED <<session, sessions, held, posts, visits, removal, unlock, taps, history>>
\* enrolPasskey(): nothing made; or made, with a PRF result, without one yet,
\* or by an authenticator that has none.
NothingMade(run) ==
    /\ run \in runs /\ run.step = "create" /\ Ends(run, "cancelled")
    /\ UNCHANGED <<server, visits, removal, unlock, taps, faults, history>>
Created(run, key) ==
    /\ run \in runs /\ run.step = "create" /\ key \notin made /\ made' = made \cup {key}
    /\ \/ Goes(run, "post", key) /\ Sends(run, key) /\ UNCHANGED signalled
       \/ Goes(run, "assert", key) /\ UNCHANGED <<posts, signalled>>
       \/ Ends(run, "prf_unsupported") /\ Signal({key}) /\ UNCHANGED posts
    /\ UNCHANGED <<session, sessions, held, pending, salts, visits, removal, unlock, taps, faults, stored, unclear>>
\* readPrf(): a result; a prompt refused without a fresh tap; or none to be had.
Asserted(run) ==
    /\ run \in runs /\ run.step = "assert"
    /\ \/ Goes(run, "post", run.key) /\ Sends(run, run.key) /\ UNCHANGED signalled
       \/ Ends(run, "finish_setup") /\ Signal(Unfinished(run)) /\ UNCHANGED posts
       \/ Ends(run, "failed") /\ Signal({run.key}) /\ UNCHANGED posts
    /\ UNCHANGED <<session, sessions, held, pending, salts, visits, removal, unlock, taps, faults, made, stored, unclear>>
\* settle(): only a refusal with the server's code means that it was not stored.
SlipRefuses(code) == code \notin {"added", "already_enrolled"}
Refuses(code)     == code \in {"invalid_enrolment", "refused"}
PostLands(run, p) ==
    /\ run \in runs /\ run.step = "post" /\ p \in posts /\ p.key = run.key /\ p.at = "answered"
    /\ posts' = posts \ {p}
    /\ Ends(run, IF p.code = "added" THEN "added" ELSE IF p.code = "invalid_enrolment" THEN "expired" ELSE "failed")
    /\ Signal(IF Refuses(p.code) THEN {run.key} ELSE {})
    /\ unclear' = unclear \cup (IF p.code = "unclear" THEN {run.key} ELSE {})
    /\ UNCHANGED <<session, sessions, held, pending, salts, visits, removal, unlock, taps, faults, made, stored>>
\* No answer, or one without a code: the request may still reach the server.
PostUnclear(run) ==
    /\ run \in runs /\ run.step = "post" /\ Fault
    /\ Ends(run, "failed") /\ Signal(IF Refuses("unclear") THEN {run.key} ELSE {})
    /\ unclear' = unclear \cup {run.key}
    /\ UNCHANGED <<server, visits, removal, unlock, taps, made, stored>>

-----------------------------------------------------------------------------
(* Removing one, and unlocking with one.                                   *)

Remove(k) ==
    /\ section # None /\ k \in section.listed /\ removal = None /\ Tap
    /\ removal' = [visit |-> visits, key |-> k, code |-> None]
    /\ UNCHANGED <<server, section, visits, runs, begins, unlock, faults, history>>
\* DELETE, then 204 or 404.
RemovalServed ==
    /\ removal # None /\ removal.code = None
    /\ \/ held' = held \ {removal.key} /\ removal' = [removal EXCEPT !.code = "gone"] /\ UNCHANGED faults
       \/ held' \in {held, held \ {removal.key}} /\ removal' = [removal EXCEPT !.code = "unclear"] /\ Fault
    /\ UNCHANGED <<session, sessions, pending, salts, posts, section, visits, runs, begins, unlock, taps, history>>
RemovalLands ==
    /\ removal # None /\ removal.code # None /\ removal' = None
    /\ Signal(IF removal.code = "gone" THEN {removal.key} ELSE {})
    /\ section' = IF section # None /\ removal.visit = visits /\ removal.code = "gone"
                     THEN [section EXCEPT !.listed = @ \ {removal.key}] ELSE section
    /\ UNCHANGED <<server, visits, runs, begins, unlock, taps, faults, made, stored, unclear>>

\* unlock(), of the banner of the inbox: the prompt offers the salts of the
\* server, and uses one of its passkeys. The prompt may be cancelled, or fail.
UnlockPrompts ==
    /\ section = None /\ unlock = None /\ held # {} /\ Tap
    /\ \E k \in held : unlock' = [key |-> k, code |-> None]
    /\ UNCHANGED <<server, section, visits, runs, begins, removal, faults, history>>
UnlockServed ==
    /\ unlock # None /\ unlock.code = None
    /\ \/ /\ session = 0 /\ unlock.key \in held /\ sessions <= MaxSessions
          /\ sessions' = sessions + 1 /\ session' = sessions + 1
          /\ unlock' = [unlock EXCEPT !.code = "ok"] /\ UNCHANGED <<held, faults>>
       \/ /\ session = 0 /\ unlock.key \in held /\ held' = held \ {unlock.key}
          /\ unlock' = [unlock EXCEPT !.code = "passkey_unreadable"] /\ Fault /\ UNCHANGED <<session, sessions>>
       \/ /\ session = 0 /\ unlock.key \notin held
          /\ unlock' = [unlock EXCEPT !.code = "unknown_passkey"] /\ UNCHANGED <<session, sessions, held, faults>>
       \/ /\ unlock' = [unlock EXCEPT !.code = "failed"] /\ UNCHANGED <<session, sessions, held, faults>>
    /\ UNCHANGED <<pending, salts, posts, section, visits, runs, begins, removal, taps, history>>
UnlockLands ==
    /\ unlock # None /\ unlock.code # None /\ unlock' = None
    /\ Signal(IF unlock.code = "unknown_passkey" THEN {unlock.key} ELSE {})
    /\ UNCHANGED <<server, section, visits, runs, begins, removal, taps, faults, made, stored, unclear>>

-----------------------------------------------------------------------------
World    == \/ Restart \/ LoginElsewhere \/ LogoutElsewhere
            \/ (\E salt \in Salts : SaltLost(salt)) \/ (\E k \in Passkeys : RemovedElsewhere(k))
Serving  == \E p \in posts : PostArrives(p) \/ PostStores(p) \/ PostEnds(p)
Settings == \/ Open \/ Leave \/ ListServed \/ ListLands \/ StartAdding \/ CancelNaming \/ BeginLands
            \/ Continue \/ FinishSetup \/ CancelSetup
Running  == \E run \in runs : \/ RunBegins(run) \/ NothingMade(run) \/ Asserted(run) \/ PostUnclear(run)
                             \/ (\E k \in Passkeys : Created(run, k)) \/ (\E p \in posts : PostLands(run, p))
Removing == (\E k \in Passkeys : Remove(k)) \/ RemovalServed \/ RemovalLands
Unlocking == UnlockPrompts \/ UnlockServed \/ UnlockLands
Next == World \/ Serving \/ Settings \/ Running \/ Removing \/ Unlocking
Spec == Init /\ [][Next]_vars

-----------------------------------------------------------------------------
(* Properties.                                                             *)

\* A passkey that the server holds, and that can unlock, was never one the
\* password manager was asked to hide, whatever answers were lost, whichever
\* screen was closed meanwhile, and however late its request is stored
\* (flows.ts:97, PasskeysSection.tsx:147).
HeldIsVisible == held \cap signalled = {}

\* Every passkey that was made and that the server never stored is still being
\* set up, had no clear answer, or was asked to be hidden: none is left behind
\* by an enrolment that fails, expires or is walked away from (flows.ts:102,
\* PasskeysSection.tsx:97, 153).
UnstoredIsHidden ==
    \A k \in made \ (stored \cup unclear \cup signalled) :
        \/ \E run \in runs : run.key = k
        \/ section # None /\ section.finish # None /\ section.finish.key = k
=============================================================================
