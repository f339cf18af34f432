-------------------------- MODULE EnrolmentProofs --------------------------
(***************************************************************************)
(* Passkeys in Settings (Enrolment), for any number of passkeys, visits,   *)
(* taps, logins and lost answers: one that can unlock is never hidden, and *)
(* one that never will is not left behind.                                 *)
(***************************************************************************)
EXTENDS Enrolment, TLAPS

-----------------------------------------------------------------------------
(* The inductive invariant.                                                *)

\* The POST of a passkey is the only one, and it has stored the passkey exactly
\* as far as it has come. One that may still store it is of a passkey that
\* nothing has hidden.
PostsOnce ==
    /\ \A p, q \in posts : p.key = q.key => p = q
    /\ \A p \in posts :
         /\ p.key \in made
         /\ p.at \in {"sent", "captured"} => p.key \notin stored \cup signalled /\ p.code = None
         /\ p.at = "stored" => p.key \in stored
         /\ p.code \in {"added", "already_enrolled"} => p.key \in stored
         /\ p.code \in {"invalid_enrolment", "refused"} => p.key \notin stored
         /\ p.at = "answered" => p.code # None

\* One run per visit, which the section waits for while it is there; and a passkey
\* that is still to be posted was neither stored, posted nor hidden.
Unposted(k) == k \notin stored \cup signalled /\ \A p \in posts : p.key # k
RunsOnce ==
    /\ \A r, s \in runs : (r.visit = s.visit \/ (r.key # None /\ r.key = s.key)) => r = s
    /\ \A r \in runs :
         /\ r.visit <= visits
         /\ r.key = None <=> r.step \in {"begin", "create"}
         /\ r.key # None => r.key \in made
         /\ r.step = "assert" => Unposted(r.key)
         /\ section # None /\ r.visit = visits => section.busy
    /\ section # None => visits > 0 /\ (section.busy => \E r \in runs : r.visit = visits)
\* A setup that waits for a tap is of a passkey that is not posted, and will be
\* hidden if the section is left; one that is being finished is of the run.
SetupWaits ==
    section # None =>
        /\ section.finish # None =>
              /\ section.finish.key \in made
              /\ ~section.busy => /\ section.abandon = section.finish.key /\ Unposted(section.finish.key)
                                  /\ \A r \in runs : r.key # section.finish.key
              /\ \A r \in runs : r.visit = visits => r.key = section.finish.key
        /\ section.abandon # None => section.finish # None /\ ~section.busy

\* What the browser takes for enrolled was stored, and what it was told is gone
\* is not held: a passkey is stored once.
Enrolled ==
    /\ held \subseteq stored
    /\ section # None => section.listed \subseteq stored /\ section.answer \subseteq stored
    /\ removal # None => removal.key \in stored /\ (removal.code = "gone" => removal.key \notin held)
    /\ unlock # None => unlock.key \in stored /\ (unlock.code = "unknown_passkey" => unlock.key \notin held)

EnrolInv == TypeOK /\ PostsOnce /\ RunsOnce /\ SetupWaits /\ Enrolled /\ HeldIsVisible /\ UnstoredIsHidden

-----------------------------------------------------------------------------
(* The server.                                                             *)

LEMMA FaultCounts == ASSUME TypeOK, Fault PROVE faults' \in 0..MaxFaults
BY EnrolmentAssumption DEF TypeOK, Fault
LEMMA TapCounts == ASSUME TypeOK, Tap PROVE taps' \in 0..MaxTaps
BY EnrolmentAssumption DEF TypeOK, Tap
LEMMA SessionBegins ==
    ASSUME TypeOK, sessions <= MaxSessions, sessions' = sessions + 1, session' = sessions + 1
    PROVE  session' \in 0..(MaxSessions + 1) /\ sessions' \in 1..(MaxSessions + 1)
BY EnrolmentAssumption DEF TypeOK
LEMMA SaltMade ==
    ASSUME TypeOK, NEW salt \in Salts, Begin(salt)
    PROVE  salts' \in 0..MaxSalts /\ pending' \subseteq Salts
BY EnrolmentAssumption DEF TypeOK, Begin, Salts

\* What becomes of the sessions, the salts and the counters, and the passkeys that
\* the server no longer holds, matters to nobody else.
LEMMA HeldShrinks ==
    ASSUME EnrolInv, TypeOK', held' \subseteq held,
           UNCHANGED <<posts, section, visits, runs, removal, unlock, history>>
    PROVE  EnrolInv'
<1> USE DEF EnrolInv, history
<1>1. PostsOnce' /\ RunsOnce' /\ SetupWaits' BY DEF PostsOnce, RunsOnce, SetupWaits, Unposted
<1>2. Enrolled' /\ HeldIsVisible' /\ UnstoredIsHidden' BY DEF Enrolled, HeldIsVisible, UnstoredIsHidden
<1> QED BY <1>1, <1>2
LEMMA WorldKeeps ==
    ASSUME EnrolInv,
           LoginElsewhere \/ LogoutElsewhere \/ (\E salt \in Salts : SaltLost(salt)) \/ (\E k \in Passkeys : RemovedElsewhere(k))
    PROVE  EnrolInv'
<1>1. TypeOK BY DEF EnrolInv
<1>2. CASE LoginElsewhere
    <2>1. TypeOK' BY <1>1, <1>2, SessionBegins DEF LoginElsewhere, TypeOK, browser, history
    <2> QED BY <1>2, <2>1, HeldShrinks DEF LoginElsewhere, browser
<1>3. CASE LogoutElsewhere
    <2>1. faults' \in 0..MaxFaults BY <1>1, <1>3, FaultCounts DEF LogoutElsewhere
    <2>2. 0 \in 0..(MaxSessions + 1) BY EnrolmentAssumption
    <2>3. TypeOK' BY <1>1, <1>3, <2>1, <2>2 DEF LogoutElsewhere, TypeOK, browser, history
    <2> QED BY <1>3, <2>3, HeldShrinks DEF LogoutElsewhere, browser
<1>4. ASSUME NEW salt \in Salts, SaltLost(salt) PROVE EnrolInv'
    <2>1. faults' \in 0..MaxFaults BY <1>1, <1>4, FaultCounts DEF SaltLost
    <2>2. TypeOK' BY <1>1, <1>4, <2>1 DEF SaltLost, TypeOK, browser, history
    <2> QED BY <1>4, <2>2, HeldShrinks DEF SaltLost, browser
<1>5. ASSUME NEW k \in Passkeys, RemovedElsewhere(k) PROVE EnrolInv'
    <2>1. faults' \in 0..MaxFaults BY <1>1, <1>5, FaultCounts DEF RemovedElsewhere
    <2>2. TypeOK' BY <1>1, <1>5, <2>1 DEF RemovedElsewhere, TypeOK, browser, history
    <2> QED BY <1>5, <2>2, HeldShrinks DEF RemovedElsewhere, browser
<1> QED BY <1>2, <1>3, <1>4, <1>5

\* A restart answers every POST it interrupts without a clear answer.
LEMMA RestartKeeps == ASSUME EnrolInv, Restart PROVE EnrolInv'
<1>1. TypeOK /\ PostsOnce /\ RunsOnce /\ SetupWaits /\ Enrolled /\ HeldIsVisible /\ UnstoredIsHidden BY DEF EnrolInv
<1> DEFINE After(p) == IF p.at \in {"captured", "stored"} THEN [p EXCEPT !.at = "answered", !.code = "unclear"] ELSE p
<1>2. /\ posts' = {After(p) : p \in posts} /\ session' = 0 /\ pending' = {} /\ Fault
      /\ UNCHANGED <<sessions, held, salts, browser, taps, history>>
    BY DEF Restart
<1>3. ASSUME NEW p \in posts
      PROVE  /\ After(p) \in Posts /\ After(p).key = p.key
             /\ After(p) = p \/ (After(p).at = "answered" /\ After(p).code = "unclear")
             /\ After(p).at # "captured"
    <2>1. p \in Posts BY <1>1 DEF TypeOK
    <2>2. p.at \in {"sent", "captured", "stored", "answered"} BY <2>1 DEF Posts
    <2>3. CASE p.at \in {"captured", "stored"}
        <3>1. After(p) = [p EXCEPT !.at = "answered", !.code = "unclear"] BY <2>3
        <3> QED BY <2>1, <3>1 DEF Posts, Codes
    <2>4. CASE p.at \notin {"captured", "stored"} BY <2>1, <2>4
    <2> QED BY <2>3, <2>4
<1> HIDE DEF After
<1>4. faults' \in 0..MaxFaults /\ 0 \in 0..(MaxSessions + 1) BY <1>1, <1>2, FaultCounts, EnrolmentAssumption
<1>5. posts' \subseteq Posts BY <1>2, <1>3
<1>6. TypeOK' BY <1>1, <1>2, <1>4, <1>5 DEF TypeOK, browser, history
<1>7. PostsOnce'
    <2>1. \A p, q \in posts' : p.key = q.key => p = q BY <1>1, <1>2, <1>3 DEF PostsOnce
    <2>2. ASSUME NEW q \in posts'
          PROVE  /\ q.key \in made
                 /\ q.at \in {"sent", "captured"} => q.key \notin stored \cup signalled /\ q.code = None
                 /\ q.at = "stored" => q.key \in stored
                 /\ q.code \in {"added", "already_enrolled"} => q.key \in stored
                 /\ q.code \in {"invalid_enrolment", "refused"} => q.key \notin stored
                 /\ q.at = "answered" => q.code # None
        <3>1. PICK p \in posts : q = After(p) BY <1>2
        <3>2. "unclear" # None BY NoneAssumption DEF Codes
        <3>3. CASE q = p BY <1>1, <3>3 DEF PostsOnce
        <3>4. CASE q.at = "answered" /\ q.code = "unclear" BY <1>1, <1>3, <3>1, <3>2, <3>4 DEF PostsOnce
        <3> QED BY <1>3, <3>1, <3>3, <3>4
    <2> QED BY <1>2, <2>1, <2>2 DEF PostsOnce, history
<1>8. \A k \in Passkeys : Unposted(k) => Unposted(k)' BY <1>2, <1>3 DEF Unposted, history
<1>9. RunsOnce'
    <2>1. \A r \in runs : r.key # None => r.key \in Passkeys BY <1>1 DEF TypeOK, Runs
    <2> QED BY <1>1, <1>2, <1>8, <2>1 DEF RunsOnce, browser, history
<1>10. SetupWaits'
    <2>1. section # None /\ section.finish # None => section.finish.key \in Passkeys
        BY <1>1 DEF SetupWaits, TypeOK
    <2> QED BY <1>1, <1>2, <1>8, <2>1 DEF SetupWaits, browser, history
<1>11. Enrolled' /\ HeldIsVisible' /\ UnstoredIsHidden'
    BY <1>1, <1>2 DEF Enrolled, HeldIsVisible, UnstoredIsHidden, browser, history
<1> QED BY <1>6, <1>7, <1>9, <1>10, <1>11 DEF EnrolInv

\* A POST goes one step further: nothing else is posted or stored.
LEMMA PostMoves ==
    ASSUME EnrolInv, TypeOK', NEW p \in posts, NEW q, posts' = (posts \ {p}) \cup {q}, q.key = p.key,
           UNCHANGED <<browser, made, unclear, signalled>>,
           \/ UNCHANGED <<held, stored>>
           \/ p.at = "captured" /\ held' = held \cup {p.key} /\ stored' = stored \cup {p.key},
           q.at \in {"sent", "captured"} => p.at \in {"sent", "captured"} /\ stored' = stored /\ q.code = None,
           q.at = "stored" => p.key \in stored',
           q.code \in {"added", "already_enrolled"} => p.key \in stored',
           q.code \in {"invalid_enrolment", "refused"} => p.key \notin stored',
           q.at = "answered" => q.code # None
    PROVE  EnrolInv'
<1>1. TypeOK /\ PostsOnce /\ RunsOnce /\ SetupWaits /\ Enrolled /\ HeldIsVisible /\ UnstoredIsHidden BY DEF EnrolInv
<1>2. p.at = "captured" => p.key \notin stored \cup signalled BY <1>1 DEF PostsOnce
<1>3. stored \subseteq stored' /\ stored' \subseteq stored \cup {p.key} /\ held \subseteq held' /\ held' \subseteq held \cup {p.key}
    OBVIOUS
<1>4. PostsOnce'
    <2>1. \A a, b \in posts' : a.key = b.key => a = b BY <1>1 DEF PostsOnce
    <2>2. ASSUME NEW o \in posts'
          PROVE  /\ o.key \in made
                 /\ o.at \in {"sent", "captured"} => o.key \notin stored' \cup signalled /\ o.code = None
                 /\ o.at = "stored" => o.key \in stored'
                 /\ o.code \in {"added", "already_enrolled"} => o.key \in stored'
                 /\ o.code \in {"invalid_enrolment", "refused"} => o.key \notin stored'
                 /\ o.at = "answered" => o.code # None
        <3>1. CASE o = q BY <1>1, <3>1 DEF PostsOnce
        <3>2. CASE o # q
            <4>1. o \in posts /\ o.key # p.key BY <1>1, <3>2 DEF PostsOnce
            <4> QED BY <1>1, <1>3, <4>1 DEF PostsOnce
        <3> QED BY <3>1, <3>2
    <2> QED BY <2>1, <2>2 DEF PostsOnce
<1>5. ASSUME NEW k, Unposted(k) PROVE Unposted(k)'
    <2>1. k # p.key BY <1>5 DEF Unposted
    <2> QED BY <1>3, <1>5, <2>1 DEF Unposted
<1>6. RunsOnce' BY <1>1, <1>5 DEF RunsOnce, browser
<1>7. SetupWaits' BY <1>1, <1>5 DEF SetupWaits, browser
<1>8. Enrolled' BY <1>1, <1>2, <1>3 DEF Enrolled, browser
<1>9. HeldIsVisible' BY <1>1, <1>2 DEF HeldIsVisible
<1>10. UnstoredIsHidden' BY <1>1, <1>3 DEF UnstoredIsHidden, browser
<1> QED BY <1>4, <1>6, <1>7, <1>8, <1>9, <1>10 DEF EnrolInv
LEMMA ServingKeeps == ASSUME EnrolInv, Serving PROVE EnrolInv'
<1>1. TypeOK /\ PostsOnce /\ Enrolled BY DEF EnrolInv
<1>2. ASSUME NEW p \in posts PROVE p \in Posts BY <1>1 DEF TypeOK
<1>3. \A code \in Codes : code # None BY NoneAssumption
<1>4. ASSUME NEW p \in posts, PostArrives(p) PROVE EnrolInv'
    <2> DEFINE q == IF session = 0 THEN [p EXCEPT !.at = "answered", !.code = "refused"] ELSE [p EXCEPT !.at = "captured", !.live = session]
    <2>1. /\ p.at = "sent" /\ posts' = (posts \ {p}) \cup {q}
          /\ UNCHANGED <<session, sessions, held, pending, salts, browser, taps, faults, history>>
        BY <1>4 DEF PostArrives
    <2>2. p.key \notin stored /\ p.code = None BY <1>1, <2>1 DEF PostsOnce
    <2>3. /\ q \in Posts /\ q.key = p.key
          /\ (q.at = "answered" /\ q.code = "refused") \/ (q.at = "captured" /\ q.code = None)
        BY <1>1, <1>2, <2>2 DEF Posts, Codes, TypeOK
    <2> HIDE DEF q
    <2>4. TypeOK' BY <1>1, <2>1, <2>3 DEF TypeOK, browser, history
    <2>5. "refused" # None BY <1>3 DEF Codes
    <2>6. CASE q.at = "answered" /\ q.code = "refused" BY <2>1, <2>2, <2>3, <2>4, <2>5, <2>6, PostMoves DEF history
    <2>7. CASE q.at = "captured" /\ q.code = None BY <1>3, <2>1, <2>2, <2>3, <2>4, <2>7, PostMoves DEF history, Codes
    <2> QED BY <2>3, <2>6, <2>7
<1>5. ASSUME NEW p \in posts, PostStores(p) PROVE EnrolInv'
    <2>1. p.at = "captured" /\ UNCHANGED <<session, sessions, pending, salts, browser, taps, faults, made, unclear, signalled>>
        BY <1>5 DEF PostStores
    <2>2. p.key \notin stored /\ p.code = None /\ p.key \in made BY <1>1, <2>1 DEF PostsOnce
    <2>3. CASE Refusal(p) = "none"
        <3> DEFINE q == [p EXCEPT !.at = "stored", !.code = None]
        <3>1. posts' = (posts \ {p}) \cup {q} /\ held' = held \cup {p.key} /\ stored' = stored \cup {p.key}
            BY <1>5, <2>3 DEF PostStores, Moves
        <3>2. q \in Posts /\ q.key = p.key /\ q.at = "stored" /\ q.code = None BY <1>2 DEF Posts
        <3> HIDE DEF q
        <3>3. p.key \in Passkeys BY <1>2 DEF Posts
        <3>4. TypeOK' BY <1>1, <2>1, <2>2, <3>1, <3>2, <3>3 DEF TypeOK, browser
        <3> QED BY <1>3, <2>1, <3>1, <3>2, <3>4, PostMoves DEF Codes
    <2>4. CASE Refusal(p) # "none"
        <3> DEFINE code == Refusal(p)
                   q == [p EXCEPT !.at = "answered", !.code = code]
        <3>1. code \in {"refused", "invalid_enrolment"} \/ (code = "already_enrolled" /\ p.key \in held) BY <2>4 DEF Refusal
        <3>2. posts' = (posts \ {p}) \cup {q} /\ UNCHANGED <<held, stored>> BY <1>5, <2>4 DEF PostStores, Moves
        <3> HIDE DEF code
        <3>3. code \in Codes BY <3>1 DEF Codes
        <3>4. q \in Posts /\ q.key = p.key /\ q.at = "answered" /\ q.code = code BY <1>2, <3>3 DEF Posts
        <3> HIDE DEF q
        <3>5. TypeOK' BY <1>1, <2>1, <3>2, <3>4 DEF TypeOK, browser
        <3>6. code # None BY <1>3, <3>3
        <3>7. p.key \in held => p.key \in stored BY <1>1 DEF Enrolled
        <3> QED BY <2>1, <2>2, <3>1, <3>2, <3>4, <3>5, <3>6, <3>7, PostMoves
    <2> QED BY <2>3, <2>4
<1>6. ASSUME NEW p \in posts, PostEnds(p) PROVE EnrolInv'
    <2>1. PICK code \in {"added", "unclear"} : Moves(p, "answered", code) BY <1>6 DEF PostEnds
    <2> DEFINE q == [p EXCEPT !.at = "answered", !.code = code]
    <2>2. /\ p.at = "stored" /\ posts' = (posts \ {p}) \cup {q} /\ pending' \subseteq pending
          /\ UNCHANGED <<session, sessions, held, salts, browser, taps, history>>
        BY <1>6, <2>1 DEF PostEnds, Moves
    <2>3. q \in Posts /\ q.key = p.key /\ q.at = "answered" /\ q.code = code BY <1>2 DEF Posts, Codes
    <2>4. faults' \in 0..MaxFaults BY <1>1, <1>6, FaultCounts DEF PostEnds, TypeOK
    <2> HIDE DEF q
    <2>5. TypeOK' BY <1>1, <2>2, <2>3, <2>4 DEF TypeOK, browser, history
    <2>6. code # None BY <1>3 DEF Codes
    <2>7. p.key \in stored BY <1>1, <2>2 DEF PostsOnce
    <2> QED BY <2>2, <2>3, <2>5, <2>6, <2>7, PostMoves DEF history
<1> QED BY <1>4, <1>5, <1>6 DEF Serving

-----------------------------------------------------------------------------
(* The section.                                                            *)

\* A section that keeps its setup, and takes over a list of passkeys of the server.
LEMMA SectionRests ==
    ASSUME EnrolInv, TypeOK', section # None, section' # None,
           section'.busy = section.busy, section'.finish = section.finish, section'.abandon = section.abandon,
           section'.listed \subseteq stored, section'.answer \subseteq stored,
           UNCHANGED <<held, posts, visits, runs, removal, unlock, history>>
    PROVE  EnrolInv'
<1>1. TypeOK /\ PostsOnce /\ RunsOnce /\ SetupWaits /\ Enrolled /\ HeldIsVisible /\ UnstoredIsHidden BY DEF EnrolInv
<1>2. PostsOnce' BY <1>1 DEF PostsOnce, history
<1>3. \A k : Unposted(k)' <=> Unposted(k) BY DEF Unposted, history
<1>4. RunsOnce' BY <1>1, <1>3 DEF RunsOnce, history
<1>5. SetupWaits' BY <1>1, <1>3 DEF SetupWaits, history
<1>6. Enrolled' /\ HeldIsVisible' /\ UnstoredIsHidden' BY <1>1 DEF Enrolled, HeldIsVisible, UnstoredIsHidden, history
<1> QED BY <1>2, <1>4, <1>5, <1>6 DEF EnrolInv

\* A setup that waited for a tap is given up: its passkey is hidden, and nobody
\* else has it.
LEMMA SetupGivenUp ==
    ASSUME EnrolInv, TypeOK', section # None, ~section.busy, section.finish # None,
           signalled' = signalled \cup {section.finish.key},
           \/ section' = None
           \/ section' = [section EXCEPT !.finish = None, !.abandon = None],
           UNCHANGED <<held, posts, visits, runs, removal, unlock, made, stored, unclear>>
    PROVE  EnrolInv'
<1>1. TypeOK /\ PostsOnce /\ RunsOnce /\ SetupWaits /\ Enrolled /\ HeldIsVisible /\ UnstoredIsHidden BY DEF EnrolInv
<1> DEFINE k == section.finish.key
<1>2. k \in made /\ Unposted(k) /\ \A r \in runs : r.key # k BY <1>1 DEF SetupWaits
<1>3. section \in Sections BY <1>1 DEF TypeOK
<1>4. section' # None =>
          /\ section'.busy = section.busy /\ section'.finish = None /\ section'.abandon = None
          /\ section'.listed = section.listed /\ section'.answer = section.answer
    BY <1>3 DEF Sections
<1> HIDE DEF k
<1>5. PostsOnce' BY <1>1, <1>2 DEF PostsOnce, Unposted, k
<1>6. RunsOnce'
    <2>1. \A r \in runs : r.step = "assert" => Unposted(r.key)' BY <1>1, <1>2 DEF RunsOnce, Unposted, k
    <2> QED BY <1>1, <1>4, <2>1 DEF RunsOnce
<1>7. SetupWaits' BY <1>4 DEF SetupWaits
<1>8. Enrolled' BY <1>1, <1>4 DEF Enrolled
<1>9. HeldIsVisible' BY <1>1, <1>2 DEF HeldIsVisible, Enrolled, Unposted, k
<1>10. UnstoredIsHidden'
    <2> SUFFICES ASSUME NEW x \in made \ (stored \cup unclear \cup signalled') PROVE \E run \in runs : run.key = x
        BY DEF UnstoredIsHidden
    <2> QED BY <1>1 DEF UnstoredIsHidden, k
<1> QED BY <1>5, <1>6, <1>7, <1>8, <1>9, <1>10 DEF EnrolInv

\* Settings is opened, or left with nothing to hide: a setup that is being
\* finished is the step's of run().
LEMMA SectionComesAndGoes ==
    ASSUME EnrolInv, TypeOK', UNCHANGED <<held, posts, runs, removal, unlock, history>>,
           \/ section = None /\ section' = Opened /\ visits' = visits + 1
           \/ section # None /\ section' = None /\ visits' = visits /\ section.abandon = None
    PROVE  EnrolInv'
<1>1. TypeOK /\ PostsOnce /\ RunsOnce /\ SetupWaits /\ Enrolled /\ HeldIsVisible /\ UnstoredIsHidden BY DEF EnrolInv
<1>2. visits \in Nat BY <1>1 DEF TypeOK
<1>3. section' # None =>
          /\ section' = Opened /\ section'.finish = None /\ section'.abandon = None /\ ~section'.busy
          /\ section'.listed = {} /\ section'.answer = {} /\ visits' = visits + 1 /\ visits' > 0
    BY <1>2 DEF Opened
<1>4. PostsOnce' BY <1>1 DEF PostsOnce, history
<1>5. \A x : Unposted(x)' <=> Unposted(x) BY DEF Unposted, history
<1>6. ASSUME NEW r \in runs
      PROVE  r.visit <= visits' /\ (section' # None => r.visit # visits')
    <2>1. r.visit <= visits BY <1>1 DEF RunsOnce
    <2>2. r.visit \in Nat BY <1>1 DEF TypeOK, Runs
    <2> QED BY <1>2, <1>3, <2>1, <2>2
<1>7. RunsOnce' BY <1>1, <1>3, <1>5, <1>6 DEF RunsOnce, history
<1>8. SetupWaits' BY <1>3 DEF SetupWaits
<1>9. Enrolled' /\ HeldIsVisible' BY <1>1, <1>3 DEF Enrolled, HeldIsVisible, history
<1>10. UnstoredIsHidden'
    <2> SUFFICES ASSUME NEW x \in made \ (stored \cup unclear \cup signalled) PROVE \E run \in runs : run.key = x
        BY DEF UnstoredIsHidden, history
    <2>1. CASE section = None BY <1>1, <2>1 DEF UnstoredIsHidden
    <2>2. CASE section # None /\ section.finish # None /\ section.finish.key = x
        <3>1. section.busy BY <1>1, <2>2, EnrolmentAssumption DEF SetupWaits, TypeOK
        <3>2. PICK r \in runs : r.visit = visits BY <1>1, <2>2, <3>1 DEF RunsOnce
        <3> QED BY <1>1, <2>2, <3>2 DEF SetupWaits
    <2> QED BY <1>1, <2>1, <2>2 DEF UnstoredIsHidden
<1> QED BY <1>4, <1>7, <1>8, <1>9, <1>10 DEF EnrolInv

LEMMA SectionKeeps ==
    ASSUME EnrolInv, Open \/ Leave \/ ListServed \/ ListLands \/ StartAdding \/ CancelNaming \/ BeginLands \/ CancelSetup
    PROVE  EnrolInv'
<1>1. TypeOK /\ SetupWaits /\ Enrolled BY DEF EnrolInv
<1>2. None \notin Sections /\ None \notin Setups BY NoneAssumption
<1>3. section # None => section \in Sections BY <1>1 DEF TypeOK
<1>4. section # None => section.listed \subseteq stored /\ section.answer \subseteq stored BY <1>1 DEF Enrolled
<1>5. CASE Open
    <2>1. Opened \in Sections BY DEF Opened, Sections
    <2>2. visits' \in 0..MaxVisits BY <1>1, <1>5, EnrolmentAssumption DEF Open, TypeOK
    <2>3. TypeOK' BY <1>1, <1>5, <2>1, <2>2 DEF Open, TypeOK, server, history
    <2> QED BY <1>5, <2>3, SectionComesAndGoes DEF Open, server
<1>6. CASE Leave
    <2>1. section # None /\ section' = None /\ signalled' = signalled \cup ({section.abandon} \ {None})
          /\ UNCHANGED <<server, visits, runs, removal, unlock, taps, faults, made, stored, unclear>> /\ begins' = 0
        BY <1>6 DEF Leave, Signal, Abandoned
    <2>2. CASE section.abandon = None
        <3>1. signalled' = signalled BY <2>1, <2>2
        <3>2. TypeOK' BY <1>1, <2>1, <3>1 DEF TypeOK, server
        <3> QED BY <2>1, <2>2, <3>1, <3>2, SectionComesAndGoes DEF server, history
    <2>3. CASE section.abandon # None
        <3>1. section.finish # None /\ ~section.busy /\ section.abandon = section.finish.key /\ section.finish.key \in made
            BY <1>1, <2>1, <2>3 DEF SetupWaits
        <3>2. signalled' = signalled \cup {section.finish.key} BY <2>1, <2>3, <3>1
        <3>3. TypeOK' BY <1>1, <2>1, <3>1, <3>2 DEF TypeOK, server
        <3> QED BY <2>1, <3>1, <3>2, <3>3, SetupGivenUp DEF server
    <2> QED BY <2>2, <2>3
<1>7. CASE CancelSetup
    <2>1. /\ section # None /\ ~section.busy /\ section.finish # None
          /\ section' = [section EXCEPT !.finish = None, !.abandon = None]
          /\ signalled' = signalled \cup {section.finish.key}
          /\ UNCHANGED <<server, visits, runs, begins, removal, unlock, taps, faults, made, stored, unclear>>
        BY <1>7 DEF CancelSetup, Idle, Signal
    <2>2. section' \in Sections BY <1>3, <2>1 DEF Sections
    <2>3. section.finish.key \in made BY <1>1, <2>1 DEF SetupWaits
    <2>4. TypeOK' BY <1>1, <2>1, <2>2, <2>3 DEF TypeOK, server
    <2> QED BY <2>1, <2>4, SetupGivenUp DEF server
<1>8. CASE ListServed
    <2>1. /\ section # None /\ UNCHANGED <<server, visits, runs, begins, removal, unlock, taps, history>>
          /\ \/ section' = [section EXCEPT !.list = "served", !.answer = held] /\ UNCHANGED faults
             \/ section' = [section EXCEPT !.list = "taken"] /\ Fault
        BY <1>8 DEF ListServed
    <2>2. faults' \in 0..MaxFaults BY <1>1, <2>1, FaultCounts DEF TypeOK
    <2>3. held \subseteq Passkeys /\ held \subseteq stored BY <1>1 DEF TypeOK, Enrolled
    <2>4. /\ section' \in Sections /\ section'.listed = section.listed /\ section'.answer \in {section.answer, held}
          /\ section'.busy = section.busy /\ section'.finish = section.finish /\ section'.abandon = section.abandon
        BY <1>3, <2>1, <2>3 DEF Sections
    <2>5. TypeOK' BY <1>1, <2>1, <2>2, <2>4 DEF TypeOK, server, history
    <2>6. section' # None BY <1>2, <2>4
    <2>7. section'.listed \subseteq stored /\ section'.answer \subseteq stored BY <1>4, <2>1, <2>3, <2>4
    <2> QED BY <2>1, <2>4, <2>5, <2>6, <2>7, SectionRests DEF server
<1>9. CASE ListLands
    <2>1. /\ section # None /\ UNCHANGED <<server, visits, runs, begins, removal, unlock, taps, faults, history>>
          /\ section' = [section EXCEPT !.list = "taken", !.answer = {}, !.listed = section.answer]
        BY <1>9 DEF ListLands
    <2>2. /\ section' \in Sections /\ section'.listed = section.answer /\ section'.answer = {}
          /\ section'.busy = section.busy /\ section'.finish = section.finish /\ section'.abandon = section.abandon
        BY <1>3, <2>1 DEF Sections
    <2>3. TypeOK' BY <1>1, <2>1, <2>2 DEF TypeOK, server, history
    <2>4. section' # None BY <1>2, <2>2
    <2> QED BY <1>4, <2>1, <2>2, <2>3, <2>4, SectionRests DEF server
<1>10. CASE StartAdding \/ CancelNaming
    <2>1. /\ section # None /\ UNCHANGED <<server, visits, runs, removal, unlock, faults, history>>
          /\ section' = [section EXCEPT !.naming = TRUE, !.begin = Loading] \/ section' = [section EXCEPT !.naming = FALSE]
        BY <1>10 DEF StartAdding, CancelNaming, Idle
    <2>2. taps' \in 0..MaxTaps BY <1>1, <1>10, TapCounts DEF StartAdding, CancelNaming, TypeOK
    <2>3. begins' \in Nat BY <1>1, <1>10 DEF StartAdding, CancelNaming, TypeOK
    <2>4. /\ section' \in Sections /\ section'.listed = section.listed /\ section'.answer = section.answer
          /\ section'.busy = section.busy /\ section'.finish = section.finish /\ section'.abandon = section.abandon
        BY <1>3, <2>1 DEF Sections
    <2>5. TypeOK' BY <1>1, <2>1, <2>2, <2>3, <2>4 DEF TypeOK, server, history
    <2>6. section' # None BY <1>2, <2>4
    <2> QED BY <1>4, <2>1, <2>4, <2>5, <2>6, SectionRests DEF server
<1>11. CASE BeginLands
    <2>1. /\ section # None /\ begins > 0 /\ begins' = begins - 1
          /\ UNCHANGED <<session, sessions, held, posts, visits, runs, removal, unlock, taps, history>>
          /\ \/ \E salt \in Salts : Begin(salt) /\ section' = [section EXCEPT !.begin = salt] /\ UNCHANGED faults
             \/ /\ (session = 0 /\ UNCHANGED faults) \/ Fault
                /\ section' = [section EXCEPT !.begin = None] /\ UNCHANGED <<salts, pending>>
        BY <1>11 DEF BeginLands
    <2>2. faults' \in 0..MaxFaults BY <1>1, <2>1, FaultCounts DEF TypeOK
    <2>3. salts' \in 0..MaxSalts /\ pending' \subseteq Salts BY <1>1, <2>1, SaltMade DEF TypeOK
    <2>4. PICK salt \in Salts \cup {None} : section' = [section EXCEPT !.begin = salt] BY <2>1
    <2>5. /\ section' \in Sections /\ section'.listed = section.listed /\ section'.answer = section.answer
          /\ section'.busy = section.busy /\ section'.finish = section.finish /\ section'.abandon = section.abandon
        BY <1>3, <2>1, <2>4 DEF Sections
    <2>6. begins' \in Nat BY <1>1, <2>1 DEF TypeOK
    <2>7. TypeOK' BY <1>1, <2>1, <2>2, <2>3, <2>5, <2>6 DEF TypeOK, history
    <2>8. section' # None BY <1>2, <2>5
    <2> QED BY <1>4, <2>1, <2>5, <2>7, <2>8, SectionRests
<1> QED BY <1>5, <1>6, <1>7, <1>8, <1>9, <1>10, <1>11

\* Removing a passkey and unlocking with one: only a passkey that the server said
\* it does not hold is hidden, and what was stored once is not stored again.
LEMMA RestKeeps ==
    ASSUME EnrolInv, TypeOK', held' \subseteq held, UNCHANGED <<posts, visits, runs, made, stored, unclear>>,
           \/ section' = section
           \/ \E k : section # None /\ section' # None /\ section' = [section EXCEPT !.listed = @ \ {k}],
           \/ signalled' = signalled
           \/ \E k \in stored \ held : signalled' = signalled \cup {k},
           removal' # None => removal'.key \in stored /\ (removal'.code = "gone" => removal'.key \notin held'),
           unlock' # None => unlock'.key \in stored /\ (unlock'.code = "unknown_passkey" => unlock'.key \notin held')
    PROVE  EnrolInv'
<1>1. TypeOK /\ PostsOnce /\ RunsOnce /\ SetupWaits /\ Enrolled /\ HeldIsVisible /\ UnstoredIsHidden BY DEF EnrolInv
<1>2. section # None => section \in Sections BY <1>1 DEF TypeOK
<1>3. section' # None =>
          /\ section # None /\ section'.busy = section.busy /\ section'.finish = section.finish
          /\ section'.abandon = section.abandon /\ section'.listed \subseteq section.listed /\ section'.answer = section.answer
    BY <1>2 DEF Sections
<1>4. section # None => section' # None OBVIOUS
<1>5. \A x : x \notin stored \cup signalled => x \notin stored \cup signalled' OBVIOUS
<1>6. PostsOnce' BY <1>1, <1>5 DEF PostsOnce
<1>7. \A x : Unposted(x) => Unposted(x)' BY <1>5 DEF Unposted
<1>8. RunsOnce' BY <1>1, <1>3, <1>7 DEF RunsOnce
<1>9. SetupWaits' BY <1>1, <1>3, <1>7 DEF SetupWaits
<1>10. Enrolled' BY <1>1, <1>3 DEF Enrolled
<1>11. HeldIsVisible' BY <1>1 DEF HeldIsVisible
<1>12. UnstoredIsHidden' BY <1>1, <1>3, <1>4 DEF UnstoredIsHidden
<1> QED BY <1>6, <1>8, <1>9, <1>10, <1>11, <1>12 DEF EnrolInv
LEMMA RemovingKeeps == ASSUME EnrolInv, Removing PROVE EnrolInv'
<1>1. TypeOK /\ Enrolled BY DEF EnrolInv
<1>2. None \notin Sections /\ None \notin Removals BY NoneAssumption
<1>3. /\ section # None => section \in Sections /\ section.listed \subseteq stored
      /\ removal # None => removal \in Removals
      /\ unlock # None => unlock.key \in stored /\ (unlock.code = "unknown_passkey" => unlock.key \notin held)
    BY <1>1 DEF TypeOK, Enrolled
<1>4. ASSUME NEW k \in Passkeys, Remove(k) PROVE EnrolInv'
    <2>1. /\ section # None /\ k \in section.listed /\ removal' = [visit |-> visits, key |-> k, code |-> None]
          /\ UNCHANGED <<server, section, visits, runs, begins, unlock, faults, history>>
        BY <1>4 DEF Remove
    <2>2. taps' \in 0..MaxTaps BY <1>1, <1>4, TapCounts DEF Remove
    <2>3. visits \in 1..MaxVisits
        <3>1. visits > 0 BY <2>1 DEF EnrolInv, RunsOnce
        <3> QED BY <1>1, <3>1, EnrolmentAssumption DEF TypeOK
    <2>4. removal' \in Removals /\ removal'.key = k /\ removal'.code = None BY <2>1, <2>3 DEF Removals
    <2>5. TypeOK' BY <1>1, <2>1, <2>2, <2>4 DEF TypeOK, server, history
    <2>7. k \in stored BY <1>3, <2>1
    <2>8. removal'.code = "gone" => removal'.key \notin held'
        BY <2>4, NoneAssumption
    <2> QED BY <1>3, <2>1, <2>4, <2>5, <2>7, <2>8, RestKeeps DEF server, history
<1>5. CASE RemovalServed
    <2>1. /\ removal # None /\ UNCHANGED <<session, sessions, pending, salts, posts, section, visits, runs, begins, unlock, taps, history>>
          /\ \/ held' = held \ {removal.key} /\ removal' = [removal EXCEPT !.code = "gone"] /\ UNCHANGED faults
             \/ held' \in {held, held \ {removal.key}} /\ removal' = [removal EXCEPT !.code = "unclear"] /\ Fault
        BY <1>5 DEF RemovalServed
    <2>2. faults' \in 0..MaxFaults BY <1>1, <2>1, FaultCounts DEF TypeOK
    <2>3. /\ removal' \in Removals /\ removal'.key = removal.key /\ held' \subseteq held
          /\ removal'.code = "gone" => removal'.key \notin held'
        BY <1>3, <2>1 DEF Removals
    <2>4. TypeOK' BY <1>1, <2>1, <2>2, <2>3 DEF TypeOK, history
    <2>5. removal.key \in stored BY <1>1, <2>1 DEF Enrolled
    <2> QED BY <1>3, <2>1, <2>3, <2>4, <2>5, RestKeeps DEF history
<1>6. CASE RemovalLands
    <2>1. /\ removal # None /\ removal' = None
          /\ signalled' = signalled \cup (IF removal.code = "gone" THEN {removal.key} ELSE {})
          /\ UNCHANGED <<server, visits, runs, begins, unlock, taps, faults, made, stored, unclear>>
          /\ section' = section \/ (section # None /\ section' = [section EXCEPT !.listed = @ \ {removal.key}])
        BY <1>6 DEF RemovalLands, Signal
    <2>2. section # None => section' \in Sections BY <1>3, <2>1 DEF Sections
    <2>3. removal.key \in stored /\ (removal.code = "gone" => removal.key \notin held) BY <1>1, <2>1 DEF Enrolled
    <2>4. signalled' = signalled \/ \E k \in stored \ held : signalled' = signalled \cup {k} BY <2>1, <2>3
    <2>5. section = None => section' = None BY <2>1
    <2>6. TypeOK' BY <1>1, <2>1, <2>2, <2>4, <2>5 DEF TypeOK, server
    <2>7. section # None => section' # None BY <1>2, <2>2
    <2> QED BY <1>3, <2>1, <2>4, <2>6, <2>7, RestKeeps DEF server
<1> QED BY <1>4, <1>5, <1>6 DEF Removing

LEMMA UnlockingKeeps == ASSUME EnrolInv, Unlocking PROVE EnrolInv'
<1>1. TypeOK /\ Enrolled BY DEF EnrolInv
<1>2. /\ unlock # None => unlock \in Unlocks
      /\ removal # None => removal.key \in stored /\ (removal.code = "gone" => removal.key \notin held)
    BY <1>1 DEF TypeOK, Enrolled
<1>3. CASE UnlockPrompts
    <2>1. PICK k \in held : unlock' = [key |-> k, code |-> None] BY <1>3 DEF UnlockPrompts
    <2>2. UNCHANGED <<server, section, visits, runs, begins, removal, faults, history>> BY <1>3 DEF UnlockPrompts
    <2>3. taps' \in 0..MaxTaps BY <1>1, <1>3, TapCounts DEF UnlockPrompts
    <2>4. k \in Passkeys /\ k \in stored BY <1>1 DEF TypeOK, Enrolled
    <2>5. unlock' \in Unlocks /\ unlock'.key = k /\ unlock'.code = None BY <2>1, <2>4 DEF Unlocks
    <2>6. TypeOK' BY <1>1, <2>2, <2>3, <2>5 DEF TypeOK, server, history
    <2>7. unlock'.code # "unknown_passkey" BY <2>5, NoneAssumption
    <2> QED BY <1>2, <2>2, <2>4, <2>5, <2>6, <2>7, RestKeeps DEF server, history
<1>4. CASE UnlockServed
    <2>1. unlock # None /\ UNCHANGED <<pending, salts, posts, section, visits, runs, begins, removal, taps, history>>
        BY <1>4 DEF UnlockServed
    <2>2. PICK code \in {"ok", "passkey_unreadable", "unknown_passkey", "failed"} :
              /\ unlock' = [unlock EXCEPT !.code = code] /\ held' \subseteq held
              /\ code = "unknown_passkey" => unlock.key \notin held
              /\ UNCHANGED <<session, sessions>>
                 \/ (sessions <= MaxSessions /\ sessions' = sessions + 1 /\ session' = sessions + 1)
              /\ UNCHANGED faults \/ Fault
        BY <1>4 DEF UnlockServed
    <2>3. faults' \in 0..MaxFaults BY <1>1, <2>2, FaultCounts DEF TypeOK
    <2>4. session' \in 0..(MaxSessions + 1) /\ sessions' \in 1..(MaxSessions + 1) BY <1>1, <2>2, SessionBegins DEF TypeOK
    <2>5. unlock' \in Unlocks /\ unlock'.key = unlock.key /\ unlock'.code = code BY <1>2, <2>1, <2>2 DEF Unlocks
    <2>6. TypeOK' BY <1>1, <2>1, <2>2, <2>3, <2>4, <2>5 DEF TypeOK, history
    <2>7. unlock.key \in stored BY <1>1, <2>1 DEF Enrolled
    <2> QED BY <1>2, <2>1, <2>2, <2>5, <2>6, <2>7, RestKeeps DEF history
<1>5. CASE UnlockLands
    <2>1. /\ unlock # None /\ unlock' = None
          /\ signalled' = signalled \cup (IF unlock.code = "unknown_passkey" THEN {unlock.key} ELSE {})
          /\ UNCHANGED <<server, section, visits, runs, begins, removal, taps, faults, made, stored, unclear>>
        BY <1>5 DEF UnlockLands, Signal
    <2>2. unlock.key \in stored /\ (unlock.code = "unknown_passkey" => unlock.key \notin held) BY <1>1, <2>1 DEF Enrolled
    <2>3. signalled' = signalled \/ \E k \in stored \ held : signalled' = signalled \cup {k} BY <2>1, <2>2
    <2>4. TypeOK' BY <1>1, <2>1, <2>3 DEF TypeOK, server
    <2> QED BY <1>2, <2>1, <2>3, <2>4, RestKeeps DEF server
<1> QED BY <1>3, <1>4, <1>5 DEF Unlocking

-----------------------------------------------------------------------------
(* The steps of run().                                                     *)

\* A tap starts a step for a section that waits for none: for no passkey yet, or
\* for the one whose setup waits, which nobody else has.
LEMMA RunStarts ==
    ASSUME EnrolInv, TypeOK', section # None, ~section.busy, NEW run,
           section' = [section EXCEPT !.busy = TRUE, !.abandon = None],
           runs' = runs \cup {run}, run.visit = visits,
           \/ section.finish = None /\ run.key = None /\ run.step \in {"begin", "create"}
           \/ section.finish # None /\ run.key = section.finish.key /\ run.step = "assert",
           UNCHANGED <<held, posts, visits, removal, unlock, history>>
    PROVE  EnrolInv'
<1>1. TypeOK /\ PostsOnce /\ RunsOnce /\ SetupWaits /\ Enrolled /\ HeldIsVisible /\ UnstoredIsHidden BY DEF EnrolInv
<1>2. section \in Sections BY <1>1 DEF TypeOK
<1>3. /\ section' # None /\ section'.busy /\ section'.finish = section.finish /\ section'.abandon = None
      /\ section'.listed = section.listed /\ section'.answer = section.answer
    <2>1. section' \in Sections BY <1>2 DEF Sections
    <2>2. section' # None BY <2>1, NoneAssumption
    <2> QED BY <1>2, <2>2 DEF Sections
<1>4. \A r \in runs : r.visit # visits BY <1>1 DEF RunsOnce
<1>5. section.finish # None =>
          section.finish.key \in made /\ Unposted(section.finish.key) /\ \A r \in runs : r.key # section.finish.key
    BY <1>1 DEF SetupWaits
<1>6. None \notin made /\ visits \in Nat BY <1>1, EnrolmentAssumption DEF TypeOK
<1>7. \A x : Unposted(x)' <=> Unposted(x) BY DEF Unposted, history
<1>8. PostsOnce' BY <1>1 DEF PostsOnce, history
<1>9. RunsOnce'
    <2>1. \A r, s \in runs' : (r.visit = s.visit \/ (r.key # None /\ r.key = s.key)) => r = s
        BY <1>1, <1>4, <1>5 DEF RunsOnce
    <2>2. ASSUME NEW r \in runs'
          PROVE  /\ r.visit <= visits
                 /\ r.key = None <=> r.step \in {"begin", "create"}
                 /\ r.key # None => r.key \in made
                 /\ r.step = "assert" => Unposted(r.key)'
        <3>1. CASE r \in runs BY <1>1, <1>7, <3>1 DEF RunsOnce
        <3>2. CASE r = run BY <1>5, <1>6, <1>7, <3>2
        <3> QED BY <3>1, <3>2
    <2>3. visits > 0 BY <1>1 DEF RunsOnce
    <2> QED BY <1>3, <2>1, <2>2, <2>3 DEF RunsOnce, history
<1>10. SetupWaits' BY <1>1, <1>3, <1>4, <1>5 DEF SetupWaits, history
<1>11. Enrolled' /\ HeldIsVisible' BY <1>1, <1>3 DEF Enrolled, HeldIsVisible, history
<1>12. UnstoredIsHidden' BY <1>1, <1>3 DEF UnstoredIsHidden, history
<1> QED BY <1>8, <1>9, <1>10, <1>11, <1>12 DEF EnrolInv
LEMMA StartsKeep == ASSUME EnrolInv, Continue \/ FinishSetup PROVE EnrolInv'
<1>1. TypeOK /\ SetupWaits BY DEF EnrolInv
<1>2. PICK step, key, salt :
          /\ step \in {"begin", "create", "assert"} /\ Starts(step, key, salt)
          /\ \/ section.finish = None /\ key = None /\ step \in {"begin", "create"} /\ salt = section.begin /\ section.begin # Loading
             \/ section.finish # None /\ key = section.finish.key /\ step = "assert" /\ salt = section.finish.salt
    BY DEF Continue, FinishSetup
<1>3. section # None /\ UNCHANGED <<server, visits, begins, removal, unlock, faults, history>> BY DEF Continue, FinishSetup
<1> DEFINE run == [visit |-> visits, step |-> step, key |-> key, salt |-> salt]
<1>4. /\ ~section.busy /\ Tap /\ section' = [section EXCEPT !.busy = TRUE, !.abandon = None]
      /\ runs' = runs \cup {run}
    BY <1>2 DEF Starts, Idle
<1>5. section \in Sections BY <1>1, <1>3 DEF TypeOK
<1>6. section' \in Sections BY <1>4, <1>5 DEF Sections
<1>7. key \in Passkeys \cup {None} /\ salt \in Salts \cup {None} BY <1>2, <1>5 DEF Sections, Setups
<1>8. visits \in 1..MaxVisits
    <2>1. visits > 0 BY <1>3 DEF EnrolInv, RunsOnce
    <2> QED BY <1>1, <2>1, EnrolmentAssumption DEF TypeOK
<1>9. run \in Runs BY <1>2, <1>7, <1>8 DEF Runs
<1>10. taps' \in 0..MaxTaps BY <1>1, <1>4, TapCounts
<1>11. run.visit = visits /\ run.key = key /\ run.step = step OBVIOUS
<1> HIDE DEF run
<1>12. TypeOK' BY <1>1, <1>3, <1>4, <1>6, <1>9, <1>10 DEF TypeOK, server, history
<1> QED BY <1>2, <1>3, <1>4, <1>11, <1>12, RunStarts DEF server

\* What is true of a passkey that a run has or makes: nobody else has it.
RunHas(run, k) == run \in runs /\ (k = run.key \/ (run.key = None /\ k \notin made))
LEMMA OnlyRunHas ==
    ASSUME EnrolInv, NEW run, NEW k \in Passkeys \cup {None}, RunHas(run, k)
    PROVE  /\ \A r \in runs : r # run => (k # None => r.key # k) /\ r.visit # run.visit
           /\ section # None /\ run.visit = visits => section.busy /\ section.abandon = None
           /\ section # None /\ section.finish # None =>
                 /\ section.busy \/ section.finish.key # k
                 /\ run.visit = visits => section.finish.key = k /\ run.key = k
<1>1. TypeOK /\ RunsOnce /\ SetupWaits BY DEF EnrolInv
<1>2. None \notin made BY <1>1, EnrolmentAssumption DEF TypeOK
<1>3. run \in runs BY DEF RunHas
<1>4. ASSUME NEW r \in runs, r # run PROVE (k # None => r.key # k) /\ r.visit # run.visit
    BY <1>1, <1>2, <1>3, <1>4 DEF RunsOnce, RunHas
<1>5. section # None /\ run.visit = visits => section.busy /\ section.abandon = None
    BY <1>1, <1>3 DEF RunsOnce, SetupWaits
<1>6. ASSUME section # None, section.finish # None
      PROVE  /\ section.busy \/ section.finish.key # k
             /\ run.visit = visits => section.finish.key = k /\ run.key = k
    BY <1>1, <1>2, <1>3, <1>6 DEF SetupWaits, RunHas
<1> QED BY <1>4, <1>5, <1>6

\* The salt has come: the run makes a passkey next.
LEMMA RunPrepared ==
    ASSUME EnrolInv, TypeOK', NEW run \in runs, NEW next, next.visit = run.visit, next.key = None, run.key = None,
           next.step = "create", runs' = (runs \ {run}) \cup {next},
           UNCHANGED <<held, posts, section, visits, removal, unlock, history>>
    PROVE  EnrolInv'
<1>1. TypeOK /\ PostsOnce /\ RunsOnce /\ SetupWaits /\ Enrolled /\ HeldIsVisible /\ UnstoredIsHidden BY DEF EnrolInv
<1>2. None \notin made BY <1>1, EnrolmentAssumption DEF TypeOK
<1>3. PostsOnce' BY <1>1 DEF PostsOnce, history
<1>4. \A x : Unposted(x)' <=> Unposted(x) BY DEF Unposted, history
<1>5. RunsOnce'
    <2>1. \A r, s \in runs' : (r.visit = s.visit \/ (r.key # None /\ r.key = s.key)) => r = s BY <1>1 DEF RunsOnce
    <2>2. ASSUME NEW r \in runs'
          PROVE  /\ r.visit <= visits
                 /\ r.key = None <=> r.step \in {"begin", "create"}
                 /\ r.key # None => r.key \in made
                 /\ r.step = "assert" => Unposted(r.key)'
                 /\ section # None /\ r.visit = visits => section.busy
        BY <1>1, <1>4 DEF RunsOnce
    <2>3. section # None => visits > 0 /\ (section.busy => \E r \in runs' : r.visit = visits) BY <1>1 DEF RunsOnce
    <2> QED BY <2>1, <2>2, <2>3 DEF RunsOnce, history
<1>6. SetupWaits' BY <1>1, <1>2, <1>4 DEF SetupWaits, history
<1>7. Enrolled' /\ HeldIsVisible' BY <1>1 DEF Enrolled, HeldIsVisible, history
<1>8. UnstoredIsHidden' BY <1>1, <1>2 DEF UnstoredIsHidden, history
<1> QED BY <1>3, <1>5, <1>6, <1>7, <1>8 DEF EnrolInv

\* The run has a passkey, and reads it or sends its POST, the first.
LEMMA RunGoesOn ==
    ASSUME EnrolInv, TypeOK', NEW run, NEW k \in Passkeys, RunHas(run, k), Unposted(k), NEW next,
           next.visit = run.visit, next.key = k, runs' = (runs \ {run}) \cup {next}, made' = made \cup {k},
           \/ next.step = "assert" /\ posts' = posts
           \/ next.step = "post" /\ \E p : posts' = posts \cup {p} /\ p.key = k /\ p.at = "sent" /\ p.code = None,
           UNCHANGED <<held, section, visits, removal, unlock, stored, unclear, signalled>>
    PROVE  EnrolInv'
<1>1. TypeOK /\ PostsOnce /\ RunsOnce /\ SetupWaits /\ Enrolled /\ HeldIsVisible /\ UnstoredIsHidden BY DEF EnrolInv
<1>2. run \in runs /\ k # None BY EnrolmentAssumption DEF RunHas
<1>3. PostsOnce'
    <2>1. k \notin stored \cup signalled /\ \A p \in posts : p.key # k BY DEF Unposted
    <2>2. \A p, q \in posts' : p.key = q.key => p = q BY <1>1, <2>1 DEF PostsOnce
    <2>3. ASSUME NEW o \in posts'
          PROVE  /\ o.key \in made'
                 /\ o.at \in {"sent", "captured"} => o.key \notin stored \cup signalled /\ o.code = None
                 /\ o.at = "stored" => o.key \in stored
                 /\ o.code \in {"added", "already_enrolled"} => o.key \in stored
                 /\ o.code \in {"invalid_enrolment", "refused"} => o.key \notin stored
                 /\ o.at = "answered" => o.code # None
        <3>1. CASE o \in posts BY <1>1, <3>1 DEF PostsOnce
        <3>2. CASE o \notin posts
            <4>1. o.key = k /\ o.at = "sent" /\ o.code = None BY <3>2
            <4>2. None \notin Codes BY NoneAssumption
            <4> QED BY <2>1, <4>1, <4>2 DEF Codes
        <3> QED BY <3>1, <3>2
    <2> QED BY <2>2, <2>3 DEF PostsOnce
<1>4. ASSUME NEW x, Unposted(x), x # k \/ posts' = posts PROVE Unposted(x)'
    BY <1>4 DEF Unposted
<1>5. \A r \in runs : r # run => r.key # k /\ r.visit # run.visit BY <1>2, OnlyRunHas
<1>6. RunsOnce'
    <2>1. \A r, s \in runs' : (r.visit = s.visit \/ (r.key # None /\ r.key = s.key)) => r = s BY <1>1, <1>5 DEF RunsOnce
    <2>2. ASSUME NEW r \in runs'
          PROVE  /\ r.visit <= visits
                 /\ r.key = None <=> r.step \in {"begin", "create"}
                 /\ r.key # None => r.key \in made'
                 /\ r.step = "assert" => Unposted(r.key)'
                 /\ section # None /\ r.visit = visits => section.busy
        <3>1. CASE r = next BY <1>1, <1>2, <1>4, <3>1 DEF RunsOnce
        <3>2. CASE r # next BY <1>1, <1>4, <1>5, <3>2 DEF RunsOnce
        <3> QED BY <3>1, <3>2
    <2>3. section # None => visits > 0 /\ (section.busy => \E r \in runs' : r.visit = visits) BY <1>1 DEF RunsOnce
    <2> QED BY <2>1, <2>2, <2>3 DEF RunsOnce
<1>7. SetupWaits'
    <2>1. section # None /\ section.finish # None =>
              (section.busy \/ section.finish.key # k) /\ (run.visit = visits => section.finish.key = k)
        BY OnlyRunHas
    <2>2. section # None /\ section.finish # None /\ ~section.busy => Unposted(section.finish.key)'
        BY <1>1, <1>4, <2>1 DEF SetupWaits
    <2> QED BY <1>1, <2>1, <2>2 DEF SetupWaits
<1>8. Enrolled' /\ HeldIsVisible' BY <1>1 DEF Enrolled, HeldIsVisible
<1>9. UnstoredIsHidden'
    <2> SUFFICES ASSUME NEW x \in made' \ (stored \cup unclear \cup signalled)
                 PROVE  \/ \E r \in runs' : r.key = x
                        \/ section # None /\ section.finish # None /\ section.finish.key = x
        BY DEF UnstoredIsHidden
    <2>1. CASE x = k BY <2>1
    <2>2. CASE x # k
        <3>1. run.key # x BY <1>1, <2>2, EnrolmentAssumption DEF RunHas, TypeOK
        <3> QED BY <1>1, <2>2, <3>1 DEF UnstoredIsHidden
    <2> QED BY <2>1, <2>2
<1> QED BY <1>3, <1>6, <1>7, <1>8, <1>9 DEF EnrolInv

\* The run ends. Its passkey, if it has one, is stored, had no clear answer or is
\* hidden; or the section waits for a tap to finish it.
LEMMA RunEnds ==
    ASSUME EnrolInv, TypeOK', NEW run, NEW k \in Passkeys \cup {None}, RunHas(run, k), runs' = runs \ {run},
           UNCHANGED <<held, visits, removal, unlock, stored>>, posts' \subseteq posts,
           made \subseteq made', made' \subseteq made \cup {k}, unclear \subseteq unclear',
           \/ signalled' = signalled
           \/ k # None /\ signalled' = signalled \cup {k} /\ k \notin stored /\ \A p \in posts' : p.key # k,
           ~(section # None /\ run.visit = visits) => section' = section,
           section # None /\ run.visit = visits =>
               /\ section' # None /\ ~section'.busy /\ section'.listed \subseteq stored /\ section'.answer \subseteq stored
               /\ \/ section'.finish = None /\ section'.abandon = None
                  \/ /\ section'.finish # None /\ section'.finish.key = k /\ section'.abandon = k
                     /\ k # None /\ k \in made /\ Unposted(k) /\ posts' = posts /\ signalled' = signalled,
           k \in made' =>
               \/ k \in stored \cup unclear' \cup signalled'
               \/ section' # None /\ section'.finish # None /\ section'.finish.key = k
    PROVE  EnrolInv'
<1>1. TypeOK /\ PostsOnce /\ RunsOnce /\ SetupWaits /\ Enrolled /\ HeldIsVisible /\ UnstoredIsHidden BY DEF EnrolInv
<1>2. None \notin made BY <1>1, EnrolmentAssumption DEF TypeOK
<1>3. \A r \in runs' : r \in runs /\ (k # None => r.key # k) /\ r.visit # run.visit BY OnlyRunHas
<1>4. PostsOnce' BY <1>1 DEF PostsOnce
<1>5. ASSUME NEW x, Unposted(x), x # k \/ (signalled' = signalled) PROVE Unposted(x)' BY <1>5 DEF Unposted
<1>6. RunsOnce'
    <2>1. \A r, s \in runs' : (r.visit = s.visit \/ (r.key # None /\ r.key = s.key)) => r = s BY <1>1 DEF RunsOnce
    <2>2. ASSUME NEW r \in runs'
          PROVE  /\ r.visit <= visits
                 /\ r.key = None <=> r.step \in {"begin", "create"}
                 /\ r.key # None => r.key \in made'
                 /\ r.step = "assert" => Unposted(r.key)'
                 /\ section' # None /\ r.visit = visits => section'.busy
        <3>1. r.step = "assert" => r.key # None /\ Unposted(r.key) BY <1>1, <1>3 DEF RunsOnce
        <3>2. r.step = "assert" => r.key # k BY <1>3, <3>1
        <3>3. r.step = "assert" => Unposted(r.key)' BY <1>5, <3>1, <3>2
        <3> QED BY <1>1, <1>3, <3>3 DEF RunsOnce
    <2>3. section' # None => visits > 0 /\ (section'.busy => \E r \in runs' : r.visit = visits) BY <1>1 DEF RunsOnce
    <2> QED BY <2>1, <2>2, <2>3 DEF RunsOnce
<1>7. SetupWaits'
    <2>1. CASE section # None /\ run.visit = visits
        <3>1. \A r \in runs' : r.visit # visits BY <1>3, <2>1
        <3>2. CASE section'.finish = None /\ section'.abandon = None BY <2>1, <3>2 DEF SetupWaits
        <3>3. CASE /\ section'.finish # None /\ section'.finish.key = k /\ section'.abandon = k
                   /\ k # None /\ k \in made /\ Unposted(k) /\ posts' = posts /\ signalled' = signalled
            <4>1. Unposted(k)' BY <1>5, <3>3
            <4> QED BY <1>3, <2>1, <3>1, <3>3, <4>1 DEF SetupWaits
        <3> QED BY <2>1, <3>2, <3>3
    <2>2. CASE ~(section # None /\ run.visit = visits)
        <3>1. section # None /\ section.finish # None => section.busy \/ section.finish.key # k BY OnlyRunHas
        <3>2. ASSUME section # None, section.finish # None, ~section.busy PROVE Unposted(section.finish.key)'
            <4>1. Unposted(section.finish.key) /\ section.finish.key # k BY <1>1, <3>1, <3>2 DEF SetupWaits
            <4>2. PICK x : x = section.finish.key OBVIOUS
            <4>3. Unposted(x) /\ x # k BY <4>1, <4>2
            <4>4. Unposted(x)' BY <1>5, <4>3
            <4> QED BY <2>2, <4>2, <4>4 DEF Unposted
        <3> QED BY <1>1, <1>3, <2>2, <3>2 DEF SetupWaits
    <2> QED BY <2>1, <2>2
<1>8. Enrolled'
    <2>1. section' # None => section'.listed \subseteq stored /\ section'.answer \subseteq stored BY <1>1 DEF Enrolled
    <2> QED BY <1>1, <2>1 DEF Enrolled
<1>9. HeldIsVisible' BY <1>1 DEF HeldIsVisible, Enrolled
<1>10. UnstoredIsHidden'
    <2> SUFFICES ASSUME NEW x \in made' \ (stored \cup unclear' \cup signalled')
                 PROVE  \/ \E r \in runs' : r.key = x
                        \/ section' # None /\ section'.finish # None /\ section'.finish.key = x
        BY DEF UnstoredIsHidden
    <2>1. CASE x = k BY <2>1
    <2>2. CASE x # k
        <3>1. x \in made \ (stored \cup unclear \cup signalled) /\ run.key # x BY <1>2, <2>2 DEF RunHas
        <3>2. section # None /\ section.finish # None /\ run.visit = visits => section.finish.key = k BY OnlyRunHas
        <3> QED BY <1>1, <2>2, <3>1, <3>2 DEF UnstoredIsHidden
    <2> QED BY <2>1, <2>2
<1> QED BY <1>4, <1>6, <1>7, <1>8, <1>9, <1>10 DEF EnrolInv

\* What the section becomes of it.
LEMMA EndsFacts ==
    ASSUME EnrolInv, NEW run \in runs, NEW outcome, Ends(run, outcome),
           outcome = "added" => run.key \in stored,
           outcome = "finish_setup" => run.key # None
    PROVE  /\ runs' = runs \ {run} /\ begins' \in Nat /\ section' \in Sections \cup {None}
           /\ ~(section # None /\ run.visit = visits) => section' = section
           /\ section # None /\ run.visit = visits =>
                 /\ section' # None /\ ~section'.busy /\ section'.listed \subseteq stored /\ section'.answer \subseteq stored
                 /\ outcome # "finish_setup" => section'.finish = None /\ section'.abandon = None
                 /\ outcome = "finish_setup" =>
                       section'.finish # None /\ section'.finish.key = run.key /\ section'.abandon = run.key
<1>1. TypeOK /\ RunsOnce /\ SetupWaits /\ Enrolled BY DEF EnrolInv
<1>2. runs' = runs \ {run} BY DEF Ends
<1>3. CASE ~(section # None /\ run.visit = visits)
    <2>1. UNCHANGED <<section, begins>> BY <1>3 DEF Ends
    <2> QED BY <1>1, <1>2, <1>3, <2>1 DEF TypeOK
<1>4. CASE section # None /\ run.visit = visits
    <2> DEFINE done == [section EXCEPT !.busy = FALSE, !.finish = None]
    <2>1. section \in Sections /\ section.abandon = None /\ section.listed \subseteq stored /\ section.answer \subseteq stored
        BY <1>1, <1>4 DEF TypeOK, RunsOnce, SetupWaits, Enrolled
    <2>2. /\ done \in Sections /\ ~done.busy /\ done.finish = None /\ done.abandon = None
          /\ done.listed = section.listed /\ done.answer = section.answer
        BY <2>1 DEF Sections
    <2>3. run.key \in Passkeys \cup {None} /\ run.salt \in Salts \cup {None} BY <1>1 DEF TypeOK, Runs
    <2>4. \/ /\ outcome = "added" /\ UNCHANGED begins
             /\ section' = [done EXCEPT !.listed = @ \cup {run.key}, !.naming = FALSE, !.begin = None]
          \/ /\ outcome = "finish_setup" /\ UNCHANGED begins
             /\ section' = [done EXCEPT !.finish = [key |-> run.key, salt |-> run.salt], !.abandon = run.key, !.naming = FALSE]
          \/ outcome = "expired" /\ section' = [done EXCEPT !.begin = Loading] /\ begins' = begins + 1
          \/ outcome \notin {"added", "finish_setup", "expired"} /\ section' = done /\ UNCHANGED begins
        BY <1>4 DEF Ends
    <2> HIDE DEF done
    <2>5. begins' \in Nat BY <1>1, <2>4 DEF TypeOK
    <2>6. None \notin Sections /\ None \notin Setups /\ None \notin Passkeys BY NoneAssumption, EnrolmentAssumption
    <2>7. CASE outcome = "added"
        <3>1. section' = [done EXCEPT !.listed = @ \cup {run.key}, !.naming = FALSE, !.begin = None] BY <2>4, <2>7
        <3>2. run.key \in stored /\ run.key \in Passkeys BY <1>1, <2>7 DEF TypeOK
        <3>3. /\ section' \in Sections /\ ~section'.busy /\ section'.finish = None /\ section'.abandon = None
              /\ section'.listed = section.listed \cup {run.key} /\ section'.answer = section.answer
            BY <2>2, <3>1, <3>2 DEF Sections
        <3> QED BY <1>2, <1>4, <2>1, <2>5, <2>6, <2>7, <3>2, <3>3
    <2>8. CASE outcome = "finish_setup"
        <3> DEFINE setup == [key |-> run.key, salt |-> run.salt]
        <3>1. section' = [done EXCEPT !.finish = setup, !.abandon = run.key, !.naming = FALSE] BY <2>4, <2>8
        <3>2. run.key \in Passkeys BY <2>3, <2>8
        <3>3. setup \in Setups /\ setup.key = run.key BY <2>3, <3>2 DEF Setups
        <3> HIDE DEF setup
        <3>4. /\ section' \in Sections /\ ~section'.busy /\ section'.finish = setup /\ section'.abandon = run.key
              /\ section'.listed = section.listed /\ section'.answer = section.answer
            BY <2>2, <3>1, <3>2, <3>3 DEF Sections
        <3> QED BY <1>2, <1>4, <2>1, <2>5, <2>6, <2>8, <3>3, <3>4
    <2>9. CASE outcome \notin {"added", "finish_setup"}
        <3>1. section' = done \/ section' = [done EXCEPT !.begin = Loading] BY <2>4, <2>9
        <3>2. /\ section' \in Sections /\ ~section'.busy /\ section'.finish = None /\ section'.abandon = None
              /\ section'.listed = section.listed /\ section'.answer = section.answer
            BY <2>2, <3>1 DEF Sections
        <3> QED BY <1>2, <1>4, <2>1, <2>5, <2>6, <2>9, <3>2
    <2> QED BY <2>7, <2>8, <2>9
<1> QED BY <1>3, <1>4

LEMMA BeginsKeep ==
    ASSUME EnrolInv, NEW run \in runs, RunBegins(run) \/ NothingMade(run)
    PROVE  EnrolInv'
<1>1. TypeOK /\ RunsOnce BY DEF EnrolInv
<1>2. run \in Runs BY <1>1 DEF TypeOK
<1>3. run.step \in {"begin", "create"} /\ run.key = None BY <1>1 DEF RunBegins, NothingMade, RunsOnce
<1>4. RunHas(run, None) BY <1>3 DEF RunHas
<1>5. UNCHANGED <<session, sessions, held, posts, visits, removal, unlock, taps, history>>
    BY DEF RunBegins, NothingMade, server
<1>6. ASSUME NEW outcome \in {"failed", "cancelled"}, Ends(run, outcome), UNCHANGED <<salts, pending>>, faults' \in 0..MaxFaults
      PROVE  EnrolInv'
    <2>1. /\ runs' = runs \ {run} /\ begins' \in Nat /\ section' \in Sections \cup {None}
          /\ ~(section # None /\ run.visit = visits) => section' = section
          /\ section # None /\ run.visit = visits =>
                 /\ section' # None /\ ~section'.busy /\ section'.listed \subseteq stored /\ section'.answer \subseteq stored
                 /\ section'.finish = None /\ section'.abandon = None
        BY <1>6, EndsFacts
    <2>2. TypeOK' BY <1>1, <1>5, <1>6, <2>1 DEF TypeOK, history
    <2>3. None \notin made BY <1>1, EnrolmentAssumption DEF TypeOK
    <2> QED BY <1>4, <1>5, <2>1, <2>2, <2>3, RunEnds DEF history
<1>7. CASE NothingMade(run)
    <2>1. Ends(run, "cancelled") /\ UNCHANGED <<salts, pending, faults>> BY <1>7 DEF NothingMade, server
    <2> QED BY <1>1, <1>6, <2>1 DEF TypeOK
<1>8. CASE RunBegins(run)
    <2>1. CASE ((session = 0 /\ UNCHANGED faults) \/ Fault) /\ Ends(run, "failed") /\ UNCHANGED <<salts, pending>>
        <3>1. faults' \in 0..MaxFaults BY <1>1, <2>1, FaultCounts DEF TypeOK
        <3> QED BY <1>6, <2>1, <3>1
    <2>2. ASSUME NEW salt \in Salts, Begin(salt), runs' = (runs \ {run}) \cup {[run EXCEPT !.step = "create", !.salt = salt]},
                 UNCHANGED <<section, begins, faults>>
          PROVE  EnrolInv'
        <3> DEFINE next == [run EXCEPT !.step = "create", !.salt = salt]
        <3>1. next \in Runs /\ next.visit = run.visit /\ next.key = run.key /\ next.step = "create" BY <1>2 DEF Runs
        <3>2. runs' = (runs \ {run}) \cup {next} BY <2>2
        <3> HIDE DEF next
        <3>3. salts' \in 0..MaxSalts /\ pending' \subseteq Salts BY <1>1, <2>2, SaltMade
        <3>4. TypeOK' BY <1>1, <1>5, <2>2, <3>1, <3>2, <3>3 DEF TypeOK, history
        <3> QED BY <1>3, <1>5, <2>2, <3>1, <3>2, <3>4, RunPrepared
    <2> QED BY <1>8, <2>1, <2>2 DEF RunBegins
<1> QED BY <1>7, <1>8

\* A passkey was made, or its PRF result read.
LEMMA MadeKeeps ==
    ASSUME EnrolInv, NEW run \in runs, NEW k \in Passkeys, Created(run, k) \/ (Asserted(run) /\ k = run.key)
    PROVE  EnrolInv'
<1>1. TypeOK /\ PostsOnce /\ RunsOnce BY DEF EnrolInv
<1>2. run \in Runs BY <1>1 DEF TypeOK
<1>3. RunHas(run, k) /\ Unposted(k)
    <2>1. CASE Created(run, k)
        <3>1. run.step = "create" /\ k \notin made BY <2>1 DEF Created
        <3>2. run.key = None BY <1>1, <3>1 DEF RunsOnce
        <3>3. k \notin stored \cup signalled BY <1>1, <3>1 DEF TypeOK
        <3>4. \A p \in posts : p.key # k BY <1>1, <3>1 DEF PostsOnce
        <3> QED BY <3>1, <3>2, <3>3, <3>4 DEF RunHas, Unposted
    <2>2. CASE Asserted(run) /\ k = run.key
        <3>1. run.step = "assert" BY <2>2 DEF Asserted
        <3>2. Unposted(run.key) BY <1>1, <3>1 DEF RunsOnce
        <3> QED BY <2>2, <3>2 DEF RunHas
    <2> QED BY <2>1, <2>2
<1>4. UNCHANGED <<session, sessions, held, pending, salts, visits, removal, unlock, taps, faults, stored, unclear>>
    BY DEF Created, Asserted
<1>5. made' = made \cup {k}
    <2>1. CASE Created(run, k) BY <2>1 DEF Created
    <2>2. CASE Asserted(run) /\ k = run.key
        <3>1. made' = made /\ run.step = "assert" BY <2>2 DEF Asserted
        <3>2. k \in made BY <1>1, <2>2, <3>1, EnrolmentAssumption DEF RunsOnce
        <3> QED BY <3>1, <3>2
    <2> QED BY <2>1, <2>2
<1>6. k # None /\ Unfinished(run) = (IF section # None /\ run.visit = visits THEN {} ELSE {run.key})
    BY EnrolmentAssumption DEF Unfinished
<1>7. ASSUME NEW step \in {"post", "assert"}, Goes(run, step, k), UNCHANGED signalled,
             \/ step = "post" /\ Sends(run, k)
             \/ step = "assert" /\ UNCHANGED posts
      PROVE  EnrolInv'
    <2> DEFINE next == [run EXCEPT !.step = step, !.key = k]
               post == [key |-> k, salt |-> run.salt, at |-> "sent", live |-> 0, code |-> None]
    <2>1. next \in Runs /\ next.visit = run.visit /\ next.key = k /\ next.step = step BY <1>2 DEF Runs
    <2>2. runs' = (runs \ {run}) \cup {next} /\ UNCHANGED <<section, begins>> BY <1>7 DEF Goes
    <2>3. 0 \in 0..(MaxSessions + 1) BY EnrolmentAssumption
    <2>4. post \in Posts /\ post.key = k /\ post.at = "sent" /\ post.code = None BY <1>2, <2>3 DEF Runs, Posts
    <2>5. (step = "post" /\ posts' = posts \cup {post}) \/ (step = "assert" /\ posts' = posts) BY <1>7 DEF Sends
    <2> HIDE DEF next, post
    <2>6. TypeOK' BY <1>1, <1>4, <1>5, <1>7, <2>1, <2>2, <2>4, <2>5 DEF TypeOK
    <2> QED BY <1>3, <1>4, <1>5, <1>7, <2>1, <2>2, <2>4, <2>5, <2>6, RunGoesOn
<1>8. ASSUME NEW outcome \in {"prf_unsupported", "failed"}, Ends(run, outcome), signalled' = signalled \cup {k}, UNCHANGED posts
      PROVE  EnrolInv'
    <2>1. /\ runs' = runs \ {run} /\ begins' \in Nat /\ section' \in Sections \cup {None}
          /\ ~(section # None /\ run.visit = visits) => section' = section
          /\ section # None /\ run.visit = visits =>
                 /\ section' # None /\ ~section'.busy /\ section'.listed \subseteq stored /\ section'.answer \subseteq stored
                 /\ section'.finish = None /\ section'.abandon = None
        BY <1>8, EndsFacts
    <2>2. TypeOK' BY <1>1, <1>4, <1>5, <1>8, <2>1 DEF TypeOK
    <2>3. k \notin stored /\ \A p \in posts : p.key # k BY <1>3 DEF Unposted
    <2> QED BY <1>3, <1>4, <1>5, <1>6, <1>8, <2>1, <2>2, <2>3, RunEnds
<1>9. ASSUME Ends(run, "finish_setup"), Signal(Unfinished(run)), UNCHANGED posts, k = run.key, k \in made
      PROVE  EnrolInv'
    <2>1. /\ runs' = runs \ {run} /\ begins' \in Nat /\ section' \in Sections \cup {None}
          /\ ~(section # None /\ run.visit = visits) => section' = section
          /\ section # None /\ run.visit = visits =>
                 /\ section' # None /\ ~section'.busy /\ section'.listed \subseteq stored /\ section'.answer \subseteq stored
                 /\ section'.finish # None /\ section'.finish.key = run.key /\ section'.abandon = run.key
        BY <1>6, <1>9, EndsFacts
    <2>2. k \notin stored /\ \A p \in posts : p.key # k BY <1>3 DEF Unposted
    <2>3. CASE section # None /\ run.visit = visits
        <3>1. signalled' = signalled BY <1>6, <1>9, <2>3 DEF Signal
        <3>2. TypeOK' BY <1>1, <1>4, <1>5, <1>9, <2>1, <3>1 DEF TypeOK
        <3> QED BY <1>3, <1>4, <1>5, <1>6, <1>9, <2>1, <2>3, <3>1, <3>2, RunEnds
    <2>4. CASE ~(section # None /\ run.visit = visits)
        <3>1. signalled' = signalled \cup {k} BY <1>6, <1>9, <2>4 DEF Signal
        <3>2. TypeOK' BY <1>1, <1>4, <1>5, <1>9, <2>1, <3>1 DEF TypeOK
        <3> QED BY <1>3, <1>4, <1>5, <1>6, <1>9, <2>1, <2>2, <2>4, <3>1, <3>2, RunEnds
    <2> QED BY <2>3, <2>4
<1>10. CASE Created(run, k) BY <1>7, <1>8, <1>10 DEF Created, Signal
<1>11. CASE Asserted(run) /\ k = run.key
    <2>1. k \in made
        <3>1. run.step = "assert" BY <1>11 DEF Asserted
        <3> QED BY <1>1, <1>6, <1>11, <3>1 DEF RunsOnce
    <2> QED BY <1>7, <1>8, <1>9, <1>11, <2>1 DEF Asserted, Signal
<1> QED BY <1>10, <1>11

\* The answer of the POST, or none: what has no clear answer is not hidden.
LEMMA AnswersKeep ==
    ASSUME EnrolInv, NEW run \in runs, PostUnclear(run) \/ (\E p \in posts : PostLands(run, p))
    PROVE  EnrolInv'
<1>1. TypeOK /\ PostsOnce /\ RunsOnce BY DEF EnrolInv
<1> DEFINE k == run.key
<1>2. run.step = "post" BY DEF PostUnclear, PostLands
<1>3. k # None /\ k \in made /\ k \in Passkeys /\ RunHas(run, k) BY <1>1, <1>2 DEF RunsOnce, RunHas, TypeOK
<1>4. ASSUME NEW outcome \in {"added", "expired", "failed"}, Ends(run, outcome), outcome = "added" => k \in stored
      PROVE  /\ runs' = runs \ {run} /\ begins' \in Nat /\ section' \in Sections \cup {None}
             /\ ~(section # None /\ run.visit = visits) => section' = section
             /\ section # None /\ run.visit = visits =>
                    /\ section' # None /\ ~section'.busy /\ section'.listed \subseteq stored /\ section'.answer \subseteq stored
                    /\ section'.finish = None /\ section'.abandon = None
    BY <1>4, EndsFacts
<1>5. CASE PostUnclear(run)
    <2>1. /\ Fault /\ Ends(run, "failed") /\ signalled' = signalled /\ unclear' = unclear \cup {k}
          /\ UNCHANGED <<server, visits, removal, unlock, taps, made, stored>>
        BY <1>5 DEF PostUnclear, Signal, Refuses
    <2>2. faults' \in 0..MaxFaults BY <1>1, <2>1, FaultCounts
    <2>3. /\ runs' = runs \ {run} /\ begins' \in Nat /\ section' \in Sections \cup {None}
          /\ ~(section # None /\ run.visit = visits) => section' = section
          /\ section # None /\ run.visit = visits =>
                 /\ section' # None /\ ~section'.busy /\ section'.listed \subseteq stored /\ section'.answer \subseteq stored
                 /\ section'.finish = None /\ section'.abandon = None
        BY <1>4, <2>1
    <2>4. TypeOK' BY <1>1, <1>3, <2>1, <2>2, <2>3 DEF TypeOK, server
    <2> QED BY <1>3, <2>1, <2>3, <2>4, RunEnds DEF server
<1>6. ASSUME NEW p \in posts, PostLands(run, p) PROVE EnrolInv'
    <2> DEFINE outcome == IF p.code = "added" THEN "added" ELSE IF p.code = "invalid_enrolment" THEN "expired" ELSE "failed"
    <2>1. /\ p.key = k /\ p.at = "answered" /\ posts' = posts \ {p} /\ Ends(run, outcome)
          /\ signalled' = signalled \cup (IF Refuses(p.code) THEN {k} ELSE {})
          /\ unclear' = unclear \cup (IF p.code = "unclear" THEN {k} ELSE {})
          /\ UNCHANGED <<session, sessions, held, pending, salts, visits, removal, unlock, taps, faults, made, stored>>
        BY <1>6 DEF PostLands, Signal
    <2>2. p.code \in Codes BY <1>1, <2>1 DEF PostsOnce, TypeOK, Posts
    <2>3. outcome \in {"added", "expired", "failed"} /\ (outcome = "added" => k \in stored)
        BY <1>1, <2>1 DEF PostsOnce
    <2> HIDE DEF outcome
    <2>4. /\ runs' = runs \ {run} /\ begins' \in Nat /\ section' \in Sections \cup {None}
          /\ ~(section # None /\ run.visit = visits) => section' = section
          /\ section # None /\ run.visit = visits =>
                 /\ section' # None /\ ~section'.busy /\ section'.listed \subseteq stored /\ section'.answer \subseteq stored
                 /\ section'.finish = None /\ section'.abandon = None
        BY <1>4, <2>1, <2>3
    <2>5. \A q \in posts' : q.key # k BY <1>1, <2>1 DEF PostsOnce
    <2>6. Refuses(p.code) => k \notin stored BY <1>1, <2>1 DEF PostsOnce, Refuses
    <2>7. signalled' = signalled
          \/ (k # None /\ signalled' = signalled \cup {k} /\ k \notin stored /\ \A q \in posts' : q.key # k)
        BY <1>3, <2>1, <2>5, <2>6
    <2>8. k \in stored \cup unclear' \cup signalled'
        BY <1>1, <2>1, <2>2 DEF PostsOnce, Codes, Refuses
    <2>9. TypeOK' BY <1>1, <1>3, <2>1, <2>4 DEF TypeOK
    <2> QED BY <1>3, <2>1, <2>4, <2>7, <2>8, <2>9, RunEnds
<1> QED BY <1>5, <1>6

LEMMA RunningKeeps == ASSUME EnrolInv, Running PROVE EnrolInv'
<1>1. TypeOK /\ RunsOnce BY DEF EnrolInv
<1>2. ASSUME NEW run \in runs, RunBegins(run) \/ NothingMade(run) PROVE EnrolInv' BY <1>2, BeginsKeep
<1>3. ASSUME NEW run \in runs, NEW k \in Passkeys, Created(run, k) PROVE EnrolInv' BY <1>3, MadeKeeps
<1>4. ASSUME NEW run \in runs, Asserted(run) PROVE EnrolInv'
    <2>1. run.step = "assert" BY <1>4 DEF Asserted
    <2>2. run.key \in Passkeys BY <1>1, <2>1 DEF RunsOnce, TypeOK
    <2> QED BY <1>4, <2>2, MadeKeeps
<1>5. ASSUME NEW run \in runs, PostUnclear(run) \/ (\E p \in posts : PostLands(run, p)) PROVE EnrolInv'
    BY <1>5, AnswersKeep
<1> QED BY <1>2, <1>3, <1>4, <1>5 DEF Running

-----------------------------------------------------------------------------
(* The theorems.                                                           *)

LEMMA EnrolBegins == ASSUME Init PROVE EnrolInv
<1>1. TypeOK BY EnrolmentAssumption DEF Init, TypeOK
<1>2. PostsOnce /\ RunsOnce /\ SetupWaits BY DEF Init, PostsOnce, RunsOnce, SetupWaits
<1>3. Enrolled /\ HeldIsVisible /\ UnstoredIsHidden BY DEF Init, Enrolled, HeldIsVisible, UnstoredIsHidden
<1> QED BY <1>1, <1>2, <1>3 DEF EnrolInv
LEMMA EnrolContinues == ASSUME EnrolInv, [Next]_vars PROVE EnrolInv'
<1>1. CASE World
    <2>1. CASE Restart BY <2>1, RestartKeeps
    <2>2. CASE ~Restart BY <1>1, <2>2, WorldKeeps DEF World
    <2> QED BY <2>1, <2>2
<1>2. CASE Serving BY <1>2, ServingKeeps
<1>3. CASE Settings
    <2>1. CASE Continue \/ FinishSetup BY <2>1, StartsKeep
    <2>2. CASE ~(Continue \/ FinishSetup) BY <1>3, <2>2, SectionKeeps DEF Settings
    <2> QED BY <2>1, <2>2
<1>4. CASE Running BY <1>4, RunningKeeps
<1>5. CASE Removing BY <1>5, RemovingKeeps
<1>6. CASE Unlocking BY <1>6, UnlockingKeeps
<1>7. CASE UNCHANGED vars
    <2> USE <1>7 DEF vars, server, browser, history
    <2>1. TypeOK' BY DEF EnrolInv, TypeOK
    <2> QED BY <2>1, HeldShrinks
<1> QED BY <1>1, <1>2, <1>3, <1>4, <1>5, <1>6, <1>7 DEF Next

\* A passkey the server holds, and that can unlock, was never one the password
\* manager was asked to hide: settle() only hides what the server's code says it
\* refused (flows.ts:97), and Settings, when it closes, only what no step of run()
\* may still store (PasskeysSection.tsx:147).
THEOREM OnlyUselessIsHidden == Spec => []HeldIsVisible
<1>1. EnrolInv => HeldIsVisible BY DEF EnrolInv
<1> QED BY <1>1, EnrolBegins, EnrolContinues, PTL DEF Spec

\* A passkey that was made and never stored is still being set up, had no clear
\* answer, or was asked to be hidden, whichever screen was closed meanwhile
\* (flows.ts:102, PasskeysSection.tsx:97, 153).
THEOREM NoneLeftBehind == Spec => []UnstoredIsHidden
<1>1. EnrolInv => UnstoredIsHidden BY DEF EnrolInv
<1> QED BY <1>1, EnrolBegins, EnrolContinues, PTL DEF Spec
=============================================================================
