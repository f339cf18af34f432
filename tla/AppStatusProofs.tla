-------------------------- MODULE AppStatusProofs --------------------------
(***************************************************************************)
(* What the app knows of its sign-in (AppStatus), for any passkeys, modes, *)
(* restarts, overlapping reads, sign-ins and unlocks.                      *)
(***************************************************************************)
EXTENDS AppStatus, FiniteSetTheorems, TLAPS

-----------------------------------------------------------------------------
(* The inductive invariant.                                                *)

\* The server counts its changes, and what has come of it is no later than that.
ServerFits ==
    header \in Modes /\ proton \in Protons /\ keys \subseteq Passkeys /\ door \in BOOLEAN /\ waits \in BOOLEAN
    /\ version \in Nat /\ events \in Nat
Told(s) == s # None => s \in Statuses /\ (header => s.unlockAvailable # FALSE)
AppFits ==
    /\ Told(status) /\ shown \in Nat /\ shown <= version
    /\ route \in {"inbox", "settings", "proton-login"} /\ loaded \in BOOLEAN /\ unreachable \in BOOLEAN /\ expired \in BOOLEAN
    /\ watch \in Watched \cup {None}

\* Reads are numbered. The latest, which alone may apply, is of a server that is
\* no older than what the app shows.
ReadsFit ==
    /\ gen \in Nat /\ reads \subseteq Reads
    /\ \A r, s \in reads : r.mine = s.mine => r = s
    /\ \A r \in reads :
         /\ r.mine <= gen
         /\ r.answer # None => /\ Told(r.answer.status) /\ r.answer.version <= version
                              /\ (r.mine = gen => r.answer.version >= shown)

\* A sign-out of signInAgain() is of cookie mode.
SentFits ==
    /\ logins \subseteq Logins /\ logouts \subseteq Logouts
    /\ \A l \in logins \cup logouts : l.answer # None => l.answer.version <= version
    /\ PasskeysSurviveSignIn

\* The banner has no salts from before its last refusal, and the fetch that may
\* still fill them was answered after it. A prompt that is waited for has its banner.
PanelFits ==
    /\ banner \in Banners \cup {None} /\ fetches \subseteq Fetches /\ unlocks \subseteq Unlocks
    /\ banner = None => fetches = {}
    /\ banner # None => /\ banner.refusedAt <= version
                        /\ banner.prepared # None => banner.prepared.version >= banner.refusedAt
    /\ \A f \in fetches :
         /\ f.generation <= banner.generation
         /\ f.answer # None /\ f.generation = banner.generation => f.answer.version >= banner.refusedAt
    /\ \A u \in unlocks :
         /\ u.tap <= events /\ (u.here => banner # None)
         /\ u.answer # None => Told(u.answer.status) /\ u.answer.version <= version

\* Before its first answer the app shows nothing, and has only its first read.
Opening == ~loaded \/ unreachable
FirstAlone ==
    /\ Opening => /\ status = None /\ shown = 0 /\ watch = None /\ banner = None /\ fetches = {} /\ unlocks = {}
                  /\ logins = {} /\ logouts = {} /\ \A r, s \in reads : r.kind = "first" /\ r = s
    /\ \A r \in reads : r.kind = "first" => Opening

AppInv == ServerFits /\ AppFits /\ ReadsFit /\ SentFits /\ PanelFits /\ FirstAlone

-----------------------------------------------------------------------------
(* What rests while something else moves.                                  *)

LEMMA KeyCount == ASSUME NEW ks \in SUBSET Passkeys PROVE Cardinality(ks) \in 0..Cardinality(Passkeys)
<1>1. Cardinality(ks) <= Cardinality(Passkeys) /\ IsFiniteSet(ks) BY FS_Subset, AppStatusAssumption
<1>2. Cardinality(ks) \in Nat /\ Cardinality(Passkeys) \in Nat BY <1>1, FS_CardinalityType, AppStatusAssumption
<1> QED BY <1>1, <1>2

\* What the server says of itself.
LEMMA NowIsTold == ASSUME ServerFits PROVE Told(StatusNow) /\ StatusNow \in Statuses \cup {None}
<1>1. Cardinality(keys) \in 0..Cardinality(Passkeys) BY KeyCount DEF ServerFits
<1>2. header \in BOOLEAN /\ proton \in Protons BY AppStatusAssumption DEF ServerFits
<1>3. CASE door
    <2>1. StatusNow = [proton |-> proton, passkeys |-> Cardinality(keys), unlockAvailable |-> header] BY <1>3 DEF StatusNow
    <2> QED BY <1>1, <1>2, <2>1 DEF Told, Statuses
<1>4. CASE ~door BY <1>4 DEF StatusNow, Told
<1> QED BY <1>3, <1>4

LEMMA EventCounts == ASSUME ServerFits, Event PROVE events' \in Nat /\ events <= events'
BY DEF ServerFits, Event
LEMMA Becoming ==
    ASSUME ServerFits, NEW p \in Protons, NEW ks \in SUBSET Passkeys, NEW d \in BOOLEAN, Becomes(p, ks, d),
           header' = header, events' \in Nat
    PROVE  ServerFits' /\ version <= version'
BY DEF ServerFits, Becomes

\* Time passes for the server: its version and the count of events only grow.
Passes == ServerFits /\ ServerFits' /\ header' = header /\ version <= version' /\ events <= events'
LEMMA ServerRests == ASSUME ServerFits, UNCHANGED server, UNCHANGED events \/ Event PROVE Passes
<1>1. events' \in Nat /\ events <= events' BY EventCounts DEF ServerFits
<1> QED BY <1>1 DEF Passes, ServerFits, server
LEMMA StillTold == ASSUME Passes, NEW s PROVE Told(s)' <=> Told(s)
BY DEF Passes, Told

LEMMA AppRests == ASSUME AppFits, Passes, UNCHANGED <<app, watch>> PROVE AppFits'
<1>1. version \in Nat /\ version' \in Nat /\ version <= version' BY DEF Passes, ServerFits
<1>2. Told(status)' BY DEF AppFits, Passes, Told, app
<1>3. shown' \in Nat /\ shown' <= version' BY <1>1 DEF AppFits, app
<1> QED BY <1>2, <1>3 DEF AppFits, app
LEMMA SentRests == ASSUME SentFits, Passes, UNCHANGED sent PROVE SentFits'
<1>1. version \in Nat /\ version' \in Nat /\ version <= version' /\ header' = header BY DEF Passes, ServerFits
<1>2. ASSUME NEW l \in logins \cup logouts, l.answer # None PROVE l.answer.version <= version'
    <2>1. l.answer \in Heard BY <1>2 DEF SentFits, Logins, Logouts
    <2>2. l.answer.version \in Nat /\ l.answer.version <= version BY <1>2, <2>1 DEF SentFits, Heard
    <2> QED BY <1>1, <2>2
<1> QED BY <1>1, <1>2 DEF SentFits, PasskeysSurviveSignIn, sent
LEMMA PanelRests == ASSUME PanelFits, Passes, UNCHANGED panel PROVE PanelFits'
<1>1. version \in Nat /\ version' \in Nat /\ version <= version' /\ events \in Nat /\ events' \in Nat /\ events <= events'
    BY DEF Passes, ServerFits
<1>2. banner # None => banner.refusedAt <= version'
    <2>1. banner # None => banner.refusedAt \in Nat BY DEF PanelFits, Banners
    <2> QED BY <1>1, <2>1 DEF PanelFits
<1>3. ASSUME NEW u \in unlocks
      PROVE  u.tap <= events' /\ (u.answer # None => Told(u.answer.status)' /\ u.answer.version <= version')
    <2>1. u.tap \in Nat /\ u.answer \in Opened \cup {None} BY DEF PanelFits, Unlocks
    <2>2. u.tap <= events' BY <1>1, <2>1 DEF PanelFits
    <2>3. ASSUME u.answer # None PROVE Told(u.answer.status)' /\ u.answer.version <= version'
        <3>1. u.answer.version \in Nat BY <2>1, <2>3 DEF Opened
        <3>2. Told(u.answer.status) /\ u.answer.version <= version BY <2>3 DEF PanelFits
        <3>3. version \in Nat /\ version' \in Nat /\ version <= version' BY DEF Passes, ServerFits
        <3>4. u.answer.version <= version' BY <3>1, <3>2, <3>3
        <3>5. Told(u.answer.status)' BY <3>2 DEF Passes, Told
        <3> QED BY <3>1, <3>4, <3>5
    <2> QED BY <2>2, <2>3
<1> QED BY <1>2, <1>3 DEF PanelFits, panel

\* Reads that go on, end, or begin with a number of their own. The one that is now
\* the latest has no answer yet, unless the app shows what it did.
LEMMA ReadsFollow ==
    ASSUME ReadsFit, Passes, shown \in Nat, gen' \in Nat, gen <= gen',
           \/ reads' \subseteq reads
           \/ \E new \in Reads : reads' \subseteq reads \cup {new} /\ new.mine = gen' /\ gen < gen' /\ new.answer = None,
           shown' = shown \/ gen < gen' \/ \A r \in reads' : r.mine # gen
    PROVE  ReadsFit'
<1>1. version \in Nat /\ version' \in Nat /\ version <= version' /\ gen \in Nat BY DEF Passes, ServerFits, ReadsFit
<1>2. ASSUME NEW r \in reads
      PROVE  /\ r \in Reads /\ r.mine \in Nat /\ r.mine <= gen
             /\ r.answer # None => Told(r.answer.status)' /\ r.answer.version <= version' /\ r.answer.version \in Nat
    <2>1. r \in Reads /\ r.mine \in Nat /\ r.mine <= gen BY DEF ReadsFit, Reads
    <2>2. ASSUME r.answer # None PROVE Told(r.answer.status)' /\ r.answer.version <= version' /\ r.answer.version \in Nat
        <3>1. r.answer.version \in Nat BY <2>1, <2>2 DEF Reads, Answered
        <3>2. Told(r.answer.status) /\ r.answer.version <= version BY <2>2 DEF ReadsFit
        <3>3. version \in Nat /\ version' \in Nat /\ version <= version' BY DEF Passes, ServerFits
        <3>4. r.answer.version <= version' BY <3>1, <3>2, <3>3
        <3>5. Told(r.answer.status)' BY <3>2 DEF Passes, Told
        <3> QED BY <3>1, <3>4, <3>5
    <2> QED BY <2>1, <2>2
<1>3. ASSUME NEW r \in reads'
      PROVE  \/ r \in reads
             \/ r \in Reads /\ r.mine = gen' /\ gen < gen' /\ r.answer = None
                /\ \A s \in reads' : s \in reads \/ s = r
    BY <1>3
<1>4. reads' \subseteq Reads BY <1>2, <1>3
<1>5. ASSUME NEW r \in reads', NEW s \in reads', r.mine = s.mine PROVE r = s
    <2>1. CASE r \in reads /\ s \in reads BY <1>5, <2>1 DEF ReadsFit
    <2>2. CASE r \notin reads
        <3>1. r.mine = gen' /\ gen < gen' /\ (s \in reads \/ s = r) BY <1>3, <2>2
        <3>2. s \in reads => s.mine <= gen /\ s.mine \in Nat BY <1>2
        <3> QED BY <1>1, <1>5, <3>1, <3>2
    <2>3. CASE s \notin reads
        <3>1. s.mine = gen' /\ gen < gen' /\ (r \in reads \/ s = r) BY <1>3, <2>3
        <3>2. r \in reads => r.mine <= gen /\ r.mine \in Nat BY <1>2
        <3> QED BY <1>1, <1>5, <3>1, <3>2
    <2> QED BY <2>1, <2>2, <2>3
<1>6. ASSUME NEW r \in reads'
      PROVE  /\ r.mine <= gen'
             /\ r.answer # None => /\ Told(r.answer.status)' /\ r.answer.version <= version'
                                  /\ (r.mine = gen' => r.answer.version >= shown')
    <2>1. CASE r \in reads
        <3>1. r.mine <= gen' BY <1>1, <1>2, <2>1
        <3>2. ASSUME r.answer # None, r.mine = gen' PROVE r.answer.version >= shown'
            <4>1. r.mine = gen /\ ~(gen < gen') BY <1>1, <1>2, <2>1, <3>2
            <4>2. shown' = shown BY <4>1
            <4> QED BY <2>1, <3>2, <4>1, <4>2 DEF ReadsFit
        <3> QED BY <1>2, <2>1, <3>1, <3>2
    <2>2. CASE r \notin reads BY <1>1, <1>3, <2>2
    <2> QED BY <2>1, <2>2
<1> QED BY <1>4, <1>5, <1>6 DEF ReadsFit

\* A app that has had its first answer goes on.
LEMMA FirstRests ==
    ASSUME FirstAlone, ~Opening, UNCHANGED <<loaded, unreachable>>, \A r \in reads' : r \in reads \/ r.kind # "first"
    PROVE  FirstAlone'
BY DEF FirstAlone, Opening
LEMMA NotOpening ==
    ASSUME FirstAlone,
           \/ Ready \/ watch # None \/ banner # None \/ fetches # {} \/ unlocks # {} \/ logins # {} \/ logouts # {}
           \/ \E r \in reads : r.kind # "first"
    PROVE  ~Opening
BY DEF FirstAlone, Opening, Ready

-----------------------------------------------------------------------------
(* The server changes.                                                     *)

LEMMA WorldMoves ==
    ASSUME AppInv, ServerFits', header' = header, version <= version', events <= events',
           UNCHANGED <<app, gen, reads, watch, panel, sent>>
    PROVE  AppInv'
<1>1. Passes BY DEF AppInv, Passes
<1>2. AppFits' /\ SentFits' /\ PanelFits' BY <1>1, AppRests, SentRests, PanelRests DEF AppInv
<1>3. ReadsFit'
    <2>1. shown \in Nat /\ gen \in Nat BY DEF AppInv, AppFits, ReadsFit
    <2>2. gen <= gen' /\ reads' \subseteq reads /\ shown' = shown BY <2>1 DEF app
    <2> QED BY <1>1, <2>1, <2>2, ReadsFollow DEF AppInv
<1>4. FirstAlone' BY DEF AppInv, FirstAlone, Opening, app, panel, sent
<1> QED BY <1>2, <1>3, <1>4 DEF AppInv
LEMMA ChangeKeeps ==
    ASSUME AppInv, NEW p \in Protons, NEW ks \in SUBSET Passkeys, NEW d \in BOOLEAN, Change(p, ks, d)
    PROVE  AppInv'
<1>1. Becomes(p, ks, d) /\ Event /\ UNCHANGED <<header, app, gen, reads, watch, panel, sent>> BY DEF Change
<1>2. ServerFits BY DEF AppInv
<1>3. events' \in Nat /\ events <= events' BY <1>1, <1>2, EventCounts
<1>4. ServerFits' /\ version <= version' BY <1>1, <1>2, <1>3, Becoming
<1> QED BY <1>1, <1>3, <1>4, WorldMoves
LEMMA ServerKeeps == ASSUME AppInv, ServerChanges PROVE AppInv'
<1>1. ServerFits /\ header \in BOOLEAN /\ proton \in Protons /\ keys \subseteq Passkeys /\ door \in BOOLEAN
    BY AppStatusAssumption DEF AppInv, ServerFits
<1>2. {"live", "locked", "none"} = Protons BY DEF Protons
<1>3. CASE Restart
    <2>1. (IF proton = "live" THEN "locked" ELSE proton) \in Protons /\ (door /\ header) \in BOOLEAN BY <1>1, <1>2
    <2> QED BY <1>1, <1>3, <2>1, ChangeKeeps DEF Restart
<1>4. CASE ProxySignInEnds \/ ProxySignIn
    BY <1>1, <1>4, ChangeKeeps DEF ProxySignInEnds, ProxySignIn
<1>5. CASE SignedInElsewhere
    <2>1. PICK ks \in {keys, {}} : Change("live", ks, door) BY <1>5 DEF SignedInElsewhere
    <2>2. ks \in SUBSET Passkeys /\ "live" \in Protons BY <1>1, <1>2
    <2> QED BY <1>1, <2>1, <2>2, ChangeKeeps
<1>6. CASE SignedOutElsewhere
    <2>1. {} \in SUBSET Passkeys /\ "none" \in Protons BY <1>2
    <2>2. PICK d \in BOOLEAN : Change("none", {}, d) BY <1>1, <1>6 DEF SignedOutElsewhere
    <2> QED BY <2>1, <2>2, ChangeKeeps
<1>7. CASE ProtonEnds
    <2>1. "none" \in Protons /\ keys \in SUBSET Passkeys BY <1>1, <1>2
    <2> QED BY <1>1, <1>7, <2>1, ChangeKeeps DEF ProtonEnds
<1>8. ASSUME NEW k \in Passkeys, KeyAddedElsewhere(k) \/ KeyRemovedElsewhere(k) PROVE AppInv'
    <2>1. keys \cup {k} \in SUBSET Passkeys /\ keys \ {k} \in SUBSET Passkeys BY <1>1
    <2> QED BY <1>1, <1>8, <2>1, ChangeKeeps DEF KeyAddedElsewhere, KeyRemovedElsewhere
<1>9. CASE DocumentWaits
    <2>1. waits' = TRUE /\ Event /\ UNCHANGED <<header, proton, keys, door, version, app, gen, reads, watch, panel, sent>>
        BY <1>9 DEF DocumentWaits
    <2>2. events' \in Nat /\ events <= events' BY <1>1, <2>1, EventCounts
    <2>3. ServerFits' /\ version <= version' BY <1>1, <2>1, <2>2 DEF ServerFits
    <2> QED BY <2>1, <2>2, <2>3, WorldMoves
<1> QED BY <1>3, <1>4, <1>5, <1>6, <1>7, <1>8, <1>9 DEF ServerChanges

-----------------------------------------------------------------------------
(* What the app shows, and what is mounted with it.                        *)

\* The banner comes, goes, or fetches once more, with the status.
LEMMA BannerKeeps ==
    ASSUME PanelFits, Passes, version' = version, NEW s, Told(s), NEW r, NEW us \in SUBSET unlocks, BannerFollows(s, r, us)
    PROVE  PanelFits'
<1> DEFINE n == s.passkeys
<1>1. version \in Nat /\ events \in Nat /\ events' \in Nat /\ events <= events' /\ 0 <= version
    BY DEF Passes, ServerFits
<1>2. ASSUME NEW u \in us
      PROVE  /\ u \in Unlocks /\ u.tap <= events' /\ (u.here => banner # None)
             /\ u.answer # None => Told(u.answer.status)' /\ u.answer.version <= version'
    <2>1. u \in Unlocks /\ u.tap \in Nat BY DEF PanelFits, Unlocks
    <2>2. u.tap <= events /\ (u.here => banner # None) /\ (u.answer # None => Told(u.answer.status) /\ u.answer.version <= version)
        BY DEF PanelFits
    <2>3. u.tap <= events' BY <1>1, <2>1, <2>2
    <2>4. u.answer # None => Told(u.answer.status)' BY <2>2 DEF Passes, Told
    <2> QED BY <2>1, <2>2, <2>3, <2>4
<1>3. Locked(s, r) => n \in Nat
    <2>1. Locked(s, r) => s \in Statuses BY DEF Locked, Email, Told
    <2>2. Cardinality(Passkeys) \in Nat BY KeyCount, FS_CardinalityType, AppStatusAssumption
    <2> QED BY <2>1, <2>2 DEF Statuses
<1>4. CASE ~Locked(s, r)
    <2> DEFINE Away(u) == [u EXCEPT !.here = FALSE]
    <2>1. banner' = None /\ fetches' = {} /\ unlocks' = {Away(u) : u \in us} BY <1>4 DEF BannerFollows
    <2>2. ASSUME NEW u \in us
          PROVE  Away(u) \in Unlocks /\ Away(u).tap = u.tap /\ ~Away(u).here /\ Away(u).answer = u.answer
        BY <1>2 DEF Unlocks
    <2> HIDE DEF Away
    <2>3. ASSUME NEW o \in unlocks'
          PROVE  /\ o \in Unlocks /\ o.tap <= events' /\ (o.here => banner' # None)
                 /\ o.answer # None => Told(o.answer.status)' /\ o.answer.version <= version'
        <3>1. PICK u \in us : o = Away(u) BY <2>1
        <3>2. o \in Unlocks /\ o.tap = u.tap /\ ~o.here /\ o.answer = u.answer BY <2>2, <3>1
        <3>3. u.tap <= events' /\ (u.answer # None => Told(u.answer.status)' /\ u.answer.version <= version') BY <1>2
        <3>4. o.answer # None => Told(o.answer.status)' BY <3>2, <3>3 DEF Told
        <3> QED BY <3>2, <3>3, <3>4
    <2> QED BY <2>1, <2>3 DEF PanelFits
<1>5. CASE Locked(s, r) /\ banner = None
    <2>1. banner' = NewBanner(n) /\ fetches' = (IF n > 0 THEN {Fetching(1)} ELSE {}) /\ unlocks' = us
        BY <1>5 DEF BannerFollows
    <2>2. n \in Nat BY <1>3, <1>5
    <2>3. banner' \in Banners /\ banner'.prepared = None /\ banner'.refusedAt = 0 /\ (n > 0 => banner'.generation = 1)
        BY <2>1, <2>2 DEF NewBanner, Banners
    <2>4. Fetching(1) \in Fetches /\ Fetching(1).generation = 1 /\ Fetching(1).answer = None BY DEF Fetching, Fetches
    <2>5. banner' # None BY <2>3, NoneAssumption
    <2>6. \A f \in fetches' : f \in Fetches /\ f.generation <= banner'.generation /\ f.answer = None BY <2>1, <2>3, <2>4
    <2>7. banner'.refusedAt <= version' BY <1>1, <2>3
    <2> QED BY <1>2, <2>1, <2>3, <2>5, <2>6, <2>7 DEF PanelFits
<1>6. CASE Locked(s, r) /\ banner # None /\ (n = banner.passkeys \/ n = 0)
    <2>1. banner' = [banner EXCEPT !.passkeys = n] /\ UNCHANGED fetches /\ unlocks' = us
        BY <1>6 DEF BannerFollows
    <2>2. n \in Nat /\ banner \in Banners BY <1>3, <1>6 DEF PanelFits
    <2>3. /\ banner' \in Banners /\ banner'.prepared = banner.prepared /\ banner'.refusedAt = banner.refusedAt
          /\ banner'.generation = banner.generation
        BY <2>1, <2>2 DEF Banners
    <2>4. banner' # None BY <2>3, NoneAssumption
    <2>5. fetches \subseteq Fetches
          /\ \A f \in fetches : /\ f.generation <= banner'.generation
                               /\ f.answer # None /\ f.generation = banner'.generation => f.answer.version >= banner'.refusedAt
        BY <2>3 DEF PanelFits
    <2>6. /\ banner'.refusedAt <= version'
          /\ banner'.prepared # None => banner'.prepared.version >= banner'.refusedAt
        BY <1>6, <2>3 DEF PanelFits
    <2> QED BY <1>2, <1>6, <2>1, <2>3, <2>4, <2>5, <2>6 DEF PanelFits
<1>7. CASE Locked(s, r) /\ banner # None /\ ~(n = banner.passkeys \/ n = 0)
    <2>1. /\ banner' = [banner EXCEPT !.passkeys = n, !.generation = @ + 1, !.prepared = None, !.preparing = TRUE]
          /\ fetches' = fetches \cup {Fetching(banner.generation + 1)} /\ unlocks' = us
        BY <1>7 DEF BannerFollows
    <2>2. n \in Nat /\ banner \in Banners BY <1>3, <1>7 DEF PanelFits
    <2> DEFINE g == banner.generation + 1
    <2>2a. banner.generation \in Nat /\ g \in Nat /\ g = banner.generation + 1 BY <2>2 DEF Banners
    <2>2b. banner' = [banner EXCEPT !.passkeys = n, !.generation = g, !.prepared = None, !.preparing = TRUE] BY <2>1
    <2>3. /\ banner' \in Banners /\ banner'.prepared = None /\ banner'.refusedAt = banner.refusedAt
          /\ banner'.generation = g
        <3> HIDE DEF g, n
        <3> QED BY <2>2, <2>2b, <2>2a DEF Banners
    <2>4. banner' # None BY <2>3, NoneAssumption
    <2> DEFINE new == Fetching(banner.generation + 1)
    <2>5. new \in Fetches /\ new.generation = banner'.generation /\ new.answer = None BY <2>3, <2>2a DEF Fetching, Fetches
    <2>6. fetches' = fetches \cup {new} BY <2>1
    <2> HIDE DEF new
    <2>7. \A f \in fetches : f \in Fetches /\ f.generation \in Nat /\ f.generation <= banner.generation BY DEF PanelFits, Fetches
    <2>8. \A f \in fetches : f.generation <= banner'.generation /\ f.generation # banner'.generation BY <2>3, <2>7, <2>2a
    <2>9. \A f \in fetches' : /\ f \in Fetches /\ f.generation <= banner'.generation
                            /\ ~(f.answer # None /\ f.generation = banner'.generation)
        <3>1. banner'.generation <= banner'.generation BY <2>3, <2>2a
        <3> QED BY <2>5, <2>6, <2>7, <2>8, <3>1
    <2>10. banner'.refusedAt <= version' BY <1>7, <2>3 DEF PanelFits
    <2>11. banner'.prepared = None /\ unlocks' = us /\ banner' \in Banners BY <2>1, <2>3
    <2>12. ASSUME NEW u \in unlocks'
           PROVE  /\ u \in Unlocks /\ u.tap <= events' /\ (u.here => banner' # None)
                  /\ u.answer # None => Told(u.answer.status)' /\ u.answer.version <= version'
        BY <1>2, <2>4, <2>11
    <2> QED BY <2>4, <2>9, <2>10, <2>11, <2>12 DEF PanelFits
<1> QED BY <1>4, <1>5, <1>6, <1>7

Routes == {"inbox", "settings", "proton-login"}
LEMMA ShowFits ==
    ASSUME AppInv, Passes, version' = version, NEW s, Told(s), NEW v \in Nat, v <= version, NEW r \in Routes,
           NEW us \in SUBSET unlocks, NEW w \in Watched \cup {None}, Show(s, v, r, us, w),
           loaded' \in BOOLEAN, unreachable' \in BOOLEAN, expired' \in BOOLEAN
    PROVE  AppFits' /\ PanelFits'
<1>1. PanelFits' BY BannerKeeps DEF Show, AppInv
<1>2. status' = s /\ shown' = v /\ route' = r /\ Watching(s, w) BY DEF Show
<1>3. watch' \in Watched \cup {None}
    <2>1. NewWatch \in Watched BY DEF NewWatch, Watched
    <2> QED BY <1>2, <2>1 DEF Watching
<1>4. Told(status)' BY <1>2 DEF Told, Passes
<1> QED BY <1>1, <1>2, <1>3, <1>4 DEF AppFits, Routes

\* What may become of the reads while the app shows something.
ReadsGo ==
    /\ gen' \in Nat /\ gen <= gen'
    /\ \/ reads' \subseteq reads
       \/ \E new \in Reads : /\ reads' \subseteq reads \cup {new} /\ new.mine = gen' /\ gen < gen' /\ new.answer = None
                           /\ new.kind # "first"
LEMMA ShowKeeps ==
    ASSUME AppInv, ~Opening, Passes, version' = version, NEW s, Told(s), NEW v \in Nat, v <= version, NEW r \in Routes,
           NEW us \in SUBSET unlocks, NEW w \in Watched \cup {None}, Show(s, v, r, us, w),
           UNCHANGED <<loaded, unreachable>>, expired' \in BOOLEAN, SentFits', ReadsGo,
           shown' = shown \/ gen < gen' \/ \A q \in reads' : q.mine # gen
    PROVE  AppInv'
<1>1. loaded' \in BOOLEAN /\ unreachable' \in BOOLEAN /\ shown \in Nat BY DEF AppInv, AppFits
<1>2. AppFits' /\ PanelFits' BY <1>1, ShowFits
<1>3. ReadsFit' BY <1>1, ReadsFollow DEF AppInv, ReadsGo
<1>4. FirstAlone' BY FirstRests DEF AppInv, ReadsGo
<1> QED BY <1>2, <1>3, <1>4 DEF AppInv, Passes
\* The same for a step after which the app shows what it did.
LEMMA StepKeeps ==
    ASSUME AppInv, ~Opening, Passes, UNCHANGED app, watch' \in Watched \cup {None}, SentFits', PanelFits', ReadsGo
    PROVE  AppInv'
<1>1. shown \in Nat /\ shown' = shown BY DEF AppInv, AppFits, app
<1>2. AppFits'
    <2>1. version \in Nat /\ version' \in Nat /\ version <= version' BY DEF Passes, ServerFits
    <2>2. Told(status)' BY DEF AppInv, AppFits, Passes, Told, app
    <2>3. shown' <= version' BY <1>1, <2>1 DEF AppInv, AppFits
    <2> QED BY <1>1, <2>2, <2>3 DEF AppInv, AppFits, app
<1>3. ReadsFit' BY <1>1, ReadsFollow DEF AppInv, ReadsGo
<1>4. FirstAlone' BY FirstRests DEF AppInv, ReadsGo, app
<1> QED BY <1>2, <1>3, <1>4 DEF AppInv, Passes

LEMMA ReadsRest == ASSUME ReadsFit, gen' = gen, reads' \subseteq reads PROVE ReadsGo
BY DEF ReadsFit, ReadsGo
LEMMA ReadStarts == ASSUME ReadsFit, NEW kind \in {"refresh", "again"}, StartRead(kind) PROVE ReadsGo /\ gen < gen'
<1> DEFINE new == [mine |-> gen + 1, kind |-> kind, answer |-> None]
<1>1. gen \in Nat /\ gen' = gen + 1 /\ reads' = reads \cup {new} BY DEF StartRead, ReadsFit
<1>2. new \in Reads /\ new.mine = gen' /\ new.answer = None /\ new.kind # "first" BY <1>1 DEF Reads
<1> HIDE DEF new
<1> QED BY <1>1, <1>2 DEF ReadsGo

-----------------------------------------------------------------------------
(* The reads.                                                              *)

\* A read is answered with the server as it is, which is no older than what the
\* app shows.
LEMMA ReplyKeeps == ASSUME AppInv, NEW r \in reads, Reply(r) PROVE AppInv'
<1>1. ServerFits /\ AppFits /\ ReadsFit /\ SentFits /\ PanelFits /\ FirstAlone BY DEF AppInv
<1>2. /\ UNCHANGED <<server, app, gen, watch, panel, sent>> /\ (UNCHANGED events \/ Event)
      /\ r.answer = None
    BY DEF Reply
<1>3. PICK a \in Answered : /\ reads' = (reads \ {r}) \cup {[r EXCEPT !.answer = a]}
                            /\ Told(a.status) /\ a.version = version
    <2>1. Told(StatusNow) /\ StatusNow \in Statuses \cup {None} /\ version \in Nat BY <1>1, NowIsTold DEF ServerFits
    <2> DEFINE yes == [ok |-> TRUE, status |-> StatusNow, version |-> version]
               no  == [ok |-> FALSE, status |-> None, version |-> version]
    <2>2. yes \in Answered /\ Told(yes.status) /\ yes.version = version BY <2>1 DEF Answered
    <2>3. no \in Answered /\ Told(no.status) /\ no.version = version BY <2>1 DEF Answered, Told
    <2>4. \/ reads' = (reads \ {r}) \cup {[r EXCEPT !.answer = yes]}
          \/ reads' = (reads \ {r}) \cup {[r EXCEPT !.answer = no]}
        BY DEF Reply
    <2> HIDE DEF yes, no
    <2> QED BY <2>2, <2>3, <2>4
<1> DEFINE q == [r EXCEPT !.answer = a]
<1>4. q \in Reads /\ q.mine = r.mine /\ q.kind = r.kind /\ q.answer = a
    <2>1. r \in Reads BY <1>1 DEF ReadsFit
    <2> QED BY <2>1 DEF Reads
<1>5. reads' = (reads \ {r}) \cup {q} BY <1>3
<1> HIDE DEF q
<1>6. Passes BY <1>1, <1>2, ServerRests
<1>7. AppFits' /\ SentFits' /\ PanelFits' BY <1>1, <1>2, <1>6, AppRests, SentRests, PanelRests
<1>8. ReadsFit'
    <2>1. reads' \subseteq Reads BY <1>1, <1>4, <1>5 DEF ReadsFit
    <2>2. \A x, y \in reads' : x.mine = y.mine => x = y BY <1>1, <1>4, <1>5 DEF ReadsFit
    <2>3. header' = header /\ version' = version /\ shown' = shown /\ gen' = gen BY <1>2 DEF server, app
    <2>4. version >= shown BY <1>1 DEF AppFits, ServerFits
    <2>5. ASSUME NEW x \in reads'
          PROVE  /\ x.mine <= gen
                 /\ x.answer # None => /\ Told(x.answer.status)' /\ x.answer.version <= version
                                      /\ (x.mine = gen => x.answer.version >= shown)
        <3>1. CASE x \in reads BY <1>1, <2>3, <3>1 DEF ReadsFit, Told
        <3>2. CASE x = q
            <4>1. q.mine <= gen BY <1>1, <1>4 DEF ReadsFit
            <4>2. Told(a.status)' BY <1>3, <2>3 DEF Told
            <4>3. version <= version BY <1>1 DEF ServerFits
            <4> QED BY <1>3, <1>4, <2>4, <3>2, <4>1, <4>2, <4>3
        <3> QED BY <1>5, <3>1, <3>2
    <2> QED BY <1>1, <2>1, <2>2, <2>3, <2>5 DEF ReadsFit
<1>9. FirstAlone' BY <1>1, <1>2, <1>4, <1>5 DEF FirstAlone, Opening, app, panel, sent
<1> QED BY <1>6, <1>7, <1>8, <1>9 DEF AppInv, Passes

\* The first read has the app for itself: nothing is shown that it could undo.
LEMMA FirstKeeps == ASSUME AppInv, NEW r \in reads, FirstLands(r) PROVE AppInv'
<1>1. ServerFits /\ AppFits /\ ReadsFit /\ SentFits /\ PanelFits /\ FirstAlone BY DEF AppInv
<1>2. /\ r.answer # None /\ r.kind = "first" /\ reads' = reads \ {r} /\ loaded' = TRUE /\ unreachable' = ~r.answer.ok
      /\ UNCHANGED <<server, expired, gen, sent, events>>
    BY DEF FirstLands
<1>3. Opening /\ reads' = {} /\ shown = 0 /\ banner = None /\ unlocks = {} /\ logins = {} /\ logouts = {}
      /\ status = None /\ watch = None /\ fetches = {}
    BY <1>1, <1>2 DEF FirstAlone
<1>4. r.answer \in Answered /\ Told(r.answer.status) /\ r.answer.version <= version BY <1>1, <1>2 DEF ReadsFit, Reads
<1>5. r.answer.version \in Nat /\ r.answer.ok \in BOOLEAN BY <1>4 DEF Answered
<1>6. Passes BY <1>1, <1>2, ServerRests
<1>7. SentFits' BY <1>1, <1>2, <1>6, SentRests
<1>8. ReadsFit'
    <2>1. gen \in Nat /\ gen' = gen BY <1>1, <1>2 DEF ReadsFit
    <2> QED BY <1>3, <2>1 DEF ReadsFit
<1>9. CASE r.answer.ok
    <2>1. Show(r.answer.status, r.answer.version, route, unlocks, watch) BY <1>9 DEF FirstLands
    <2>2. route \in Routes /\ watch \in Watched \cup {None} /\ expired' \in BOOLEAN BY <1>1, <1>2 DEF AppFits, Routes
    <2>3. loaded' \in BOOLEAN /\ unreachable' \in BOOLEAN /\ version' = version BY <1>2, <1>5 DEF server
    <2>4. AppFits' /\ PanelFits' BY <1>4, <1>5, <1>6, <2>1, <2>2, <2>3, ShowFits
    <2>5. FirstAlone' BY <1>2, <1>3, <1>9 DEF FirstAlone, Opening
    <2> QED BY <1>6, <1>7, <1>8, <2>4, <2>5 DEF AppInv, Passes
<1>10. CASE ~r.answer.ok
    <2>1. UNCHANGED <<status, shown, route, watch, panel>> BY <1>10 DEF FirstLands
    <2>2. PanelFits' BY <1>1, <1>6, <2>1, PanelRests
    <2>3. AppFits'
        <3>1. Told(status)' /\ loaded' \in BOOLEAN /\ unreachable' \in BOOLEAN BY <1>2, <1>3, <1>5, <2>1 DEF Told
        <3> QED BY <1>1, <1>2, <2>1, <3>1 DEF AppFits, server
    <2>4. FirstAlone' BY <1>2, <1>3, <2>1 DEF FirstAlone, panel, sent
    <2> QED BY <1>6, <1>7, <1>8, <2>2, <2>3, <2>4 DEF AppInv, Passes
<1> QED BY <1>5, <1>9, <1>10
LEMMA RetryKeeps == ASSUME AppInv, Retry PROVE AppInv'
<1>1. ServerFits /\ AppFits /\ ReadsFit /\ SentFits /\ PanelFits /\ FirstAlone BY DEF AppInv
<1>2. Opening /\ reads = {} BY <1>1 DEF Retry, Opening, FirstAlone
<1>3. UNCHANGED <<server, app, watch, panel, sent, events>> BY DEF Retry
<1>4. Passes BY <1>1, <1>3, ServerRests
<1> DEFINE new == [mine |-> gen + 1, kind |-> "first", answer |-> None]
<1>5. gen' = gen + 1 /\ reads' = {new} BY <1>2 DEF Retry, StartRead
<1>6. gen \in Nat /\ shown \in Nat BY <1>1 DEF ReadsFit, AppFits
<1>7. new \in Reads /\ new.mine = gen + 1 /\ new.answer = None /\ new.kind = "first" BY <1>6 DEF Reads
<1> HIDE DEF new
<1>8. ReadsFit' BY <1>1, <1>4, <1>5, <1>6, <1>7, ReadsFollow
<1>9. AppFits' /\ SentFits' /\ PanelFits' BY <1>1, <1>3, <1>4, AppRests, SentRests, PanelRests
<1>10. FirstAlone' BY <1>1, <1>2, <1>3, <1>5, <1>7 DEF FirstAlone, Opening, app, panel, sent
<1> QED BY <1>4, <1>8, <1>9, <1>10 DEF AppInv, Passes

\* refreshStatus(): the latest applies, and what it shows is no older.
LEMMA RefreshKeeps ==
    ASSUME AppInv, NEW r \in reads, RefreshApplies(r) \/ RefreshUnauthorized(r) \/ RefreshDropped(r)
    PROVE  AppInv'
<1>1. ServerFits /\ AppFits /\ ReadsFit /\ SentFits /\ PanelFits /\ FirstAlone BY DEF AppInv
<1>2. /\ r.answer # None /\ r.kind # "first" /\ reads' = reads \ {r}
      /\ UNCHANGED <<server, loaded, unreachable, sent, events>>
    BY DEF RefreshApplies, RefreshUnauthorized, RefreshDropped, Lands, Stays
<1>3. ~Opening BY <1>1, <1>2, NotOpening
<1>4. Passes /\ version' = version BY <1>1, <1>2, ServerRests DEF server
<1>5. SentFits' BY <1>1, <1>2, <1>4, SentRests
<1>6. r.answer \in Answered /\ Told(r.answer.status) /\ r.answer.version <= version /\ (r.mine = gen => r.answer.version >= shown)
    BY <1>1, <1>2 DEF ReadsFit, Reads
<1>7. r.answer.version \in Nat /\ shown \in Nat /\ shown <= version /\ gen \in Nat /\ route \in Routes
    BY <1>1, <1>6 DEF Answered, AppFits, ReadsFit, Routes
<1>8. WatchEnds(r) \in Watched \cup {None} /\ watch \in Watched \cup {None}
    BY <1>1 DEF WatchEnds, AppFits, Watched
<1>9. \A q \in reads' : r.mine = gen => q.mine # gen BY <1>1, <1>2 DEF ReadsFit
<1>10. unlocks \in SUBSET unlocks /\ \A s : AfterRead(r, s) \in Routes BY <1>7 DEF AfterRead, Routes
<1>11. CASE RefreshApplies(r)
    <2>1. /\ r.mine = gen /\ gen' = gen /\ expired' = expired
          /\ Show(r.answer.status, r.answer.version, AfterRead(r, r.answer.status), unlocks, WatchEnds(r))
        BY <1>11 DEF RefreshApplies, IsLatest
    <2>2. ReadsGo /\ expired' \in BOOLEAN BY <1>1, <1>2, <2>1, ReadsRest DEF AppFits
    <2>3. AfterRead(r, r.answer.status) \in Routes BY <1>10
    <2> QED BY <1>2, <1>3, <1>4, <1>5, <1>6, <1>7, <1>8, <1>9, <1>10, <2>1, <2>2, <2>3, ShowKeeps
<1>12. CASE RefreshUnauthorized(r)
    <2>1. /\ r.mine = gen /\ gen' = gen + 1 /\ expired' = (expired \/ (status # None /\ status.unlockAvailable = TRUE))
          /\ Show(None, Later(r.answer.version), "inbox", unlocks, watch)
        BY <1>12 DEF RefreshUnauthorized, IsLatest, Expires, SignedOut
    <2>2. Later(r.answer.version) \in Nat /\ Later(r.answer.version) <= version BY <1>6, <1>7 DEF Later
    <2>3. gen' \in Nat /\ gen < gen' /\ gen <= gen' BY <1>7, <2>1
    <2>4. ReadsGo /\ expired' \in BOOLEAN BY <1>1, <1>2, <2>1, <2>3 DEF AppFits, ReadsGo
    <2>5. Told(None) /\ "inbox" \in Routes BY DEF Told, Routes
    <2> QED BY <1>2, <1>3, <1>4, <1>5, <1>8, <1>10, <2>1, <2>2, <2>3, <2>4, <2>5, ShowKeeps
<1>13. CASE RefreshDropped(r)
    <2>1. gen' = gen /\ expired' = expired /\ Show(status, shown, AfterRead(r, None), unlocks, WatchEnds(r))
        BY <1>13 DEF RefreshDropped
    <2>2. shown' = shown BY <2>1 DEF Show
    <2>3. ReadsGo /\ expired' \in BOOLEAN /\ Told(status) BY <1>1, <1>2, <2>1, ReadsRest DEF AppFits
    <2>4. AfterRead(r, None) \in Routes BY <1>10
    <2> QED BY <1>2, <1>3, <1>4, <1>5, <1>7, <1>8, <1>10, <2>1, <2>2, <2>3, <2>4, ShowKeeps
<1> QED BY <1>11, <1>12, <1>13

LEMMA ReadingKeeps == ASSUME AppInv, NEW r \in reads, Reading(r) PROVE AppInv'
BY ReplyKeeps, FirstKeeps, RefreshKeeps DEF Reading

-----------------------------------------------------------------------------
(* The watch.                                                              *)

LEMMA TriggerFits ==
    ASSUME ReadsFit, NEW w \in Watched, Trigger(w)
    PROVE  watch' \in Watched /\ ReadsGo
<1>1. gen \in Nat BY DEF ReadsFit
<1>2. watch' = Triggered(w) BY DEF Trigger
<1>3. \/ Triggered(w) = w
      \/ Triggered(w) = [w EXCEPT !.held = TRUE]
      \/ Triggered(w) = [w EXCEPT !.recent = TRUE, !.inflight = gen + 1]
    BY DEF Triggered
<1>4. watch' \in Watched
    <2>1. [w EXCEPT !.held = TRUE] \in Watched BY DEF Watched
    <2>2. [w EXCEPT !.recent = TRUE, !.inflight = gen + 1] \in Watched
        <3>1. PICK n \in Nat : n = gen + 1 BY <1>1
        <3>2. [w EXCEPT !.recent = TRUE, !.inflight = n] \in Watched BY DEF Watched
        <3> QED BY <3>1, <3>2
    <2> QED BY <1>2, <1>3, <2>1, <2>2
<1>5. ReadsGo BY ReadStarts, ReadsRest DEF Trigger
<1> QED BY <1>4, <1>5
LEMMA WatchKeeps == ASSUME AppInv, Watches PROVE AppInv'
<1>1. ServerFits /\ AppFits /\ ReadsFit /\ SentFits /\ PanelFits /\ FirstAlone BY DEF AppInv
<1>2. watch # None /\ watch \in Watched /\ UNCHANGED <<server, sent>>
    BY <1>1 DEF Watches, Visible, GapEnds, PollLands, PollFails, PollUnauthorized, AppFits
<1>3. ~Opening BY <1>1, <1>2, NotOpening
<1>4. UNCHANGED events \/ Event BY DEF Watches, Visible, GapEnds, PollLands, PollFails, PollUnauthorized
<1>5. Passes /\ version' = version BY <1>1, <1>2, <1>4, ServerRests DEF server
<1>6. SentFits' BY <1>1, <1>2, <1>5, SentRests
<1>7. CASE Visible \/ GapEnds \/ PollLands \/ PollFails
    <2>1. UNCHANGED <<app, panel>> BY <1>7 DEF Visible, GapEnds, PollLands, PollFails
    <2>2. PanelFits' BY <1>1, <1>5, <2>1, PanelRests
    <2>3. watch' \in Watched /\ ReadsGo
        <3>1. CASE Visible BY <1>1, <1>2, <3>1, TriggerFits DEF Visible
        <3>2. CASE GapEnds
            <4> DEFINE after == [watch EXCEPT !.recent = FALSE, !.held = FALSE]
            <4>1. after \in Watched BY <1>2 DEF Watched
            <4>2. Trigger(after) \/ (watch' = after /\ UNCHANGED <<gen, reads>>) BY <3>2 DEF GapEnds
            <4> HIDE DEF after
            <4> QED BY <1>1, <4>1, <4>2, TriggerFits, ReadsRest
        <3>3. CASE PollLands
            <4> DEFINE heard == [watch EXCEPT !.awaiting = waits, !.failing = FALSE]
            <4>1. heard \in Watched BY <1>1, <1>2 DEF Watched, ServerFits
            <4>2. Trigger(heard) \/ (watch' = heard /\ UNCHANGED <<gen, reads>>) BY <3>3 DEF PollLands
            <4> HIDE DEF heard
            <4> QED BY <1>1, <4>1, <4>2, TriggerFits, ReadsRest
        <3>4. CASE PollFails
            <4>1. watch' = [watch EXCEPT !.failing = TRUE] /\ UNCHANGED <<gen, reads>> BY <3>4 DEF PollFails
            <4>2. watch' \in Watched BY <1>2, <4>1 DEF Watched
            <4> QED BY <1>1, <4>1, <4>2, ReadsRest
        <3> QED BY <1>7, <3>1, <3>2, <3>3, <3>4
    <2> QED BY <1>3, <1>5, <1>6, <2>1, <2>2, <2>3, StepKeeps
<1>8. CASE PollUnauthorized
    <2>1. /\ gen' = gen + 1 /\ expired' = (expired \/ (status # None /\ status.unlockAvailable = TRUE))
          /\ Show(None, Later(version), "inbox", unlocks, watch) /\ UNCHANGED <<loaded, unreachable, reads>>
        BY <1>8 DEF PollUnauthorized, Expires, SignedOut, Stays
    <2>2. version \in Nat /\ shown \in Nat /\ shown <= version /\ gen \in Nat BY <1>1 DEF ServerFits, AppFits, ReadsFit
    <2>3. Later(version) \in Nat /\ Later(version) <= version BY <2>2 DEF Later
    <2>4. gen' \in Nat /\ gen < gen' /\ gen <= gen' BY <2>1, <2>2
    <2>5. ReadsGo /\ expired' \in BOOLEAN BY <1>1, <2>1, <2>4 DEF AppFits, ReadsGo
    <2>6. Told(None) /\ "inbox" \in Routes /\ watch \in Watched \cup {None} /\ unlocks \in SUBSET unlocks
        BY <1>2 DEF Told, Routes
    <2> QED BY <1>3, <1>5, <1>6, <2>1, <2>3, <2>4, <2>5, <2>6, ShowKeeps
<1> QED BY <1>7, <1>8 DEF Watches

-----------------------------------------------------------------------------
(* Sign-in and sign-out.                                                   *)

\* A request is sent with the number of its tap, or its answer is taken.
LEMMA SentKeeps ==
    ASSUME AppInv, ~Opening, Passes, UNCHANGED <<app, gen, reads, watch, panel>>, SentFits'
    PROVE  AppInv'
<1>1. ServerFits /\ AppFits /\ ReadsFit /\ SentFits /\ PanelFits /\ FirstAlone BY DEF AppInv
<1>2. PanelFits' /\ ReadsGo /\ watch' \in Watched \cup {None} BY <1>1, PanelRests, ReadsRest DEF AppFits
<1> QED BY <1>2, StepKeeps
LEMMA SentShrinks ==
    ASSUME SentFits, Passes, logins' \subseteq logins, logouts' \subseteq logouts
    PROVE  SentFits'
<1>1. version \in Nat /\ version' \in Nat /\ version <= version' /\ header' = header BY DEF Passes, ServerFits
<1>2. ASSUME NEW l \in logins' \cup logouts', l.answer # None PROVE l.answer.version <= version'
    <2>1. l.answer \in Heard BY <1>2 DEF SentFits, Logins, Logouts
    <2>2. l.answer.version \in Nat /\ l.answer.version <= version BY <1>2, <2>1 DEF SentFits, Heard
    <2> QED BY <1>1, <2>2
<1> QED BY <1>1, <1>2 DEF SentFits, PasskeysSurviveSignIn
\* One more, or the answer of one that is in flight.
LEMMA SentGrows ==
    ASSUME SentFits, Passes, NEW l,
           \/ l \in Logins /\ logins' \subseteq logins \cup {l} /\ logouts' = logouts
           \/ l \in Logouts /\ logouts' \subseteq logouts \cup {l} /\ logins' = logins /\ (header => ~l.again),
           l.answer # None => l.answer.version <= version'
    PROVE  SentFits'
<1>1. version \in Nat /\ version' \in Nat /\ version <= version' /\ header' = header BY DEF Passes, ServerFits
<1>2. ASSUME NEW o \in logins' \cup logouts', o.answer # None PROVE o.answer.version <= version'
    <2>1. CASE o \in logins \cup logouts
        <3>1. o.answer \in Heard BY <1>2, <2>1 DEF SentFits, Logins, Logouts
        <3>2. o.answer.version \in Nat /\ o.answer.version <= version BY <1>2, <2>1, <3>1 DEF SentFits, Heard
        <3> QED BY <1>1, <3>2
    <2>2. CASE o = l BY <1>2, <2>2
    <2> QED BY <2>1, <2>2
<1>3. logins' \subseteq Logins /\ logouts' \subseteq Logouts BY DEF SentFits
<1>4. PasskeysSurviveSignIn' BY <1>1 DEF SentFits, PasskeysSurviveSignIn
<1> QED BY <1>2, <1>3, <1>4 DEF SentFits

LEMMA SigningKeeps == ASSUME AppInv, Signing PROVE AppInv'
<1>1. ServerFits /\ AppFits /\ ReadsFit /\ SentFits /\ PanelFits /\ FirstAlone BY DEF AppInv
<1>2. version \in Nat /\ events \in Nat /\ shown \in Nat /\ shown <= version /\ gen \in Nat BY <1>1 DEF ServerFits, AppFits, ReadsFit
<1>3. Told(status) /\ route \in Routes /\ unlocks \in SUBSET unlocks /\ watch \in Watched \cup {None} /\ "inbox" \in Routes
    BY <1>1 DEF AppFits, Routes
<1>4. ASSUME NEW m \in Taps, Login(m) PROVE AppInv'
    <2> DEFINE l == [tap |-> m, answer |-> None]
    <2>1. Ready /\ m = events + 1 /\ logins' = logins \cup {l} /\ Event /\ UNCHANGED <<server, app, gen, reads, watch, panel, logouts>>
        BY <1>4 DEF Login, LoginShown, Tap
    <2>2. l \in Logins /\ l.answer = None BY <1>2, <2>1 DEF Logins
    <2> HIDE DEF l
    <2>3. Passes /\ ~Opening BY <1>1, <2>1, ServerRests, NotOpening
    <2>4. SentFits' BY <1>1, <2>1, <2>2, <2>3, SentGrows
    <2> QED BY <2>1, <2>3, <2>4, SentKeeps
<1>5. ASSUME NEW l \in logins, LoginServed(l) PROVE AppInv'
    <2>1. PICK ok \in BOOLEAN, ks \in {keys, {}} :
              /\ IF ok THEN Becomes("live", ks, TRUE) ELSE ks = keys /\ UNCHANGED <<proton, keys, door, waits, version>>
              /\ logins' = (logins \ {l}) \cup {[l EXCEPT !.answer = [ok |-> ok, version |-> version']]}
        BY <1>5 DEF LoginServed
    <2>2. UNCHANGED <<header, app, gen, reads, watch, panel, logouts, events>> BY <1>5 DEF LoginServed
    <2>3. ServerFits' /\ version <= version'
        <3>1. CASE ok
            <4>1. ks \in SUBSET Passkeys /\ "live" \in Protons /\ TRUE \in BOOLEAN BY <1>1 DEF ServerFits, Protons
            <4> QED BY <1>1, <1>2, <2>1, <2>2, <3>1, <4>1, Becoming
        <3>2. CASE ~ok BY <1>1, <1>2, <2>1, <2>2, <3>2 DEF ServerFits
        <3> QED BY <3>1, <3>2
    <2>4. Passes BY <1>1, <1>2, <2>2, <2>3 DEF Passes
    <2> DEFINE a == [ok |-> ok, version |-> version']
               o == [l EXCEPT !.answer = a]
    <2>5. a \in Heard /\ a.version <= version' BY <2>3 DEF Heard, ServerFits
    <2>6. logins' \subseteq logins \cup {o} BY <2>1
    <2> HIDE DEF a
    <2>7. l \in Logins BY <1>1 DEF SentFits
    <2>8. o \in Logins /\ o.answer = a BY <2>5, <2>7 DEF Logins
    <2> HIDE DEF o
    <2>9. SentFits' BY <1>1, <2>2, <2>4, <2>5, <2>6, <2>8, SentGrows
    <2>10. ~Opening BY <1>1, NotOpening
    <2> QED BY <2>2, <2>4, <2>9, <2>10, SentKeeps
<1>6. ASSUME NEW l \in logins, LoggedIn(l) PROVE AppInv'
    <2> DEFINE s == [proton |-> "live", passkeys |-> IF status = None THEN 0 ELSE status.passkeys,
                     unlockAvailable |-> IF status = None THEN Unknown ELSE status.unlockAvailable]
               new == [mine |-> gen + 2, kind |-> "refresh", answer |-> None]
    <2>1. /\ l.answer # None /\ logins' = logins \ {l} /\ gen' = gen + 2 /\ reads' = reads \cup {new}
          /\ Show(s, l.answer.version, "inbox", unlocks, watch)
          /\ UNCHANGED <<server, loaded, unreachable, expired, logouts, events>>
        BY <1>6 DEF LoggedIn, Stays
    <2>2. Told(s)
        <3>1. "live" \in Protons /\ 0 \in 0..Cardinality(Passkeys)
            <4>1. Cardinality(Passkeys) \in Nat BY FS_CardinalityType, AppStatusAssumption
            <4> QED BY <4>1 DEF Protons
        <3>2. CASE status = None
            <4>1. s = [proton |-> "live", passkeys |-> 0, unlockAvailable |-> Unknown] BY <3>2
            <4>2. s \in Statuses /\ s.unlockAvailable = Unknown BY <3>1, <4>1 DEF Statuses
            <4> QED BY <4>2, AppStatusAssumption DEF Told
        <3>3. CASE status # None
            <4>1. status \in Statuses /\ (header => status.unlockAvailable # FALSE) BY <1>3, <3>3 DEF Told
            <4>2. s = [proton |-> "live", passkeys |-> status.passkeys, unlockAvailable |-> status.unlockAvailable] BY <3>3
            <4>3. s \in Statuses /\ s.unlockAvailable = status.unlockAvailable BY <3>1, <4>1, <4>2 DEF Statuses
            <4> QED BY <4>1, <4>3 DEF Told
        <3> QED BY <3>2, <3>3
    <2>3. new \in Reads /\ new.mine = gen' /\ new.answer = None /\ new.kind # "first" BY <1>2, <2>1 DEF Reads
    <2> HIDE DEF s, new
    <2>4. Passes /\ version' = version /\ ~Opening BY <1>1, <2>1, ServerRests, NotOpening DEF server
    <2>5. gen' \in Nat /\ gen < gen' /\ gen <= gen' BY <1>2, <2>1
    <2>6. ReadsGo BY <2>1, <2>3, <2>5 DEF ReadsGo
    <2>7. SentFits' BY <1>1, <2>1, <2>4, SentShrinks
    <2>8. l.answer.version \in Nat /\ l.answer.version <= version
        <3>1. l.answer \in Heard BY <1>1, <2>1 DEF SentFits, Logins
        <3> QED BY <1>1, <2>1, <3>1 DEF SentFits, Heard
    <2>9. expired' \in BOOLEAN BY <1>1, <2>1 DEF AppFits
    <2> QED BY <1>3, <2>1, <2>2, <2>4, <2>5, <2>6, <2>7, <2>8, <2>9, ShowKeeps
<1>7. ASSUME NEW l \in logins \cup logouts, LoginFails(l) \/ LogoutFails(l) PROVE AppInv'
    <2>1. /\ UNCHANGED <<server, app, gen, reads, watch, panel>> /\ (UNCHANGED events \/ Event)
          /\ logins' \subseteq logins /\ logouts' \subseteq logouts
        BY <1>7 DEF LoginFails, LogoutFails
    <2>2. Passes /\ ~Opening BY <1>1, <2>1, ServerRests, NotOpening
    <2>3. SentFits' BY <1>1, <2>1, <2>2, SentShrinks
    <2> QED BY <2>1, <2>2, <2>3, SentKeeps
<1>8. ASSUME NEW m \in Taps, SignInAgain(m) PROVE AppInv'
    <2>1. Ready /\ status # None /\ UNCHANGED server BY <1>8 DEF SignInAgain, Email
    <2>2. ~Opening BY <1>1, <2>1, NotOpening
    <2>3. CASE StartRead("again") /\ Event /\ UNCHANGED <<app, watch, panel, sent>>
        <3>1. Passes BY <1>1, <2>1, <2>3, ServerRests
        <3>2. SentFits' /\ PanelFits' /\ ReadsGo BY <1>1, <2>3, <3>1, SentRests, PanelRests, ReadStarts
        <3>3. watch' \in Watched \cup {None} BY <1>3, <2>3
        <3> QED BY <2>2, <2>3, <3>1, <3>2, <3>3, StepKeeps
    <2>4. CASE Goes("proton-login", unlocks) /\ Event /\ Stays /\ UNCHANGED <<expired, gen, reads, sent>>
        <3>1. Passes /\ version' = version BY <1>1, <2>1, <2>4, ServerRests DEF server
        <3>2. SentFits' /\ ReadsGo BY <1>1, <2>4, <3>1, SentRests, ReadsRest
        <3>3. Show(status, shown, "proton-login", unlocks, watch) /\ UNCHANGED <<loaded, unreachable>> BY <2>4 DEF Goes, Stays
        <3>4. shown' = shown BY <3>3 DEF Show
        <3>5. expired' \in BOOLEAN /\ "proton-login" \in Routes BY <1>1, <2>4 DEF AppFits, Routes
        <3> QED BY <1>2, <1>3, <2>2, <3>1, <3>2, <3>3, <3>4, <3>5, ShowKeeps
    <2>5. CASE /\ SignsOut /\ Tap(m) /\ logouts' = logouts \cup {[tap |-> m, again |-> TRUE, answer |-> None]}
               /\ UNCHANGED <<app, gen, reads, watch, panel, logins>>
        <3> DEFINE l == [tap |-> m, again |-> TRUE, answer |-> None]
        <3>1. logouts' = logouts \cup {l} /\ Event /\ m = events + 1 BY <2>5 DEF Tap
        <3>2. l \in Logouts /\ l.answer = None BY <1>2, <3>1 DEF Logouts
        <3> HIDE DEF l
        <3>3. ~header BY <1>3, <2>1, <2>5 DEF SignsOut, Told
        <3>4. Passes BY <1>1, <2>1, <3>1, ServerRests
        <3>5. SentFits' BY <1>1, <2>5, <3>1, <3>2, <3>3, <3>4, SentGrows
        <3> QED BY <2>2, <2>5, <3>4, <3>5, SentKeeps
    <2> QED BY <1>8, <2>3, <2>4, <2>5 DEF SignInAgain
<1>9. ASSUME NEW m \in Taps, Logout(m) PROVE AppInv'
    <2> DEFINE l == [tap |-> m, again |-> FALSE, answer |-> None]
    <2>1. Ready /\ m = events + 1 /\ logouts' = logouts \cup {l} /\ Event /\ UNCHANGED <<server, app, gen, reads, watch, panel, logins>>
        BY <1>9 DEF Logout, Tap
    <2>2. l \in Logouts /\ l.answer = None /\ ~l.again BY <1>2, <2>1 DEF Logouts
    <2> HIDE DEF l
    <2>3. Passes /\ ~Opening BY <1>1, <2>1, ServerRests, NotOpening
    <2>4. SentFits' BY <1>1, <2>1, <2>2, <2>3, SentGrows
    <2> QED BY <2>1, <2>3, <2>4, SentKeeps
<1>10. ASSUME NEW l \in logouts, LogoutServed(l) PROVE AppInv'
    <2> DEFINE a == [ok |-> door \/ ~header, version |-> version']
               o == [l EXCEPT !.answer = a]
    <2>1. /\ IF header /\ ~door THEN UNCHANGED <<proton, keys, door, waits, version>> ELSE Becomes("none", {}, header)
          /\ logouts' \subseteq logouts \cup {o}
          /\ UNCHANGED <<header, app, gen, reads, watch, panel, logins, events>>
        BY <1>10 DEF LogoutServed
    <2>2. header \in BOOLEAN /\ door \in BOOLEAN BY <1>1, AppStatusAssumption DEF ServerFits
    <2>3. ServerFits' /\ version <= version'
        <3>1. CASE header /\ ~door
            <4>1. UNCHANGED <<header, proton, keys, door, waits, version, events>> BY <2>1, <3>1
            <4>2. version <= version' BY <1>2, <4>1
            <4> QED BY <1>1, <4>1, <4>2 DEF ServerFits
        <3>2. CASE ~(header /\ ~door)
            <4>1. {} \in SUBSET Passkeys /\ "none" \in Protons BY DEF Protons
            <4> QED BY <1>1, <1>2, <2>1, <2>2, <3>2, <4>1, Becoming
        <3> QED BY <3>1, <3>2
    <2>4. Passes BY <1>1, <1>2, <2>1, <2>3 DEF Passes
    <2>5. a \in Heard /\ a.version <= version' BY <2>2, <2>3 DEF Heard, ServerFits
    <2> HIDE DEF a
    <2>6. l \in Logouts /\ (header => ~l.again) BY <1>1 DEF SentFits, PasskeysSurviveSignIn
    <2>7. o \in Logouts /\ o.answer = a /\ o.again = l.again BY <2>5, <2>6 DEF Logouts
    <2> HIDE DEF o
    <2>8. SentFits' BY <1>1, <2>1, <2>4, <2>5, <2>6, <2>7, SentGrows
    <2>9. ~Opening BY <1>1, NotOpening
    <2> QED BY <2>1, <2>4, <2>8, <2>9, SentKeeps
<1>11. ASSUME NEW l \in logouts, LoggedOut(l) PROVE AppInv'
    <2> DEFINE v == IF l.answer.ok THEN l.answer.version ELSE 0
    <2>1. /\ l.answer # None /\ logouts' = logouts \ {l} /\ gen' = gen + 1 /\ Show(None, Later(v), "inbox", unlocks, watch)
          /\ UNCHANGED <<server, loaded, unreachable, expired, reads, logins, events>>
        BY <1>11 DEF LoggedOut, SignedOut, Stays
    <2>2. v \in Nat /\ v <= version
        <3>1. l.answer \in Heard BY <1>1, <2>1 DEF SentFits, Logouts
        <3>2. l.answer.version \in Nat /\ l.answer.version <= version BY <1>1, <2>1, <3>1 DEF SentFits, Heard
        <3> QED BY <1>2, <3>2
    <2> HIDE DEF v
    <2>3. Later(v) \in Nat /\ Later(v) <= version BY <1>2, <2>2 DEF Later
    <2>4. Passes /\ version' = version /\ ~Opening BY <1>1, <2>1, ServerRests, NotOpening DEF server
    <2>5. gen' \in Nat /\ gen < gen' /\ gen <= gen' BY <1>2, <2>1
    <2>6. ReadsGo /\ expired' \in BOOLEAN /\ Told(None) BY <1>1, <2>1, <2>5 DEF ReadsGo, AppFits, Told
    <2>7. SentFits' BY <1>1, <2>1, <2>4, SentShrinks
    <2> QED BY <1>3, <2>1, <2>3, <2>4, <2>5, <2>6, <2>7, ShowKeeps
<1> QED BY <1>4, <1>5, <1>6, <1>7, <1>8, <1>9, <1>10, <1>11 DEF Signing

-----------------------------------------------------------------------------
(* Unlocking.                                                              *)

\* A step of the banner, of its fetches and of its prompts.
LEMMA PanelKeeps ==
    ASSUME AppInv, Passes, UNCHANGED <<app, gen, reads, watch, sent>>, PanelFits', fetches # {} \/ unlocks # {} \/ banner # None
    PROVE  AppInv'
<1>1. ServerFits /\ AppFits /\ ReadsFit /\ SentFits /\ PanelFits /\ FirstAlone BY DEF AppInv
<1>2. ~Opening BY <1>1, NotOpening
<1>3. SentFits' /\ ReadsGo /\ watch' \in Watched \cup {None} BY <1>1, SentRests, ReadsRest DEF AppFits
<1> QED BY <1>2, <1>3, StepKeeps

\* The prompts that are there, and what another takes the place of one may be.
Prompt(u) ==
    /\ u \in Unlocks /\ u.tap <= events /\ (u.here => banner # None)
    /\ u.answer # None => Told(u.answer.status) /\ u.answer.version <= version
LEMMA PromptGoesOn ==
    ASSUME PanelFits, Passes, NEW u, Prompt(u)', unlocks' \subseteq unlocks \cup {u}, banner # None => banner' # None
    PROVE  unlocks' \subseteq Unlocks /\ \A x \in unlocks' : Prompt(x)'
<1>1. version \in Nat /\ version' \in Nat /\ version <= version' /\ events \in Nat /\ events' \in Nat /\ events <= events'
    BY DEF Passes, ServerFits
<1>2. ASSUME NEW x \in unlocks PROVE Prompt(x)'
    <2>1. x \in Unlocks /\ x.tap \in Nat /\ x.answer \in Opened \cup {None} BY DEF PanelFits, Unlocks
    <2>2. x.tap <= events' BY <1>1, <2>1 DEF PanelFits
    <2>3. x.here => banner' # None BY DEF PanelFits
    <2>4. ASSUME x.answer # None PROVE Told(x.answer.status)' /\ x.answer.version <= version'
        <3>1. x.answer.version \in Nat BY <2>1, <2>4 DEF Opened
        <3>2. Told(x.answer.status) /\ x.answer.version <= version BY <2>4 DEF PanelFits
        <3>3. x.answer.version <= version' BY <1>1, <3>1, <3>2
        <3>4. Told(x.answer.status)' BY <3>2 DEF Passes, Told
        <3> QED BY <3>3, <3>4
    <2> QED BY <2>1, <2>2, <2>3, <2>4 DEF Prompt
<1>3. ASSUME NEW x \in unlocks' PROVE Prompt(x)'
    <2>1. CASE x \in unlocks BY <1>2, <2>1
    <2>2. CASE x = u BY <2>2
    <2> QED BY <2>1, <2>2
<1>4. \A x \in unlocks' : x \in Unlocks BY <1>3 DEF Prompt
<1> QED BY <1>3, <1>4
\* The rest of the panel, when the salts and the banner are as they were.
LEMMA PromptKeeps ==
    ASSUME AppInv, Passes, UNCHANGED <<app, gen, reads, watch, sent, banner, fetches>>, NEW u \in unlocks, NEW o,
           unlocks' \subseteq unlocks \cup {o}, Prompt(o)'
    PROVE  AppInv'
<1>1. PanelFits BY DEF AppInv
<1>2. unlocks' \subseteq Unlocks /\ \A x \in unlocks' : Prompt(x)' BY <1>1, PromptGoesOn
<1>3. banner # None => banner.refusedAt <= version'
    <2>1. version \in Nat /\ version' \in Nat /\ version <= version' BY DEF Passes, ServerFits
    <2>2. banner # None => banner.refusedAt \in Nat BY <1>1 DEF PanelFits, Banners
    <2> QED BY <1>1, <2>1, <2>2 DEF PanelFits
<1>4. ASSUME NEW x \in unlocks'
      PROVE  /\ x.tap <= events' /\ (x.here => banner' # None)
             /\ x.answer # None => Told(x.answer.status)' /\ x.answer.version <= version'
    BY <1>2 DEF Prompt
<1>5. PanelFits' BY <1>1, <1>2, <1>3, <1>4 DEF PanelFits
<1> QED BY <1>5, PanelKeeps

LEMMA FetchingKeeps ==
    ASSUME AppInv, NEW f \in fetches, FetchServed(f) \/ FetchLands(f)
    PROVE  AppInv'
<1>1. ServerFits /\ AppFits /\ ReadsFit /\ SentFits /\ PanelFits /\ FirstAlone BY DEF AppInv
<1>2. banner # None /\ banner \in Banners /\ banner.refusedAt \in Nat /\ banner.refusedAt <= version
      /\ (banner.prepared # None => banner.prepared.version >= banner.refusedAt)
    BY <1>1 DEF PanelFits, Banners
<1>3. version \in Nat /\ f \in Fetches BY <1>1 DEF ServerFits, PanelFits
<1>4. CASE FetchServed(f)
    <2>1. PICK ks \in SUBSET Passkeys :
              fetches' = (fetches \ {f}) \cup {[f EXCEPT !.answer = [keys |-> ks, version |-> version]]}
        BY <1>1, <1>4 DEF FetchServed, ServerFits
    <2>2. UNCHANGED <<server, app, gen, reads, watch, banner, unlocks, sent>> /\ (UNCHANGED events \/ Event)
        BY <1>4 DEF FetchServed
    <2>3. Passes /\ version' = version BY <1>1, <2>2, ServerRests DEF server
    <2> DEFINE a == [keys |-> ks, version |-> version]
               o == [f EXCEPT !.answer = a]
    <2>4. a \in SaltSets /\ a.version = version BY <1>3 DEF SaltSets
    <2>5. fetches' = (fetches \ {f}) \cup {o} BY <2>1
    <2> HIDE DEF a
    <2>6. o \in Fetches /\ o.generation = f.generation /\ o.answer = a BY <1>3, <2>4 DEF Fetches
    <2> HIDE DEF o
    <2>7. f.generation <= banner.generation /\ fetches \subseteq Fetches BY <1>1 DEF PanelFits
    <2>8. version >= banner.refusedAt BY <1>2, <1>3
    <2>9. ASSUME NEW x \in fetches'
          PROVE  /\ x \in Fetches /\ x.generation <= banner.generation
                 /\ x.answer # None /\ x.generation = banner.generation => x.answer.version >= banner.refusedAt
        <3>1. CASE x \in fetches BY <1>1, <3>1 DEF PanelFits
        <3>2. CASE x = o BY <2>4, <2>6, <2>7, <2>8, <3>2
        <3> QED BY <2>5, <3>1, <3>2
    <2>10. UNCHANGED <<banner, unlocks>> BY <2>2
    <2>11. PanelFits'
        <3>1. ASSUME NEW x \in unlocks
              PROVE  /\ x.tap <= events' /\ (x.here => banner' # None)
                     /\ x.answer # None => Told(x.answer.status)' /\ x.answer.version <= version'
            <4>1. x.tap \in Nat /\ x.tap <= events BY <1>1 DEF PanelFits, Unlocks
            <4>2. x.tap <= events' BY <2>3, <4>1 DEF Passes, ServerFits
            <4>3. x.answer # None => Told(x.answer.status)' BY <1>1, <2>3 DEF PanelFits, Passes, Told
            <4> QED BY <1>1, <2>3, <2>10, <4>2, <4>3 DEF PanelFits
        <3> QED BY <1>1, <1>2, <2>3, <2>9, <2>10, <3>1 DEF PanelFits
    <2> QED BY <1>2, <2>2, <2>3, <2>11, PanelKeeps
<1>5. CASE FetchLands(f)
    <2>1. /\ f.answer # None /\ fetches' = fetches \ {f} /\ UNCHANGED <<server, app, gen, reads, watch, unlocks, sent, events>>
          /\ banner' = IF Fills(f) THEN [banner EXCEPT !.prepared = IF f.answer.keys = {} THEN None ELSE f.answer, !.preparing = FALSE]
                                   ELSE banner
        BY <1>5 DEF FetchLands
    <2>2. Passes /\ version' = version /\ events' = events /\ header' = header BY <1>1, <2>1, ServerRests DEF server
    <2>3. f.answer \in SaltSets BY <1>3, <2>1 DEF Fetches
    <2>4. /\ banner' \in Banners /\ banner'.generation = banner.generation /\ banner'.refusedAt = banner.refusedAt
          /\ banner'.prepared # None => banner'.prepared.version >= banner'.refusedAt
        <3>1. CASE ~Fills(f) BY <1>2, <2>1, <3>1
        <3>2. CASE Fills(f)
            <4> DEFINE a == IF f.answer.keys = {} THEN None ELSE f.answer
            <4>1. a \in SaltSets \cup {None} BY <2>3
            <4>2. banner' = [banner EXCEPT !.prepared = a, !.preparing = FALSE] BY <2>1, <3>2
            <4>3. a # None => a.version >= banner.refusedAt BY <1>1, <2>1, <3>2 DEF PanelFits, Fills
            <4> HIDE DEF a
            <4>4. /\ banner' \in Banners /\ banner'.generation = banner.generation /\ banner'.refusedAt = banner.refusedAt
                  /\ banner'.prepared = a
                BY <1>2, <4>1, <4>2 DEF Banners
            <4> QED BY <4>3, <4>4
        <3> QED BY <3>1, <3>2
    <2>5. banner' # None BY <2>4, NoneAssumption
    <2>6. ASSUME NEW x \in unlocks PROVE x.answer # None => Told(x.answer.status)'
        BY <1>1, <2>2 DEF PanelFits, Told
    <2>7. unlocks' = unlocks /\ fetches' \subseteq fetches BY <2>1
    <2>8. PanelFits' BY <1>1, <1>2, <2>2, <2>4, <2>5, <2>6, <2>7 DEF PanelFits
    <2> QED BY <1>2, <2>1, <2>2, <2>8, PanelKeeps
<1> QED BY <1>4, <1>5

\* tap(): the prompt takes the salts of the banner with it.
LEMMA UnlockKeeps == ASSUME AppInv, NEW n \in Taps, Unlock(n) PROVE AppInv'
<1>1. ServerFits /\ AppFits /\ ReadsFit /\ SentFits /\ PanelFits /\ FirstAlone BY DEF AppInv
<1>u. PICK u : u = [tap |-> n, here |-> TRUE, salts |-> banner.prepared, answer |-> None] OBVIOUS
<1>2. /\ banner # None /\ Event /\ n = events + 1 /\ banner' = [banner EXCEPT !.busy = TRUE] /\ unlocks' = unlocks \cup {u}
      /\ UNCHANGED <<server, app, gen, reads, watch, fetches, sent>>
    BY <1>u DEF Unlock, Tap
<1>3. Passes /\ version' = version /\ events' = events + 1 /\ events \in Nat
    BY <1>1, <1>2, ServerRests DEF server, Event, ServerFits
<1>4. banner \in Banners BY <1>1, <1>2 DEF PanelFits
<1>5. /\ banner' \in Banners /\ banner'.generation = banner.generation /\ banner'.refusedAt = banner.refusedAt
      /\ banner'.prepared = banner.prepared /\ banner.prepared \in SaltSets \cup {None}
    BY <1>2, <1>4 DEF Banners
<1>6. banner' # None BY <1>5, NoneAssumption
<1>7. u \in Unlocks /\ u.tap = n /\ u.answer = None BY <1>2, <1>3, <1>5, <1>u DEF Unlocks
<1>8. unlocks' = unlocks \cup {u} BY <1>2
<1>9. Prompt(u)' BY <1>2, <1>3, <1>6, <1>7 DEF Prompt
<1>10. unlocks' \subseteq Unlocks /\ \A x \in unlocks' : Prompt(x)' BY <1>1, <1>3, <1>6, <1>8, <1>9, PromptGoesOn
<1>11. ASSUME NEW x \in unlocks'
       PROVE  /\ x.tap <= events' /\ (x.here => banner' # None)
              /\ x.answer # None => Told(x.answer.status)' /\ x.answer.version <= version'
    BY <1>10 DEF Prompt
<1>12. PanelFits' BY <1>1, <1>2, <1>3, <1>5, <1>6, <1>10, <1>11 DEF PanelFits
<1> QED BY <1>2, <1>3, <1>12, PanelKeeps

\* The server answers a prompt, with a status that is its own.
LEMMA PromptAnswered ==
    ASSUME AppInv, Passes, NEW u \in unlocks, NEW code \in Codes, NEW s \in Statuses \cup {None}, Told(s),
           Answer(u, code, s), UNCHANGED <<app, gen, reads, watch, sent, banner, fetches>>
    PROVE  AppInv'
<1>a. PICK a : a = [code |-> code, status |-> s, version |-> version'] OBVIOUS
<1>o. PICK o : o = [u EXCEPT !.answer = a] OBVIOUS
<1>1. PanelFits BY DEF AppInv
<1>2. version' \in Nat /\ version' <= version' /\ events \in Nat /\ events' \in Nat /\ events <= events' BY DEF Passes, ServerFits
<1>3. a \in Opened /\ a.status = s /\ a.version = version' BY <1>2, <1>a DEF Opened
<1>4. unlocks' \subseteq unlocks \cup {o} BY <1>a, <1>o DEF Answer
<1>5. u \in Unlocks /\ u.tap <= events /\ (u.here => banner # None) BY <1>1 DEF PanelFits
<1>6. o \in Unlocks /\ o.tap = u.tap /\ o.here = u.here /\ o.answer = a /\ u.tap \in Nat BY <1>3, <1>5, <1>o DEF Unlocks
<1>7. Told(o.answer.status)' BY <1>3, <1>6 DEF Told, Passes
<1>8. o.tap <= events' BY <1>2, <1>5, <1>6
<1>9. Prompt(o)' BY <1>2, <1>3, <1>5, <1>6, <1>7, <1>8 DEF Prompt
<1> QED BY <1>4, <1>9, PromptKeeps
LEMMA PromptsKeep ==
    ASSUME AppInv, NEW u \in unlocks, UnlockBegins(u) \/ UnlockServed(u) \/ UnlockRefused(u) \/ UnheardUnlock(u)
    PROVE  AppInv'
<1>1. ServerFits /\ AppFits /\ ReadsFit /\ SentFits /\ PanelFits /\ FirstAlone BY DEF AppInv
<1>2. UNCHANGED <<header, app, gen, reads, watch, banner, fetches, sent, events>>
    BY DEF UnlockBegins, UnlockServed, UnlockRefused, UnheardUnlock, server
<1>3. {"ok", "retry", "not_authenticated", "proton_login_required", "no_passkeys", "passkeys_stale",
       "passkey_unreadable", "unknown_passkey"} = Codes
    BY DEF Codes
<1>4. None \in Statuses \cup {None} /\ Told(None) BY DEF Told
<1>5. version \in Nat /\ events \in Nat /\ proton \in Protons /\ keys \in SUBSET Passkeys /\ door \in BOOLEAN /\ header \in BOOLEAN
    BY <1>1, AppStatusAssumption DEF ServerFits
<1>6. ASSUME UNCHANGED <<proton, keys, door, waits, version>> PROVE Passes
    <2>1. UNCHANGED server /\ UNCHANGED events BY <1>2, <1>6 DEF server
    <2> QED BY <1>1, <2>1, ServerRests
<1>7. CASE UnlockBegins(u)
    <2>1. Passes BY <1>6, <1>7 DEF UnlockBegins, server
    <2>2. CASE door /\ keys # {}
        <3>a. PICK a : a = [keys |-> keys, version |-> version] OBVIOUS
        <3>o. PICK o : o = [u EXCEPT !.salts = a] OBVIOUS
        <3>1. unlocks' \subseteq unlocks \cup {o} /\ u.answer = None BY <1>7, <2>2, <3>a, <3>o DEF UnlockBegins
        <3>2. a \in SaltSets BY <1>5, <3>a DEF SaltSets
        <3>3. u \in Unlocks /\ u.tap <= events /\ (u.here => banner # None) BY <1>1 DEF PanelFits
        <3>4. o \in Unlocks /\ o.tap = u.tap /\ o.here = u.here /\ o.answer = None BY <3>1, <3>2, <3>3, <3>o DEF Unlocks
        <3>5. Prompt(o)' BY <1>2, <3>3, <3>4 DEF Prompt
        <3> QED BY <1>2, <2>1, <3>1, <3>5, PromptKeeps
    <2>3. CASE ~(door /\ keys # {})
        <3>1. PICK code \in Codes : Answer(u, code, None) BY <1>3, <1>7, <2>3 DEF UnlockBegins
        <3> QED BY <1>2, <1>4, <2>1, <3>1, PromptAnswered
    <2> QED BY <2>2, <2>3
<1>8. CASE UnlockRefused(u)
    <2>1. PICK code \in Codes : Answer(u, code, None) BY <1>3, <1>8 DEF UnlockRefused
    <2>2. Passes BY <1>6, <1>8 DEF UnlockRefused
    <2> QED BY <1>2, <1>4, <2>1, <2>2, PromptAnswered
<1>9. CASE UnlockServed(u)
    <2>1. PICK k \in u.salts.keys :
         \/ /\ proton # "locked" \/ k \notin keys
            /\ UNCHANGED <<proton, keys, door, waits, version>>
            /\ CASE proton = "live"   -> Answer(u, "ok", StatusNow)
               [] proton = "none"   -> Answer(u, "proton_login_required", None)
               [] proton = "locked" -> Answer(u, "unknown_passkey", None)
         \/ /\ proton = "locked" /\ k \in keys
            /\ \/ Opens(u, "ok", "live", keys)
               \/ Opens(u, "proton_login_required", "none", keys)
               \/ Opens(u, "passkeys_stale", "locked", {})
               \/ Opens(u, "passkey_unreadable", "locked", keys \ {k})
        BY <1>9 DEF UnlockServed
    <2>2. CASE /\ UNCHANGED <<proton, keys, door, waits, version>>
               /\ CASE proton = "live"   -> Answer(u, "ok", StatusNow)
                  [] proton = "none"   -> Answer(u, "proton_login_required", None)
                  [] proton = "locked" -> Answer(u, "unknown_passkey", None)
        <3>1. PICK code \in Codes, s \in {StatusNow, None} : Answer(u, code, s)
            <4>1. Answer(u, "ok", StatusNow) \/ Answer(u, "proton_login_required", None) \/ Answer(u, "unknown_passkey", None)
                BY <1>5, <2>2 DEF Protons
            <4>2. "ok" \in Codes /\ "proton_login_required" \in Codes /\ "unknown_passkey" \in Codes BY <1>3
            <4> QED BY <4>1, <4>2
        <3>2. s \in Statuses \cup {None} /\ Told(s) BY <1>1, <1>4, <3>1, NowIsTold
        <3>3. Passes BY <1>6, <2>2
        <3> QED BY <1>2, <3>1, <3>2, <3>3, PromptAnswered
    <2>3. ASSUME NEW code \in Codes, NEW p \in Protons, NEW ks \in SUBSET Passkeys, Opens(u, code, p, ks)
          PROVE  AppInv'
        <3>1. Becomes(p, ks, door) BY <2>3 DEF Opens
        <3>2. ServerFits' /\ version <= version' BY <1>1, <1>2, <1>5, <3>1, Becoming
        <3>3. Passes BY <1>1, <1>2, <1>5, <3>2 DEF Passes
        <3> DEFINE s == IF code = "ok" THEN [proton |-> p, passkeys |-> Cardinality(ks), unlockAvailable |-> TRUE] ELSE None
        <3>4. Answer(u, code, s) BY <2>3 DEF Opens
        <3>5. s \in Statuses \cup {None} /\ Told(s)
            <4>1. Cardinality(ks) \in 0..Cardinality(Passkeys) BY KeyCount
            <4>2. CASE code = "ok"
                <5>1. s = [proton |-> p, passkeys |-> Cardinality(ks), unlockAvailable |-> TRUE] BY <4>2
                <5> QED BY <4>1, <5>1 DEF Told, Statuses
            <4>3. CASE code # "ok" BY <1>4, <4>3
            <4> QED BY <4>2, <4>3
        <3> HIDE DEF s
        <3> QED BY <1>2, <3>3, <3>4, <3>5, PromptAnswered
    <2>4. /\ "live" \in Protons /\ "none" \in Protons /\ "locked" \in Protons
          /\ {} \in SUBSET Passkeys /\ \A k2 : keys \ {k2} \in SUBSET Passkeys
        BY <1>5 DEF Protons
    <2>5. "ok" \in Codes /\ "proton_login_required" \in Codes /\ "passkeys_stale" \in Codes /\ "passkey_unreadable" \in Codes
        BY <1>3
    <2> QED BY <1>5, <2>1, <2>2, <2>3, <2>4, <2>5
<1>10. CASE UnheardUnlock(u)
    <2>1. UNCHANGED server /\ unlocks' \subseteq unlocks BY <1>10 DEF UnheardUnlock
    <2>2. Passes BY <1>1, <1>2, <2>1, ServerRests
    <2>3. Prompt(u)'
        <3>1. Prompt(u) BY <1>1 DEF Prompt, PanelFits
        <3>2. UNCHANGED <<header, version, events, banner>> BY <1>2, <2>1 DEF server
        <3> QED BY <3>1, <3>2 DEF Prompt, Told
    <2> QED BY <1>2, <2>1, <2>2, <2>3, PromptKeeps
<1> QED BY <1>7, <1>8, <1>9, <1>10

\* The answer of a prompt: the app shows the status in it, or fetches salts anew.
LEMMA UnlockedKeeps == ASSUME AppInv, NEW u \in unlocks, Unlocked(u) PROVE AppInv'
<1>1. ServerFits /\ AppFits /\ ReadsFit /\ SentFits /\ PanelFits /\ FirstAlone BY DEF AppInv
<1>2. /\ u.answer # None /\ gen' = gen + 1 /\ Show(u.answer.status, u.answer.version, route, unlocks \ {u}, watch)
      /\ UNCHANGED <<server, loaded, unreachable, expired, reads, sent, events>>
    BY DEF Unlocked, Stays
<1>3. Told(u.answer.status) /\ u.answer.version <= version /\ u.answer.version \in Nat
    <2>1. u.answer \in Opened BY <1>1, <1>2 DEF PanelFits, Unlocks
    <2> QED BY <1>1, <1>2, <2>1 DEF PanelFits, Opened
<1>4. gen \in Nat /\ route \in Routes /\ expired \in BOOLEAN /\ watch \in Watched \cup {None} BY <1>1 DEF ReadsFit, AppFits, Routes
<1>5. gen' \in Nat /\ gen < gen' /\ gen <= gen' BY <1>2, <1>4
<1>6. Passes /\ version' = version /\ ~Opening BY <1>1, <1>2, ServerRests, NotOpening DEF server
<1>7. ReadsGo /\ SentFits' /\ expired' \in BOOLEAN BY <1>1, <1>2, <1>4, <1>5, <1>6, SentRests DEF ReadsGo
<1>8. unlocks \ {u} \in SUBSET unlocks OBVIOUS
<1> QED BY <1>2, <1>3, <1>4, <1>5, <1>6, <1>7, <1>8, ShowKeeps
LEMMA RefusedKeeps == ASSUME AppInv, NEW u \in unlocks, Refused(u) PROVE AppInv'
<1>1. ServerFits /\ AppFits /\ ReadsFit /\ SentFits /\ PanelFits /\ FirstAlone BY DEF AppInv
<1>2. /\ u.here /\ u.answer # None /\ unlocks' = unlocks \ {u}
      /\ \/ banner' = [banner EXCEPT !.busy = FALSE, !.over = TRUE] /\ UNCHANGED fetches
         \/ /\ banner' = [banner EXCEPT !.busy = FALSE, !.generation = @ + 1, !.prepared = None, !.refusedAt = u.answer.version]
            /\ fetches' = fetches \cup {Fetching(banner.generation + 1)}
      /\ StartRead("refresh") \/ UNCHANGED <<gen, reads>>
      /\ UNCHANGED <<server, app, watch, sent, events>>
    BY DEF Refused
<1>3. banner # None /\ banner \in Banners /\ banner.generation \in Nat BY <1>1, <1>2 DEF PanelFits, Banners
<1>4. Passes /\ version' = version /\ events' = events /\ header' = header /\ ~Opening
    BY <1>1, <1>2, <1>3, ServerRests, NotOpening DEF server
<1>5. ASSUME NEW x \in unlocks'
      PROVE  /\ x \in Unlocks /\ x.tap <= events' /\ banner # None
             /\ x.answer # None => Told(x.answer.status)' /\ x.answer.version <= version'
    BY <1>1, <1>2, <1>3, <1>4 DEF PanelFits, Told
<1>6. PanelFits'
    <2>1. CASE banner' = [banner EXCEPT !.busy = FALSE, !.over = TRUE] /\ UNCHANGED fetches
        <3>1. /\ banner' \in Banners /\ banner'.generation = banner.generation /\ banner'.refusedAt = banner.refusedAt
              /\ banner'.prepared = banner.prepared
            BY <1>3, <2>1 DEF Banners
        <3>2. banner' # None BY <3>1, NoneAssumption
        <3> QED BY <1>1, <1>3, <1>4, <1>5, <2>1, <3>1, <3>2 DEF PanelFits
    <2>2. CASE /\ banner' = [banner EXCEPT !.busy = FALSE, !.generation = @ + 1, !.prepared = None, !.refusedAt = u.answer.version]
               /\ fetches' = fetches \cup {Fetching(banner.generation + 1)}
        <3>1. PICK g \in Nat : g = banner.generation + 1 BY <1>3
        <3>2. PICK v : v = u.answer.version OBVIOUS
        <3>3. v \in Nat /\ v <= version
            <4>1. u.answer \in Opened BY <1>1, <1>2 DEF PanelFits, Unlocks
            <4> QED BY <1>1, <1>2, <3>2, <4>1 DEF PanelFits, Opened
        <3>4. banner' = [banner EXCEPT !.busy = FALSE, !.generation = g, !.prepared = None, !.refusedAt = v] BY <2>2, <3>1, <3>2
        <3>5. /\ banner' \in Banners /\ banner'.generation = g /\ banner'.refusedAt = v /\ banner'.prepared = None
            BY <1>3, <3>3, <3>4 DEF Banners
        <3>6. banner' # None BY <3>5, NoneAssumption
        <3>7. fetches' = fetches \cup {Fetching(g)} BY <2>2, <3>1
        <3>8. Fetching(g) \in Fetches /\ Fetching(g).generation = g /\ Fetching(g).answer = None BY DEF Fetching, Fetches
        <3>9. ASSUME NEW f \in fetches'
              PROVE  /\ f \in Fetches /\ f.generation <= banner'.generation
                     /\ ~(f.answer # None /\ f.generation = banner'.generation)
            <4>1. CASE f \in fetches
                <5>1. f \in Fetches /\ f.generation \in Nat /\ f.generation <= banner.generation BY <1>1, <4>1 DEF PanelFits, Fetches
                <5> QED BY <1>3, <3>1, <3>5, <5>1
            <4>2. CASE f = Fetching(g) BY <3>5, <3>8, <4>2
            <4> QED BY <3>7, <4>1, <4>2
        <3> QED BY <1>4, <1>5, <3>3, <3>5, <3>6, <3>9 DEF PanelFits
    <2> QED BY <1>2, <2>1, <2>2
<1>7. ReadsGo BY <1>1, <1>2, ReadStarts, ReadsRest
<1>8. SentFits' /\ watch' \in Watched \cup {None} BY <1>1, <1>2, <1>4, SentRests DEF AppFits
<1> QED BY <1>2, <1>4, <1>6, <1>7, <1>8, StepKeeps
LEMMA UnlockingKeeps == ASSUME AppInv, Unlocking PROVE AppInv'
BY FetchingKeeps, UnlockKeeps, PromptsKeep, UnlockedKeeps, RefusedKeeps DEF Unlocking

-----------------------------------------------------------------------------
(* The screens.                                                            *)

LEMMA ScreensKeep ==
    ASSUME AppInv, CancelLogin \/ BannerSignIn \/ (\E r \in {"inbox", "settings"} : Settings(r))
    PROVE  AppInv'
<1>1. ServerFits /\ AppFits /\ ReadsFit /\ SentFits /\ PanelFits /\ FirstAlone BY DEF AppInv
<1>2. PICK r \in Routes : Goes(r, unlocks) BY DEF CancelLogin, BannerSignIn, Settings, Routes
<1>3. Ready /\ Event /\ UNCHANGED <<server, loaded, unreachable, expired, gen, reads, sent>>
    BY DEF CancelLogin, BannerSignIn, Settings, Stays
<1>4. Passes /\ version' = version /\ ~Opening BY <1>1, <1>3, ServerRests, NotOpening DEF server
<1>5. Show(status, shown, r, unlocks, watch) /\ shown' = shown BY <1>2 DEF Goes, Show
<1>6. ReadsGo /\ SentFits' /\ expired' \in BOOLEAN BY <1>1, <1>3, <1>4, SentRests, ReadsRest DEF AppFits
<1>7. Told(status) /\ shown \in Nat /\ shown <= version /\ watch \in Watched \cup {None} BY <1>1 DEF AppFits
<1>8. unlocks \in SUBSET unlocks OBVIOUS
<1> QED BY <1>2, <1>3, <1>4, <1>5, <1>6, <1>7, <1>8, ShowKeeps
\* A page loaded again begins as it first did.
LEMMA ReloadKeeps == ASSUME AppInv, Reload PROVE AppInv'
<1>1. ServerFits /\ ReadsFit BY DEF AppInv
<1>2. /\ Event /\ UNCHANGED <<header, proton, keys, waits>> /\ door' = (door \/ header) /\ version' = version
      /\ status' = None /\ route' = "inbox" /\ loaded' = FALSE /\ unreachable' = FALSE /\ expired' = FALSE
      /\ shown' = 0 /\ watch' = None /\ banner' = None /\ fetches' = {} /\ unlocks' = {} /\ logins' = {} /\ logouts' = {}
      /\ gen' = gen + 1 /\ reads' = FirstRead(gen + 1)
    BY DEF Reload
<1>3. events' \in Nat /\ (door \/ header) \in BOOLEAN /\ version \in Nat /\ gen \in Nat
    BY <1>1, <1>2, EventCounts, AppStatusAssumption DEF ServerFits, ReadsFit
<1>4. ServerFits' BY <1>1, <1>2, <1>3 DEF ServerFits
<1>5. AppFits'
    <2>1. Told(status)' BY <1>2 DEF Told
    <2>2. shown' \in Nat /\ shown' <= version' BY <1>2, <1>3
    <2>3. loaded' \in BOOLEAN /\ unreachable' \in BOOLEAN /\ expired' \in BOOLEAN BY <1>2
    <2> QED BY <1>2, <2>1, <2>2, <2>3 DEF AppFits
<1>6. PICK new : new = [mine |-> gen + 1, kind |-> "first", answer |-> None] OBVIOUS
<1>7. new \in Reads /\ new.mine = gen' /\ new.answer = None /\ new.kind = "first" BY <1>2, <1>3, <1>6 DEF Reads
<1>8. reads' = {new} BY <1>2, <1>6 DEF FirstRead
<1>9. ReadsFit'
    <2>1. gen' \in Nat /\ gen' <= gen' BY <1>2, <1>3
    <2> QED BY <1>7, <1>8, <2>1 DEF ReadsFit
<1>10. SentFits' /\ PanelFits' BY <1>2 DEF SentFits, PasskeysSurviveSignIn, PanelFits
<1>11. FirstAlone' BY <1>2, <1>7, <1>8 DEF FirstAlone, Opening
<1> QED BY <1>4, <1>5, <1>9, <1>10, <1>11 DEF AppInv

-----------------------------------------------------------------------------
(* The theorems.                                                           *)

LEMMA AppBegins == ASSUME Init PROVE AppInv
<1>1. ServerFits
    <2>1. "live" \in Protons /\ "locked" \in Protons BY DEF Protons
    <2> QED BY <2>1 DEF Init, ServerFits
<1>2. AppFits
    <2>1. Told(status) BY DEF Init, Told
    <2>2. shown \in Nat /\ shown <= version BY DEF Init
    <2>3. loaded \in BOOLEAN /\ unreachable \in BOOLEAN /\ expired \in BOOLEAN BY DEF Init
    <2> QED BY <2>1, <2>2, <2>3 DEF Init, AppFits
<1>3. PICK new : new = [mine |-> 1, kind |-> "first", answer |-> None] OBVIOUS
<1>4. new \in Reads /\ new.mine = 1 /\ new.answer = None /\ new.kind = "first" BY <1>3 DEF Reads
<1>5. reads = {new} /\ gen = 1 BY <1>3 DEF Init, FirstRead
<1>6. ReadsFit BY <1>4, <1>5 DEF ReadsFit
<1>7. SentFits /\ PanelFits BY DEF Init, SentFits, PasskeysSurviveSignIn, PanelFits
<1>8. FirstAlone BY <1>4, <1>5 DEF Init, FirstAlone, Opening
<1> QED BY <1>1, <1>2, <1>6, <1>7, <1>8 DEF AppInv
LEMMA AppContinues == ASSUME AppInv, [Next]_vars PROVE AppInv'
<1>1. CASE ServerChanges BY <1>1, ServerKeeps
<1>2. ASSUME NEW r \in reads, Reading(r) PROVE AppInv' BY <1>2, ReadingKeeps
<1>3. CASE Watches BY <1>3, WatchKeeps
<1>4. CASE Signing BY <1>4, SigningKeeps
<1>5. CASE Unlocking BY <1>5, UnlockingKeeps
<1>6. CASE Screens BY <1>6, RetryKeeps, ScreensKeep, ReloadKeeps DEF Screens
<1>7. CASE UNCHANGED vars
    <2>1. UNCHANGED <<server, app, gen, reads, watch, panel, sent, events>> BY <1>7 DEF vars
    <2>2. Passes BY <2>1, ServerRests DEF AppInv
    <2> QED BY <2>1, <2>2, WorldMoves DEF Passes
<1> QED BY <1>1, <1>2, <1>3, <1>4, <1>5, <1>6, <1>7 DEF Next

\* Sign in again never signs a header-mode server out, although a login over the
\* app leaves the mode unknown until the next read: no status that may be shown
\* says that unlocking is unavailable when it is not (App.tsx:234).
THEOREM SignInKeepsPasskeys == Spec => []PasskeysSurviveSignIn
<1>1. AppInv => PasskeysSurviveSignIn BY DEF AppInv, SentFits
<1> QED BY <1>1, AppBegins, AppContinues, PTL DEF Spec

\* What the app shows goes back to an older state of the server with the answer of a
\* sign-in or of a prompt only, or with the page.
LEMMA ShownStays ==
    ASSUME AppInv, Next
    PROVE  \/ shown' = shown \/ (shown' \in Nat /\ shown' >= shown) \/ ~loaded' \/ logins' # logins \/ unlocks' # unlocks
<1>1. ServerFits /\ AppFits /\ ReadsFit /\ SentFits /\ PanelFits /\ FirstAlone BY DEF AppInv
<1>2. shown \in Nat /\ version \in Nat /\ shown <= version BY <1>1 DEF AppFits, ServerFits
<1>3. ASSUME NEW v \in Nat PROVE Later(v) \in Nat /\ Later(v) >= shown BY <1>2 DEF Later
<1>4. CASE ServerChanges
    BY <1>4 DEF ServerChanges, Restart, ProxySignInEnds, ProxySignIn, SignedInElsewhere, SignedOutElsewhere, ProtonEnds,
                DocumentWaits, KeyAddedElsewhere, KeyRemovedElsewhere, Change, app
<1>5. ASSUME NEW r \in reads, Reading(r)
      PROVE  shown' = shown \/ (shown' \in Nat /\ shown' >= shown)
    <2>1. r.answer # None => /\ r.answer.version \in Nat /\ r.answer.version <= version
                             /\ (r.mine = gen => r.answer.version >= shown)
        BY <1>1 DEF ReadsFit, Reads, Answered
    <2>2. CASE Reply(r) BY <2>2 DEF Reply, app
    <2>3. CASE FirstLands(r)
        <3>1. r.kind = "first" /\ r.answer # None BY <2>3 DEF FirstLands
        <3>2. shown = 0 BY <1>1, <3>1 DEF FirstAlone
        <3>3. shown' = shown \/ shown' = r.answer.version BY <2>3 DEF FirstLands, Show
        <3> QED BY <1>2, <2>1, <3>1, <3>2, <3>3
    <2>4. CASE RefreshApplies(r)
        <3>1. r.answer # None /\ r.mine = gen /\ shown' = r.answer.version BY <2>4 DEF RefreshApplies, Lands, IsLatest, Show
        <3> QED BY <2>1, <3>1
    <2>5. CASE RefreshUnauthorized(r)
        <3>1. r.answer # None /\ shown' = Later(r.answer.version) BY <2>5 DEF RefreshUnauthorized, Lands, SignedOut, Show
        <3> QED BY <1>3, <2>1, <3>1
    <2>6. CASE RefreshDropped(r) BY <2>6 DEF RefreshDropped, Show
    <2> QED BY <1>5, <2>2, <2>3, <2>4, <2>5, <2>6 DEF Reading
<1>6. CASE Watches
    <2>1. CASE PollUnauthorized
        <3>1. shown' = Later(version) BY <2>1 DEF PollUnauthorized, SignedOut, Show
        <3> QED BY <1>2, <1>3, <3>1
    <2>2. CASE ~PollUnauthorized BY <1>6, <2>2 DEF Watches, Visible, GapEnds, PollLands, PollFails, app
    <2> QED BY <2>1, <2>2
<1>7. CASE Signing
    <2>1. ASSUME NEW l \in logins, LoggedIn(l) PROVE logins' # logins BY <2>1 DEF LoggedIn
    <2>2. ASSUME NEW l \in logouts, LoggedOut(l) PROVE shown' \in Nat /\ shown' >= shown
        <3>1. PICK v : v = (IF l.answer.ok THEN l.answer.version ELSE 0) OBVIOUS
        <3>2. l.answer # None /\ shown' = Later(v) BY <2>2, <3>1 DEF LoggedOut, SignedOut, Show
        <3>3. v \in Nat BY <1>1, <3>1, <3>2 DEF SentFits, Logouts, Heard
        <3> QED BY <1>3, <3>2, <3>3
    <2>3. ASSUME NEW m \in Taps, SignInAgain(m) PROVE shown' = shown BY <2>3 DEF SignInAgain, app, Goes, Show
    <2>4. ASSUME NEW m \in Taps, Login(m) \/ Logout(m) PROVE shown' = shown BY <2>4 DEF Login, Logout, app
    <2>5. ASSUME NEW l, LoginServed(l) \/ LoginFails(l) \/ LogoutServed(l) \/ LogoutFails(l) PROVE shown' = shown
        BY <2>5 DEF LoginServed, LoginFails, LogoutServed, LogoutFails, app
    <2> QED BY <1>7, <2>1, <2>2, <2>3, <2>4, <2>5 DEF Signing
<1>8. CASE Unlocking
    <2>1. ASSUME NEW u \in unlocks, Unlocked(u) PROVE unlocks' # unlocks
        <3>1. u.here /\ BannerFollows(u.answer.status, route, unlocks \ {u}) BY <2>1 DEF Unlocked, Show
        <3>2. unlocks' = unlocks \ {u} \/ unlocks' = {[x EXCEPT !.here = FALSE] : x \in unlocks \ {u}}
            BY <3>1 DEF BannerFollows
        <3>3. ASSUME unlocks' = {[x EXCEPT !.here = FALSE] : x \in unlocks \ {u}} PROVE u \notin unlocks'
            <4>1. \A x \in unlocks : [x EXCEPT !.here = FALSE].here = FALSE BY <1>1 DEF PanelFits, Unlocks
            <4> QED BY <3>1, <3>3, <4>1
        <3> QED BY <3>2, <3>3
    <2>2. ASSUME NEW f, FetchServed(f) \/ FetchLands(f) PROVE shown' = shown BY <2>2 DEF FetchServed, FetchLands, app
    <2>3. ASSUME NEW n, Unlock(n) PROVE shown' = shown BY <2>3 DEF Unlock, app
    <2>4. ASSUME NEW u, UnlockBegins(u) \/ UnlockServed(u) \/ UnlockRefused(u) \/ Refused(u) \/ UnheardUnlock(u) PROVE shown' = shown
        BY <2>4 DEF UnlockBegins, UnlockServed, UnlockRefused, Refused, UnheardUnlock, app
    <2> QED BY <1>8, <2>1, <2>2, <2>3, <2>4 DEF Unlocking
<1>9. CASE Screens
    <2>1. CASE Reload BY <2>1 DEF Reload
    <2>2. CASE ~Reload BY <1>9, <2>2 DEF Screens, Retry, CancelLogin, BannerSignIn, Settings, Goes, Show, app
    <2> QED BY <2>1, <2>2
<1> QED BY <1>4, <1>5, <1>6, <1>7, <1>8, <1>9 DEF Next

\* A read begun before a login, an unlock or a sign-out cannot undo it: only the
\* latest read applies, and a status set from an answer makes every read before it
\* an old one (App.tsx:40, 156).
THEOREM ReadUndoesNothing == Spec => ReadNeverOlder
<1>1. ASSUME AppInv, [Next]_vars
      PROVE  [shown' < shown /\ loaded' => logins' # logins \/ unlocks' # unlocks]_vars
    <2>1. shown \in Nat BY <1>1 DEF AppInv, AppFits
    <2>2. CASE Next
        <3>1. shown' = shown => ~(shown' < shown) BY <2>1
        <3>2. shown' \in Nat /\ shown' >= shown => ~(shown' < shown) BY <2>1
        <3> QED BY <1>1, <2>2, <3>1, <3>2, ShownStays
    <2> QED BY <1>1, <2>2
<1> QED BY <1>1, AppBegins, AppContinues, PTL DEF Spec, ReadNeverOlder

\* A prompt that begins is of a tap on the banner: the others go on with theirs.
LEMMA PromptsAreOld ==
    ASSUME AppInv, Next, ~(\E n \in Taps : Unlock(n)), NEW u \in unlocks'
    PROVE  \E o \in unlocks : u.tap = o.tap
<1>1. PanelFits BY DEF AppInv
<1>2. \A x \in unlocks : x \in Unlocks BY <1>1 DEF PanelFits
<1>3. ASSUME NEW s, NEW r, NEW us \in SUBSET unlocks, BannerFollows(s, r, us) PROVE \E o \in unlocks : u.tap = o.tap
    <2>1. unlocks' = us \/ unlocks' = {[x EXCEPT !.here = FALSE] : x \in us} BY <1>3 DEF BannerFollows
    <2>2. \A x \in us : [x EXCEPT !.here = FALSE].tap = x.tap BY <1>2 DEF Unlocks
    <2>3. CASE unlocks' = us BY <1>3, <2>3
    <2>4. CASE unlocks' = {[x EXCEPT !.here = FALSE] : x \in us}
        <3>1. PICK x \in us : u = [x EXCEPT !.here = FALSE] BY <2>4
        <3> QED BY <2>2, <3>1
    <2> QED BY <2>1, <2>3, <2>4
<1>4. ASSUME NEW s, NEW v, NEW r, NEW w, Show(s, v, r, unlocks, w) PROVE \E o \in unlocks : u.tap = o.tap
    <2>1. BannerFollows(s, r, unlocks) /\ unlocks \in SUBSET unlocks BY <1>4 DEF Show
    <2> QED BY <1>3, <2>1
<1>5. ASSUME unlocks' \subseteq unlocks PROVE \E o \in unlocks : u.tap = o.tap BY <1>5
<1>6. CASE ServerChanges
    <2>1. UNCHANGED panel
        BY <1>6 DEF ServerChanges, Restart, ProxySignInEnds, ProxySignIn, SignedInElsewhere, SignedOutElsewhere, ProtonEnds,
                    DocumentWaits, KeyAddedElsewhere, KeyRemovedElsewhere, Change
    <2> QED BY <1>5, <2>1 DEF panel
<1>7. ASSUME NEW r, Reading(r) PROVE \E o \in unlocks : u.tap = o.tap
    <2>1. CASE Reply(r) BY <1>5, <2>1 DEF Reply, panel
    <2>2. CASE FirstLands(r) BY <1>4, <1>5, <2>2 DEF FirstLands, panel
    <2>3. CASE RefreshApplies(r) BY <1>4, <2>3 DEF RefreshApplies
    <2>4. CASE RefreshUnauthorized(r) BY <1>4, <2>4 DEF RefreshUnauthorized, SignedOut
    <2>5. CASE RefreshDropped(r) BY <1>4, <2>5 DEF RefreshDropped
    <2> QED BY <1>7, <2>1, <2>2, <2>3, <2>4, <2>5 DEF Reading
<1>8. CASE Watches
    <2>1. CASE PollUnauthorized BY <1>4, <2>1 DEF PollUnauthorized, SignedOut
    <2>2. CASE ~PollUnauthorized BY <1>5, <1>8, <2>2 DEF Watches, Visible, GapEnds, PollLands, PollFails, panel
    <2> QED BY <2>1, <2>2
<1>9. CASE Signing
    <2>1. ASSUME NEW l, LoggedIn(l) PROVE \E o \in unlocks : u.tap = o.tap BY <1>4, <2>1 DEF LoggedIn
    <2>2. ASSUME NEW l, LoggedOut(l) PROVE \E o \in unlocks : u.tap = o.tap BY <1>4, <2>2 DEF LoggedOut, SignedOut
    <2>3. ASSUME NEW m, SignInAgain(m) PROVE \E o \in unlocks : u.tap = o.tap BY <1>4, <1>5, <2>3 DEF SignInAgain, Goes, panel
    <2>4. ASSUME NEW m, Login(m) \/ Logout(m) PROVE \E o \in unlocks : u.tap = o.tap BY <1>5, <2>4 DEF Login, Logout, panel
    <2>5. ASSUME NEW l, LoginServed(l) \/ LoginFails(l) \/ LogoutServed(l) \/ LogoutFails(l) PROVE \E o \in unlocks : u.tap = o.tap
        BY <1>5, <2>5 DEF LoginServed, LoginFails, LogoutServed, LogoutFails, panel
    <2> QED BY <1>9, <2>1, <2>2, <2>3, <2>4, <2>5 DEF Signing
<1>10. CASE Unlocking
    <2>1. ASSUME NEW f, FetchServed(f) \/ FetchLands(f) PROVE \E o \in unlocks : u.tap = o.tap
        BY <1>5, <2>1 DEF FetchServed, FetchLands
    <2>2. ASSUME NEW x \in unlocks, Unlocked(x) PROVE \E o \in unlocks : u.tap = o.tap
        <3>1. BannerFollows(x.answer.status, route, unlocks \ {x}) /\ unlocks \ {x} \in SUBSET unlocks BY <2>2 DEF Unlocked, Show
        <3> QED BY <1>3, <3>1
    <2>3. ASSUME NEW x, Refused(x) \/ UnheardUnlock(x) PROVE \E o \in unlocks : u.tap = o.tap
        BY <1>5, <2>3 DEF Refused, UnheardUnlock
    <2>4. ASSUME NEW x \in unlocks, UnlockBegins(x) \/ UnlockServed(x) \/ UnlockRefused(x)
          PROVE  \E o \in unlocks : u.tap = o.tap
        <3>1. ASSUME NEW a PROVE [x EXCEPT !.salts = a].tap = x.tap /\ [x EXCEPT !.answer = a].tap = x.tap BY <1>2 DEF Unlocks
        <3>2. ASSUME NEW code, NEW s, Answer(x, code, s) PROVE \E o \in unlocks : u.tap = o.tap
            <4>1. PICK a : a = [code |-> code, status |-> s, version |-> version'] OBVIOUS
            <4>2. unlocks' = (unlocks \ {x}) \cup {[x EXCEPT !.answer = a]} BY <3>2, <4>1 DEF Answer
            <4> QED BY <3>1, <4>2
        <3>3. CASE UnlockBegins(x)
            <4>1. PICK a : a = [keys |-> keys, version |-> version] OBVIOUS
            <4>2. unlocks' = (unlocks \ {x}) \cup {[x EXCEPT !.salts = a]} \/ \E code : Answer(x, code, None)
                BY <3>3, <4>1 DEF UnlockBegins
            <4>3. CASE unlocks' = (unlocks \ {x}) \cup {[x EXCEPT !.salts = a]}
                <5>1. [x EXCEPT !.salts = a].tap = x.tap BY <3>1
                <5> QED BY <4>3, <5>1
            <4>4. CASE \E code : Answer(x, code, None)
                <5>1. PICK code : Answer(x, code, None) BY <4>4
                <5> QED BY <3>2, <5>1
            <4> QED BY <4>2, <4>3, <4>4
        <3>4. CASE UnlockServed(x)
            <4>1. proton \in {"live", "locked", "none"} BY DEF AppInv, ServerFits, Protons
            <4>2. \E code, s : Answer(x, code, s) BY <3>4, <4>1 DEF UnlockServed, Opens
            <4> QED BY <3>2, <4>2
        <3>5. CASE UnlockRefused(x) BY <3>2, <3>5 DEF UnlockRefused
        <3> QED BY <2>4, <3>3, <3>4, <3>5
    <2> QED BY <1>10, <2>1, <2>2, <2>3, <2>4 DEF Unlocking
<1>11. CASE Screens
    <2>1. CASE Reload BY <2>1 DEF Reload
    <2>2. CASE Retry BY <1>5, <2>2 DEF Retry, panel
    <2>3. CASE CancelLogin \/ BannerSignIn \/ (\E r \in {"inbox", "settings"} : Settings(r))
        BY <1>4, <2>3 DEF CancelLogin, BannerSignIn, Settings, Goes
    <2> QED BY <1>11, <2>1, <2>2, <2>3 DEF Screens
<1> QED BY <1>6, <1>7, <1>8, <1>9, <1>10, <1>11 DEF Next

\* A prompt never offers salts that were fetched before the banner's last refusal,
\* so a passkey the server no longer has is offered once (LockedBanner.tsx:111).
THEOREM PromptsAreFresh == Spec => FreshSalts
<1>1. ASSUME AppInv, [Next]_vars
      PROVE  [\A u \in unlocks' : u.tap > events /\ u.salts # None => u.salts.version >= banner.refusedAt]_vars
    <2>1. PanelFits /\ events \in Nat BY <1>1 DEF AppInv, ServerFits
    <2>2. ASSUME NEW o \in unlocks PROVE ~(o.tap > events)
        <3>1. o.tap \in Nat /\ o.tap <= events BY <2>1 DEF PanelFits, Unlocks
        <3> QED BY <2>1, <3>1
    <2>3. ASSUME NEW n \in Taps, Unlock(n), NEW u \in unlocks', u.tap > events, u.salts # None
          PROVE  u.salts.version >= banner.refusedAt
        <3>1. PICK new : new = [tap |-> n, here |-> TRUE, salts |-> banner.prepared, answer |-> None] OBVIOUS
        <3>2. banner # None /\ unlocks' = unlocks \cup {new} BY <2>3, <3>1 DEF Unlock
        <3>3. u = new BY <2>2, <2>3, <3>2
        <3>4. u.salts = banner.prepared BY <3>1, <3>3
        <3> QED BY <2>1, <2>3, <3>2, <3>4 DEF PanelFits
    <2>4. ASSUME Next, ~(\E n \in Taps : Unlock(n)), NEW u \in unlocks' PROVE ~(u.tap > events)
        BY <1>1, <2>2, <2>4, PromptsAreOld
    <2> QED BY <1>1, <2>3, <2>4
<1> QED BY <1>1, AppBegins, AppContinues, PTL DEF Spec, FreshSalts
=============================================================================
