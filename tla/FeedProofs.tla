------------------------------ MODULE FeedProofs ------------------------------
(***************************************************************************)
(* The change feed of DocumentFeed, for any documents, page size and bounds *)
(* on what overlaps: no version is skipped, nothing held goes back, and one *)
(* poll at a time drives the sync.                                         *)
(***************************************************************************)
EXTENDS DocumentFeed, FiniteSetTheorems, WellFoundedInduction, TLAPS

-----------------------------------------------------------------------------
(* The inductive invariant.                                                *)

\* A view of a document, wherever it is held or on its way, is of the version of
\* its number, and none is newer than the row. A row that is gone was a part.
Fits(r, d, v) ==
    v # None => IF r[d] # None THEN v.seq <= r[d].seq /\ (v.seq = r[d].seq => v = r[d]) ELSE d # Whole
Numbered ==
    /\ cursor <= seq /\ (row[Whole] = None => seq <= MaxSeq)
    /\ \A d \in Docs : row[d] # None => row[d].seq <= seq
ViewsFit ==
    /\ \A d \in Docs : Fits(row, d, held[d])
    /\ \A p \in Polls, d \in Docs : poll[p] # None => Fits(row, d, poll[p].rows[d])
    /\ \A c \in Calls, d \in Docs : Fits(row, d, call[c].view[d])

\* The page of a poll holds every version between its two ends that is still the
\* newest: one that was quarantined while the page was read has a later number.
Covers(r, q) ==
    \A d \in Docs : r[d] # None /\ q.since < r[d].seq /\ r[d].seq <= q.next => q.rows[d] = r[d]
PagesCover ==
    \A p \in Polls : poll[p] # None =>
        /\ poll[p].since <= seq /\ poll[p].next <= seq
        /\ ~poll[p].stale => /\ poll[p].since <= cursor
                             /\ poll[p].step = "answered" => Covers(row, poll[p])

\* The poll that others join is the one of this generation, and one timer or one
\* poll drives the loop of this sign-in.
Joinable == \A p \in Polls : (poll[p] # None /\ ~poll[p].stale) <=> inflight = p
Drives(p) == poll[p] # None /\ loop \in poll[p].loops
Driven ==
    /\ stray = 0 /\ (timer => running) /\ (running => loop > 0)
    /\ \A p \in Polls : poll[p] # None => \A l \in poll[p].loops : l <= loop
    /\ running => IF timer THEN \A p \in Polls : ~Drives(p)
                           ELSE \E p \in Polls : Drives(p) /\ \A q \in Polls : Drives(q) => q = p

\* The parts that a combine read were not on their way to Drive, as long as they
\* are as it read them.
PartsUnsent ==
    \A c \in Calls : call[c].step = "building" =>
        \A p \in Parts : /\ call[c].seqs[p] <= seq
                         /\ row[p] # None /\ row[p].seq = call[c].seqs[p] => p \notin sent

FeedInv ==
    /\ TypeOK /\ Numbered /\ ViewsFit /\ PagesCover /\ Joinable /\ Driven /\ PartsUnsent
    /\ NothingSkipped

-----------------------------------------------------------------------------
(* Facts about the operators of the model.                                 *)

\* Some natural numbers up to a bound have a greatest one.
LEMMA LeastOf ==
    ASSUME NEW T, T \subseteq Nat, T # {}
    PROVE  \E m \in T : \A k \in T : m <= k
<1> DEFINE R == OpToRel(<, Nat)
<1>1. IsWellFoundedOn(R, Nat) BY NatLessThanWellFounded
<1>2. \A x, y \in Nat : x < y => <<x, y>> \in R BY DEF OpToRel
<1> HIDE DEF R
<1>3. PICK m \in T : \A k \in T : ~(<<k, m>> \in R) BY <1>1, WFMin
<1>4. \A k \in T : ~(k < m) BY <1>2, <1>3
<1> QED BY <1>4
LEMMA GreatestOf ==
    ASSUME NEW n \in Nat, NEW T, T \subseteq 0..n, T # {}
    PROVE  \E m \in T : \A k \in T : k <= m
<1> DEFINE U == {n - k : k \in T}
<1>1. U \subseteq Nat /\ U # {}
  <2>1. \A k \in T : k \in Nat /\ k <= n OBVIOUS
  <2>2. \A k \in T : n - k \in Nat BY <2>1
  <2> QED BY <2>2
<1> HIDE DEF U
<1>2. PICK u \in U : \A v \in U : u <= v BY <1>1, LeastOf
<1> USE DEF U
<1>3. PICK m \in T : u = n - m OBVIOUS
<1>4. ASSUME NEW k \in T PROVE k <= m
  <2>1. n - k \in U OBVIOUS
  <2>2. u <= n - k BY <1>2, <2>1
  <2> QED BY <1>3, <2>2
<1> QED BY <1>4
LEMMA MaxOf ==
    ASSUME NEW n \in Nat, NEW T, T \subseteq 0..n, T # {}
    PROVE  Max(T) \in T /\ \A k \in T : k <= Max(T)
<1>1. PICK m \in T : \A k \in T : m >= k
    <2>1. PICK m \in T : \A k \in T : k <= m BY GreatestOf
    <2>2. T \subseteq Nat OBVIOUS
    <2> QED BY <2>1, <2>2
<1>2. Max(T) \in T /\ \A k \in T : Max(T) >= k BY <1>1 DEF Max
<1>3. T \subseteq Nat OBVIOUS
<1> QED BY <1>2, <1>3

LEMMA Sizes ==
    /\ IsFiniteSet(Docs) /\ Cardinality(Parts) \in Nat /\ Last \in Nat /\ MaxSeq \in Nat
    /\ MaxSeq < Last /\ Last = MaxSeq + 1 + Cardinality(Parts) /\ Cardinality(Parts) <= MaxSeq
<1>1. IsFiniteSet(Docs) BY FeedAssumption, FS_AddElement DEF Docs
<1>2. Cardinality(Parts) \in Nat /\ MaxSeq \in Nat BY FeedAssumption, FS_CardinalityType
<1> QED BY <1>1, <1>2, FeedAssumption DEF Last
LEMMA ViewFields ==
    ASSUME NEW v \in Views
    PROVE  v # None /\ v.seq \in 1..Last /\ v.seq \in Nat /\ v.seq >= 1 /\ v.seq <= Last /\ v.state \in States
<1>1. v # None /\ v.seq \in 1..Last /\ v.state \in States BY NoneAssumption DEF Views
<1> QED BY <1>1, Sizes
LEMMA RowFields ==
    ASSUME TypeOK, NEW d \in Docs, row[d] # None
    PROVE  row[d] \in Views /\ row[d].seq \in Nat /\ row[d].seq >= 1 /\ row[d].state \in States
BY ViewFields DEF TypeOK
LEMMA SeqIsNatural == ASSUME TypeOK PROVE seq \in Nat /\ seq <= Last /\ cursor \in Nat
BY Sizes DEF TypeOK

\* The place of a document in the order of numbers among some documents.
LEMMA BehindFacts ==
    ASSUME TypeOK, NEW ds \in SUBSET Docs, \A d \in ds : row[d] # None
    PROVE  /\ Cardinality(ds) \in Nat /\ IsFiniteSet(ds)
           /\ \A d \in ds : Behind(d, ds) \in Nat /\ Behind(d, ds) < Cardinality(ds)
           /\ \A d, e \in ds : row[d].seq <= row[e].seq => Behind(d, ds) <= Behind(e, ds)
<1>1. IsFiniteSet(ds) /\ Cardinality(ds) \in Nat BY Sizes, FS_Subset, FS_CardinalityType
<1>2. \A d \in ds : row[d].seq \in Nat BY RowFields
<1>3. ASSUME NEW d \in ds PROVE Behind(d, ds) \in Nat /\ Behind(d, ds) < Cardinality(ds)
    <2> DEFINE T == {e \in ds : row[e].seq < row[d].seq}
    <2>1. T \in SUBSET (ds \ {d}) BY <1>2
    <2>2. IsFiniteSet(ds \ {d}) /\ Cardinality(ds \ {d}) = Cardinality(ds) - 1 BY <1>1, <1>3, FS_RemoveElement
    <2>3. IsFiniteSet(T) /\ Cardinality(T) <= Cardinality(ds \ {d}) BY <2>1, <2>2, FS_Subset
    <2>4. Cardinality(T) \in Nat BY <2>3, FS_CardinalityType
    <2> HIDE DEF T
    <2>5. Cardinality(T) < Cardinality(ds) BY <1>1, <2>2, <2>3, <2>4
    <2> QED BY <2>4, <2>5 DEF Behind, T
<1>4. ASSUME NEW d \in ds, NEW e \in ds, row[d].seq <= row[e].seq PROVE Behind(d, ds) <= Behind(e, ds)
    <2> DEFINE T == {x \in ds : row[x].seq < row[d].seq}
               U == {x \in ds : row[x].seq < row[e].seq}
    <2>1. T \in SUBSET U BY <1>2, <1>4
    <2>2. U \in SUBSET ds OBVIOUS
    <2>3. IsFiniteSet(U) BY <1>1, <2>2, FS_Subset
    <2>4. Cardinality(T) <= Cardinality(U) BY <2>1, <2>3, FS_Subset
    <2> QED BY <2>4 DEF Behind
<1> QED BY <1>1, <1>3, <1>4

\* A page holds every document whose number is after the one asked for and not after
\* the last on the page.
LEMMA PageFacts ==
    ASSUME TypeOK, Numbered, NEW since \in Nat, since <= seq
    PROVE  /\ Page(since) \in SUBSET Docs /\ \A d \in Page(since) : row[d] # None
           /\ LastSeq(Page(since), since) \in Nat /\ LastSeq(Page(since), since) <= seq
           /\ \A d \in Docs : row[d] # None /\ since < row[d].seq /\ row[d].seq <= LastSeq(Page(since), since)
                                  => d \in Page(since)
<1> DEFINE after == {d \in Docs : Exists(d) /\ row[d].seq > since}
           ds == Page(since)
           T == {since} \cup {row[d].seq : d \in ds}
<1>1. after \in SUBSET Docs /\ \A d \in after : row[d] # None BY DEF Exists
<1>2. ds = {d \in after : Behind(d, after) < PageSize} BY DEF Page
<1>3. seq \in Nat BY SeqIsNatural
<1>4. \A d \in Docs : row[d] # None => row[d].seq \in Nat /\ row[d].seq <= seq BY RowFields DEF Numbered
<1>5. T \subseteq 0..seq /\ T # {}
    <2>1. since \in 0..seq BY <1>3
    <2>2. \A d \in ds : row[d].seq \in Nat /\ row[d].seq <= seq BY <1>1, <1>2, <1>4
    <2>3. \A d \in ds : row[d].seq \in 0..seq BY <1>3, <2>2
    <2> HIDE DEF ds
    <2> QED BY <2>1, <2>3
<1>6. Max(T) \in T /\ \A k \in T : k <= Max(T) BY <1>3, <1>5, MaxOf
<1>7. LastSeq(ds, since) = Max(T) BY DEF LastSeq
<1>8. Max(T) \in Nat /\ Max(T) <= seq BY <1>3, <1>5, <1>6
<1>9. ASSUME NEW d \in Docs, row[d] # None, since < row[d].seq, row[d].seq <= Max(T)
      PROVE  d \in ds
    <2>1. d \in after /\ row[d].seq \in Nat BY <1>4, <1>9 DEF Exists
    <2>2. Max(T) # since BY <1>9, <2>1
    <2>3. PICK e \in ds : Max(T) = row[e].seq BY <1>6, <2>2
    <2>4. e \in after /\ Behind(e, after) < PageSize BY <1>2
    <2>5. Behind(d, after) <= Behind(e, after) /\ Behind(d, after) \in Nat /\ Behind(e, after) \in Nat
        BY <1>1, <1>9, <2>1, <2>3, <2>4, BehindFacts
    <2>6. Behind(d, after) < PageSize BY <2>4, <2>5, FeedAssumption
    <2> QED BY <1>2, <2>1, <2>6
<1> QED BY <1>1, <1>2, <1>7, <1>8, <1>9

-----------------------------------------------------------------------------
(* What the server does to the rows.                                       *)

\* A row that changes gets a number that was never used; only the combined document
\* comes anew, and it is never purged.
ServerMoves ==
    /\ seq <= seq' /\ (row'[Whole] = None => seq' <= MaxSeq)
    /\ \A d \in Docs :
          /\ row'[d] # None /\ row'[d] # row[d] =>
                 (row[d] # None \/ d = Whole) /\ row'[d].seq > seq /\ row'[d].seq <= seq'
          /\ row'[d] = None /\ row[d] # None => d # Whole

\* The views that fitted still do, and so do the pages.
LEMMA FitsStays ==
    ASSUME TypeOK, TypeOK', Numbered, ServerMoves, NEW d \in Docs, NEW v \in Views \cup {None}, Fits(row, d, v)
    PROVE  Fits(row', d, v)
<1>1. seq \in Nat BY SeqIsNatural
<1>2. row'[d] \in Views \cup {None} BY DEF TypeOK
<1>3. CASE v = None BY <1>3 DEF Fits
<1>4. CASE v # None /\ row'[d] = row[d] BY <1>4 DEF Fits
<1>5. CASE v # None /\ row'[d] # row[d] /\ row'[d] = None BY <1>5 DEF Fits, ServerMoves
<1>6. CASE v # None /\ row'[d] # row[d] /\ row'[d] # None
    <2>1. row[d] # None /\ v.seq <= row[d].seq BY <1>6 DEF Fits, ServerMoves
    <2>2. row[d].seq \in Nat /\ row[d].seq <= seq BY <2>1, RowFields DEF Numbered
    <2>3. v.seq \in Nat /\ row'[d].seq \in Nat BY <1>2, <1>6, ViewFields
    <2>4. row'[d].seq > seq BY <1>6 DEF ServerMoves
    <2>5. v.seq < row'[d].seq BY <1>1, <2>1, <2>2, <2>3, <2>4
    <2> QED BY <1>6, <2>3, <2>5 DEF Fits
<1> QED BY <1>3, <1>4, <1>5, <1>6
LEMMA CoversStays ==
    ASSUME TypeOK, TypeOK', ServerMoves, NEW q, q.next \in Nat, q.next <= seq, Covers(row, q)
    PROVE  Covers(row', q)
<1>1. seq \in Nat BY SeqIsNatural
<1>2. ASSUME NEW d \in Docs, row'[d] # None, row'[d].seq <= q.next PROVE row'[d] = row[d]
    <2>1. row'[d].seq \in Nat BY <1>2, ViewFields DEF TypeOK
    <2>2. ~(row'[d].seq > seq) BY <1>1, <1>2, <2>1
    <2> QED BY <1>2, <2>2 DEF ServerMoves
<1> QED BY <1>2 DEF Covers

LEMMA ServerKeeps ==
    ASSUME FeedInv, TypeOK', ServerMoves, UNCHANGED <<held, cursor>>,
           \A p \in Parts : p \in sent' /\ p \notin sent => row'[p] # row[p]
    PROVE  /\ Numbered' /\ NothingSkipped'
           /\ \A d \in Docs : Fits(row', d, held'[d])
           /\ \A p \in Polls, d \in Docs : poll[p] # None => Fits(row', d, poll[p].rows[d])
           /\ \A c \in Calls, d \in Docs : Fits(row', d, call[c].view[d])
           /\ \A p \in Polls : poll[p] # None =>
                  /\ poll[p].since <= seq' /\ poll[p].next <= seq'
                  /\ ~poll[p].stale => /\ poll[p].since <= cursor'
                                       /\ poll[p].step = "answered" => Covers(row', poll[p])
           /\ \A c \in Calls : call[c].step = "building" =>
                  \A p \in Parts : /\ call[c].seqs[p] <= seq'
                                   /\ row'[p] # None /\ row'[p].seq = call[c].seqs[p] => p \notin sent'
<1>1. TypeOK /\ Numbered /\ ViewsFit /\ PagesCover /\ PartsUnsent /\ NothingSkipped BY DEF FeedInv
<1>2. seq \in Nat /\ seq' \in Nat /\ seq <= seq' /\ cursor \in Nat
    BY <1>1, SeqIsNatural, Sizes DEF ServerMoves, TypeOK
<1>3. \A d \in Docs : row[d] # None => row[d].seq \in Nat /\ row[d].seq <= seq
    BY <1>1, RowFields DEF Numbered
<1>4. \A d \in Docs : row'[d] # None => row'[d].seq \in Nat BY ViewFields DEF TypeOK
<1>5. Numbered'
    <2>1. ASSUME NEW d \in Docs, row'[d] # None PROVE row'[d].seq <= seq'
        <3>1. CASE row'[d] = row[d] BY <1>2, <1>3, <2>1, <3>1
        <3>2. CASE row'[d] # row[d] BY <2>1, <3>2 DEF ServerMoves
        <3> QED BY <3>1, <3>2
    <2>2. cursor' <= seq' BY <1>1, <1>2 DEF Numbered
    <2> QED BY <2>1, <2>2 DEF Numbered, ServerMoves
<1>6. NothingSkipped'
    <2>1. ASSUME NEW d \in Docs, row'[d] # None, row'[d].seq <= cursor PROVE row'[d] = row[d]
        <3>1. ~(row'[d].seq > seq) BY <1>1, <1>2, <1>4, <2>1 DEF Numbered
        <3> QED BY <2>1, <3>1 DEF ServerMoves
    <2> QED BY <1>1, <2>1 DEF NothingSkipped, Exists
<1>7. \A d \in Docs : Fits(row', d, held'[d])
    <2>1. \A d \in Docs : held[d] \in Views \cup {None} BY <1>1 DEF TypeOK
    <2>2. \A d \in Docs : Fits(row', d, held[d]) BY <1>1, <2>1, FitsStays DEF ViewsFit
    <2> QED BY <2>2
<1>8. ASSUME NEW p \in Polls, poll[p] # None
      PROVE  /\ \A d \in Docs : Fits(row', d, poll[p].rows[d])
             /\ poll[p].since <= seq' /\ poll[p].next <= seq'
             /\ ~poll[p].stale => /\ poll[p].since <= cursor'
                                  /\ poll[p].step = "answered" => Covers(row', poll[p])
    <2>1. poll[p] \in Pages BY <1>1, <1>8 DEF TypeOK
    <2>2. poll[p].since \in Nat /\ poll[p].next \in Nat /\ \A d \in Docs : poll[p].rows[d] \in Views \cup {None}
        BY <2>1, Sizes DEF Pages
    <2>3. \A d \in Docs : Fits(row', d, poll[p].rows[d]) BY <1>1, <1>8, <2>2, FitsStays DEF ViewsFit
    <2>4. /\ poll[p].since <= seq /\ poll[p].next <= seq
          /\ ~poll[p].stale => /\ poll[p].since <= cursor
                               /\ poll[p].step = "answered" => Covers(row, poll[p])
        BY <1>1, <1>8 DEF PagesCover
    <2>5. Covers(row, poll[p]) => Covers(row', poll[p]) BY <1>1, <2>2, <2>4, CoversStays
    <2>6. poll[p].since <= seq' /\ poll[p].next <= seq' BY <1>2, <2>2, <2>4
    <2> QED BY <2>3, <2>4, <2>5, <2>6
<1>9. ASSUME NEW c \in Calls, NEW d \in Docs PROVE Fits(row', d, call[c].view[d])
    <2>1. call[c].view[d] \in Views \cup {None} BY <1>1 DEF TypeOK
    <2> QED BY <1>1, <2>1, FitsStays DEF ViewsFit
<1>10. ASSUME NEW c \in Calls, call[c].step = "building", NEW p \in Parts
       PROVE  /\ call[c].seqs[p] <= seq'
              /\ row'[p] # None /\ row'[p].seq = call[c].seqs[p] => p \notin sent'
    <2>1. call[c].seqs[p] \in Nat /\ p \in Docs BY <1>1, Sizes DEF TypeOK, Docs
    <2>2. call[c].seqs[p] <= seq /\ (row[p] # None /\ row[p].seq = call[c].seqs[p] => p \notin sent)
        BY <1>1, <1>10 DEF PartsUnsent
    <2>3. call[c].seqs[p] <= seq' BY <1>2, <2>1, <2>2
    <2>4. ASSUME row'[p] # None, row'[p].seq = call[c].seqs[p] PROVE p \notin sent'
        <3>1. ~(row'[p].seq > seq) BY <1>2, <2>1, <2>2, <2>4
        <3>2. row'[p] = row[p] BY <2>1, <2>4, <3>1 DEF ServerMoves
        <3> QED BY <2>2, <2>4, <3>2
    <2> QED BY <2>3, <2>4
<1> QED BY <1>5, <1>6, <1>7, <1>8, <1>9, <1>10

\* transition(), the reading of rows, and the insert of a combined document.
LEMMA MoveFacts ==
    ASSUME TypeOK, Numbered, NEW d \in Docs, row[d] # None, NEW state \in States, Move(d, state)
    PROVE  /\ row' \in [Docs -> Views \cup {None}] /\ seq' \in 0..Last /\ ServerMoves
           /\ row'[d] = [seq |-> seq + 1, state |-> state] /\ row'[d] # row[d] /\ row'[d] # None /\ row'[d] \in Views
<1>1. seq \in Nat /\ seq < MaxSeq /\ seq' = seq + 1 /\ seq + 1 \in 1..Last /\ seq' \in 0..Last /\ seq' <= MaxSeq
    BY SeqIsNatural, Sizes DEF Move
<1> DEFINE v == [seq |-> seq + 1, state |-> state]
<1>2. v \in Views /\ v.seq = seq + 1 BY <1>1 DEF Views
<1>3. row' = [row EXCEPT ![d] = v] BY DEF Move
<1> HIDE DEF v
<1>4. row' \in [Docs -> Views \cup {None}] /\ row'[d] = v /\ \A e \in Docs \ {d} : row'[e] = row[e]
    BY <1>2, <1>3 DEF TypeOK
<1>5. v # None /\ v # row[d]
    <2>1. row[d].seq \in Nat /\ row[d].seq <= seq BY RowFields DEF Numbered
    <2>2. v.seq # row[d].seq BY <1>1, <1>2, <2>1
    <2> QED BY <1>2, <2>2, ViewFields
<1>6. Whole \in Docs BY DEF Docs
<1>7. ServerMoves BY <1>1, <1>2, <1>4, <1>5 DEF ServerMoves
<1> QED BY <1>1, <1>2, <1>4, <1>5, <1>7 DEF v
LEMMA ReadFacts ==
    ASSUME TypeOK, Numbered, NEW ds \in SUBSET Docs, \A d \in ds : row[d] # None, Read(ds)
    PROVE  /\ row' \in [Docs -> Views \cup {None}] /\ seq' \in 0..Last /\ ServerMoves
           /\ unreadable' \subseteq Docs
           /\ \A d \in Docs : row'[d] # None <=> row[d] # None
           /\ \A d \in Docs : row'[d] # row[d] => row'[d].seq > seq
<1> DEFINE bad == ds \cap unreadable
<1>1. bad \in SUBSET Docs /\ \A d \in bad : row[d] # None OBVIOUS
<1>2. Cardinality(bad) \in Nat /\ \A d \in bad : Behind(d, bad) \in Nat /\ Behind(d, bad) < Cardinality(bad)
    BY <1>1, BehindFacts
<1>3. seq' = seq + Cardinality(bad) /\ (bad = {} \/ seq + Cardinality(bad) <= MaxSeq) /\ row' = AfterReading(ds)
      /\ unreadable' = unreadable \ ds
    BY DEF Read
<1>4. row' = [d \in Docs |-> IF d \in bad THEN [seq |-> seq + 1 + Behind(d, bad), state |-> Quarantined(row[d].state)]
                             ELSE row[d]]
    BY <1>3 DEF AfterReading
<1>5. seq \in Nat /\ seq <= seq' /\ seq' \in 0..Last /\ (seq <= MaxSeq => seq' <= MaxSeq)
    <2>1. seq \in Nat /\ seq \in 0..Last BY SeqIsNatural DEF TypeOK
    <2>2. CASE bad = {}
        <3>1. Cardinality(bad) = 0 BY <2>2, FS_EmptySet
        <3>2. seq' = seq BY <1>3, <2>1, <3>1
        <3> QED BY <2>1, <3>2
    <2>3. CASE seq + Cardinality(bad) <= MaxSeq BY <1>2, <1>3, <2>1, <2>3, Sizes
    <2> QED BY <1>3, <2>2, <2>3
<1> HIDE DEF bad
<1>6. ASSUME NEW d \in bad
      PROVE  row'[d] \in Views /\ row'[d].seq = seq + 1 + Behind(d, bad) /\ row'[d].seq > seq /\ row'[d].seq <= seq'
             /\ row'[d] # None /\ d \in Docs
    <2>1. d \in Docs /\ row'[d] = [seq |-> seq + 1 + Behind(d, bad), state |-> Quarantined(row[d].state)]
        BY <1>1, <1>4
    <2>2. Quarantined(row[d].state) \in States BY <1>1, <2>1, RowFields DEF Quarantined, States
    <2>3. Behind(d, bad) \in Nat /\ Behind(d, bad) < Cardinality(bad) BY <1>2
    <2>4. seq + 1 + Behind(d, bad) > seq /\ seq + 1 + Behind(d, bad) <= seq' BY <1>2, <1>3, <1>5, <2>3
    <2>5. seq + 1 + Behind(d, bad) \in 1..Last BY <1>5, <2>3, <2>4, Sizes
    <2>6. row'[d] \in Views BY <2>1, <2>2, <2>5 DEF Views
    <2> QED BY <2>1, <2>4, <2>6, ViewFields
<1>7. \A d \in Docs \ bad : row'[d] = row[d] BY <1>4
<1>8. row' \in [Docs -> Views \cup {None}]
    <2>1. \A d \in Docs : row'[d] \in Views \cup {None} BY <1>6, <1>7 DEF TypeOK
    <2>2. row' = [d \in Docs |-> row'[d]] BY <1>4
    <2> QED BY <2>1, <2>2
<1>9. \A d \in Docs : row'[d] # None <=> row[d] # None BY <1>1, <1>6, <1>7
<1>10. \A d \in Docs : row'[d] # row[d] => row'[d].seq > seq /\ row'[d].seq <= seq' BY <1>6, <1>7
<1>11. ServerMoves
    <2>1. Whole \in Docs BY DEF Docs
    <2>2. row'[Whole] = None => seq' <= MaxSeq BY <1>5, <1>9, <2>1 DEF Numbered
    <2> QED BY <1>5, <1>9, <1>10, <2>2 DEF ServerMoves
<1>12. unreadable' \subseteq Docs BY <1>3 DEF TypeOK
<1> QED BY <1>5, <1>8, <1>9, <1>10, <1>11, <1>12
LEMMA CombinedFacts ==
    ASSUME TypeOK, Numbered, row[Whole] = None, \A p \in Parts : row[p] # None,
           seq' = seq + 1 + Cardinality(Parts), row' = Combined
    PROVE  /\ row' \in [Docs -> Views \cup {None}] /\ seq' \in 0..Last /\ ServerMoves
           /\ row'[Whole] # None /\ row'[Whole] \in Views
<1>1. Cardinality(Parts) \in Nat /\ \A p \in Parts : Behind(p, Parts) \in Nat /\ Behind(p, Parts) < Cardinality(Parts)
    <2>1. Parts \in SUBSET Docs BY DEF Docs
    <2> QED BY <2>1, BehindFacts
<1>2. seq \in Nat /\ seq <= MaxSeq BY SeqIsNatural DEF Numbered
<1>3. seq' \in 0..Last /\ seq <= seq' BY <1>1, <1>2, Sizes
<1>4. row'[Whole] = [seq |-> seq + 1, state |-> "received"] /\ Whole \in Docs BY DEF Combined, Docs
<1>5. seq + 1 \in 1..Last /\ seq + 1 > seq /\ seq + 1 <= seq' BY <1>1, <1>2, Sizes
<1>6. row'[Whole] \in Views /\ row'[Whole].seq = seq + 1 BY <1>4, <1>5 DEF Views, States
<1>7. ASSUME NEW p \in Parts PROVE row'[p] \in Views /\ row'[p].seq > seq /\ row'[p].seq <= seq' /\ row'[p] # None
    <2>1. row'[p] = [seq |-> seq + 2 + Behind(p, Parts), state |-> "discarded"]
        BY FeedAssumption DEF Combined, Docs
    <2>2. Behind(p, Parts) \in Nat /\ Behind(p, Parts) < Cardinality(Parts) BY <1>1
    <2>3. seq + 2 + Behind(p, Parts) > seq /\ seq + 2 + Behind(p, Parts) <= seq' BY <1>1, <1>2, <2>2
    <2>4. seq + 2 + Behind(p, Parts) \in 1..Last BY <1>2, <1>3, <2>2, <2>3, Sizes
    <2>5. row'[p] \in Views BY <2>1, <2>4 DEF Views, States
    <2> QED BY <2>1, <2>3, <2>5, ViewFields
<1>8. \A d \in Docs : row'[d] \in Views /\ row'[d].seq > seq /\ row'[d].seq <= seq' /\ row'[d] # None
      /\ (row[d] # None \/ d = Whole)
    BY <1>5, <1>6, <1>7, ViewFields DEF Docs
<1>9. row' \in [Docs -> Views \cup {None}]
    <2>1. row' = [d \in Docs |-> row'[d]] BY DEF Combined
    <2> QED BY <1>8, <2>1
<1>10. ServerMoves BY <1>3, <1>4, <1>8 DEF ServerMoves
<1> QED BY <1>3, <1>4, <1>6, <1>8, <1>9, <1>10

-----------------------------------------------------------------------------
(* The actions of the server alone, and the answer to a poll.              *)

LEMMA RowsRest ==
    ASSUME TypeOK, Numbered, UNCHANGED <<row, seq>>
    PROVE  ServerMoves
BY SeqIsNatural DEF ServerMoves, Numbered

\* Nothing of the polls that Joinable and Driven tell apart has changed.
LEMMA PollsRest ==
    ASSUME FeedInv, UNCHANGED <<inflight, running, loop, timer, stray>>,
           \A p \in Polls : /\ poll'[p] # None <=> poll[p] # None
                            /\ poll[p] # None => poll'[p].stale = poll[p].stale /\ poll'[p].loops = poll[p].loops
    PROVE  Joinable' /\ Driven'
<1>1. Joinable /\ Driven BY DEF FeedInv
<1>2. \A p \in Polls : Drives(p)' <=> Drives(p) BY DEF Drives
<1>3. Joinable' BY <1>1 DEF Joinable
<1>4. Driven' BY <1>1, <1>2 DEF Driven
<1> QED BY <1>3, <1>4
LEMMA ServerOnly ==
    ASSUME FeedInv, TypeOK', ServerMoves, UNCHANGED <<sync, poll, call>>,
           \A p \in Parts : p \in sent' /\ p \notin sent => row'[p] # row[p]
    PROVE  FeedInv'
<1>1. /\ Numbered' /\ NothingSkipped'
      /\ \A d \in Docs : Fits(row', d, held'[d])
      /\ \A p \in Polls, d \in Docs : poll[p] # None => Fits(row', d, poll[p].rows[d])
      /\ \A c \in Calls, d \in Docs : Fits(row', d, call[c].view[d])
      /\ \A p \in Polls : poll[p] # None =>
             /\ poll[p].since <= seq' /\ poll[p].next <= seq'
             /\ ~poll[p].stale => /\ poll[p].since <= cursor'
                                  /\ poll[p].step = "answered" => Covers(row', poll[p])
      /\ \A c \in Calls : call[c].step = "building" =>
             \A p \in Parts : /\ call[c].seqs[p] <= seq'
                              /\ row'[p] # None /\ row'[p].seq = call[c].seqs[p] => p \notin sent'
    BY ServerKeeps DEF sync
<1>2. Joinable' /\ Driven' BY PollsRest DEF sync
<1>3. ViewsFit' /\ PagesCover' /\ PartsUnsent' BY <1>1 DEF ViewsFit, PagesCover, PartsUnsent
<1> QED BY <1>1, <1>2, <1>3 DEF FeedInv

LEMMA AdvanceKeeps == ASSUME FeedInv, NEW d \in Docs, Advance(d) PROVE FeedInv'
<1>1. TypeOK /\ Numbered BY DEF FeedInv
<1>2. PICK state \in States : Move(d, state) BY DEF Advance, States
<1>3. row[d] # None BY DEF Advance, Exists
<1>4. row' \in [Docs -> Views \cup {None}] /\ seq' \in 0..Last /\ ServerMoves /\ row'[d] # row[d]
    BY <1>1, <1>2, <1>3, MoveFacts
<1>5. sent' \subseteq Parts /\ sent' \subseteq sent \cup {d}
      /\ UNCHANGED <<unreadable, session, sync, poll, call, faults>>
    BY <1>1 DEF Advance, TypeOK
<1>6. TypeOK' BY <1>1, <1>4, <1>5 DEF TypeOK, sync
<1>7. \A p \in Parts : p \in sent' /\ p \notin sent => row'[p] # row[p] BY <1>4, <1>5
<1> QED BY <1>4, <1>5, <1>6, <1>7, ServerOnly
LEMMA WorkerReadsKeeps == ASSUME FeedInv, NEW d \in Docs, WorkerReads(d) PROVE FeedInv'
<1>1. TypeOK /\ Numbered BY DEF FeedInv
<1>2. Read({d}) /\ row[d] # None /\ UNCHANGED <<sent, session, sync, poll, call, faults>> BY DEF WorkerReads, Exists
<1>3. row' \in [Docs -> Views \cup {None}] /\ seq' \in 0..Last /\ ServerMoves /\ unreadable' \subseteq Docs
    BY <1>1, <1>2, ReadFacts
<1>4. TypeOK' BY <1>1, <1>2, <1>3 DEF TypeOK, sync
<1> QED BY <1>2, <1>3, <1>4, ServerOnly
LEMMA DamageKeeps == ASSUME FeedInv, NEW d \in Docs, Spoil(d) \/ Purge(d) PROVE FeedInv'
<1>1. TypeOK /\ Numbered BY DEF FeedInv
<1>2. CASE Spoil(d)
    <2>1. faults' \in 0..MaxFaults BY <1>1, <1>2, FeedAssumption DEF Spoil, Fault, TypeOK
    <2>2. TypeOK' BY <1>1, <1>2, <2>1 DEF Spoil, TypeOK, sync
    <2>3. ServerMoves BY <1>1, <1>2, RowsRest DEF Spoil
    <2> QED BY <1>2, <2>2, <2>3, ServerOnly DEF Spoil
<1>3. CASE Purge(d)
    <2>1. row' = [row EXCEPT ![d] = None] /\ d \in Parts /\ UNCHANGED <<seq, sent, session, sync, poll, call, faults>>
        BY <1>3 DEF Purge
    <2>2. row' \in [Docs -> Views \cup {None}] /\ row'[d] = None /\ \A e \in Docs \ {d} : row'[e] = row[e]
        BY <1>1, <2>1 DEF TypeOK
    <2>3. TypeOK' BY <1>1, <1>3, <2>1, <2>2 DEF Purge, TypeOK, sync
    <2>4. ServerMoves
        <3>1. Whole \in Docs /\ Whole # d BY <2>1, FeedAssumption DEF Docs
        <3>2. seq <= seq' BY <1>1, <2>1, SeqIsNatural
        <3> QED BY <1>1, <2>1, <2>2, <3>1, <3>2 DEF ServerMoves, Numbered
    <2> QED BY <2>1, <2>3, <2>4, ServerOnly
<1> QED BY <1>2, <1>3

\* What a poll is made of.
LEMMA PageFields ==
    ASSUME NEW q \in Pages
    PROVE  /\ q # None /\ q.stale \in BOOLEAN /\ q.page \in 0..(MaxPages - 1) /\ q.since \in 0..Last /\ q.since \in Nat
           /\ q.step \in {"sent", "answered"} /\ q.rows \in [Docs -> Views \cup {None}]
           /\ q.next \in 0..Last /\ q.next \in Nat /\ q.loops \in SUBSET (1..MaxLoops)
<1>1. /\ q # None /\ q.stale \in BOOLEAN /\ q.page \in 0..(MaxPages - 1) /\ q.since \in 0..Last
      /\ q.step \in {"sent", "answered"} /\ q.rows \in [Docs -> Views \cup {None}]
      /\ q.next \in 0..Last /\ q.loops \in SUBSET (1..MaxLoops)
    BY NoneAssumption DEF Pages
<1> QED BY <1>1, Sizes
LEMMA ListReadsKeeps == ASSUME FeedInv, NEW p \in Polls, ListReads(p) PROVE FeedInv'
<1>1. TypeOK /\ Numbered /\ ViewsFit /\ PagesCover /\ PartsUnsent BY DEF FeedInv
<1> DEFINE q == poll[p]
           ds == Page(q.since)
           next == LastSeq(ds, q.since)
           rows == [d \in Docs |-> IF d \in ds THEN row'[d] ELSE None]
           a == [q EXCEPT !.step = "answered", !.next = next, !.rows = rows]
<1>2. q # None /\ q \in Pages BY <1>1 DEF ListReads, TypeOK
<1>3. q.since \in Nat /\ q.since <= seq BY <1>1, <1>2, PageFields DEF PagesCover
<1>4. /\ ds \in SUBSET Docs /\ \A d \in ds : row[d] # None
      /\ next \in Nat /\ next <= seq
      /\ \A d \in Docs : row[d] # None /\ q.since < row[d].seq /\ row[d].seq <= next => d \in ds
    BY <1>1, <1>3, PageFacts
<1>5. Read(ds) /\ UNCHANGED <<sent, session, sync, call, faults>> BY DEF ListReads
<1>6. poll' = [poll EXCEPT ![p] = a]
    <2>1. poll \in [Polls -> Pages \cup {None}] BY <1>1 DEF TypeOK
    <2>2. poll' = [poll EXCEPT ![p].step = "answered", ![p].next = next, ![p].rows = rows] BY DEF ListReads
    <2> HIDE DEF next, rows
    <2> QED BY <2>1, <2>2
<1> HIDE DEF ds, next
<1>7. /\ row' \in [Docs -> Views \cup {None}] /\ seq' \in 0..Last /\ ServerMoves /\ unreadable' \subseteq Docs
      /\ \A d \in Docs : row'[d] # row[d] => row'[d].seq > seq
    BY <1>1, <1>4, <1>5, ReadFacts
<1>8. seq \in Nat /\ seq <= Last BY <1>1, SeqIsNatural
<1>9. rows \in [Docs -> Views \cup {None}] /\ \A d \in Docs : rows[d] = IF d \in ds THEN row'[d] ELSE None
    BY <1>7
<1> HIDE DEF rows
<1>10. next \in 0..Last BY <1>4, <1>8, Sizes
<1>11. a \in Pages /\ a.step = "answered" /\ a.next = next /\ a.rows = rows
       /\ a.stale = q.stale /\ a.since = q.since /\ a.loops = q.loops
    <2> HIDE DEF q
    <2>1. q \in Pages BY <1>2
    <2>2. a = [q EXCEPT !.step = "answered", !.next = next, !.rows = rows] OBVIOUS
    <2> HIDE DEF a
    <2>3. rows \in [Docs -> Views \cup {None}] BY <1>9
    <2>4. a \in Pages BY <1>10, <2>1, <2>2, <2>3 DEF Pages
    <2>5. a.step = "answered" /\ a.next = next /\ a.rows = rows
          /\ a.stale = q.stale /\ a.since = q.since /\ a.loops = q.loops
        BY <2>1, <2>2 DEF Pages
    <2> QED BY <2>4, <2>5
<1> HIDE DEF a
<1>12. poll' \in [Polls -> Pages \cup {None}] /\ poll'[p] = a /\ \A o \in Polls \ {p} : poll'[o] = poll[o]
    BY <1>1, <1>6, <1>11 DEF TypeOK
<1>13. TypeOK' BY <1>1, <1>5, <1>7, <1>12 DEF TypeOK, sync
<1>14. /\ Numbered' /\ NothingSkipped'
       /\ \A d \in Docs : Fits(row', d, held'[d])
       /\ \A o \in Polls, d \in Docs : poll[o] # None => Fits(row', d, poll[o].rows[d])
       /\ \A c \in Calls, d \in Docs : Fits(row', d, call[c].view[d])
       /\ \A o \in Polls : poll[o] # None =>
              /\ poll[o].since <= seq' /\ poll[o].next <= seq'
              /\ ~poll[o].stale => /\ poll[o].since <= cursor'
                                   /\ poll[o].step = "answered" => Covers(row', poll[o])
       /\ \A c \in Calls : call[c].step = "building" =>
              \A o \in Parts : /\ call[c].seqs[o] <= seq'
                               /\ row'[o] # None /\ row'[o].seq = call[c].seqs[o] => o \notin sent'
    BY <1>5, <1>7, <1>13, ServerKeeps DEF sync
<1>15. \A d \in Docs : Fits(row', d, rows[d])
    <2>1. \A d \in Docs : row'[d] # None => row'[d].seq \in Nat BY <1>7, ViewFields
    <2> QED BY <1>9, <2>1 DEF Fits
<1>16. Covers(row', a)
    <2> SUFFICES ASSUME NEW d \in Docs, row'[d] # None, q.since < row'[d].seq, row'[d].seq <= next
                 PROVE  rows[d] = row'[d]
        BY <1>11 DEF Covers
    <2>1. row'[d].seq \in Nat BY <1>7, ViewFields
    <2>2. ~(row'[d].seq > seq) BY <1>4, <1>8, <2>1
    <2>3. row'[d] = row[d] BY <1>7, <2>2
    <2>4. d \in ds BY <1>4, <2>3
    <2> QED BY <1>9, <2>4
<1>17. next <= seq' BY <1>4, <1>7, <1>8, Sizes DEF ServerMoves
<1>18. ViewsFit' BY <1>5, <1>11, <1>12, <1>14, <1>15 DEF ViewsFit
<1>19. PagesCover'
    <2>1. ASSUME NEW o \in Polls, poll'[o] # None
          PROVE  /\ poll'[o].since <= seq' /\ poll'[o].next <= seq'
                 /\ ~poll'[o].stale => /\ poll'[o].since <= cursor'
                                       /\ poll'[o].step = "answered" => Covers(row', poll'[o])
        <3>1. CASE o = p BY <1>2, <1>11, <1>12, <1>14, <1>16, <1>17, <3>1
        <3>2. CASE o # p BY <1>12, <1>14, <2>1, <3>2
        <3> QED BY <3>1, <3>2
    <2> QED BY <2>1 DEF PagesCover
<1>20. PartsUnsent' BY <1>5, <1>14 DEF PartsUnsent
<1>21. Joinable' /\ Driven'
    <2>1. \A o \in Polls : /\ poll'[o] # None <=> poll[o] # None
                           /\ poll[o] # None => poll'[o].stale = poll[o].stale /\ poll'[o].loops = poll[o].loops
        BY <1>2, <1>11, <1>12, PageFields
    <2> QED BY <1>5, <2>1, PollsRest DEF sync
<1> QED BY <1>13, <1>14, <1>18, <1>19, <1>20, <1>21 DEF FeedInv

-----------------------------------------------------------------------------
(* The user's actions.                                                     *)

CallType == [kind: Kinds, docs: SUBSET Docs, step: Steps, view: [Docs -> Views \cup {None}], seqs: [Parts -> 0..Last]]

\* A call before and after: those but one are as they were.
LEMMA CallFields ==
    ASSUME TypeOK, NEW c \in Calls
    PROVE  /\ call \in [Calls -> CallType] /\ call[c] \in CallType
           /\ call[c].docs \in SUBSET Docs /\ call[c].step \in Steps /\ call[c].kind \in Kinds
           /\ call[c].view \in [Docs -> Views \cup {None}] /\ call[c].seqs \in [Parts -> 0..Last]
BY DEF TypeOK, CallType
LEMMA CallBecomes ==
    ASSUME TypeOK, NEW c \in Calls, NEW r \in CallType, call' = [call EXCEPT ![c] = r]
    PROVE  call' \in [Calls -> CallType] /\ call'[c] = r /\ \A b \in Calls \ {c} : call'[b] = call[b]
BY DEF TypeOK, CallType

\* A view that is not there fits, and so does the row itself.
LEMMA OneFits ==
    ASSUME row' \in [Docs -> Views \cup {None}], NEW d \in Docs, NEW e \in Docs, row'[d] # None,
           NEW view, view = [NoViews EXCEPT ![d] = row'[d]]
    PROVE  Fits(row', e, view[e]) /\ view \in [Docs -> Views \cup {None}]
<1>1. row'[d].seq \in Nat BY ViewFields
<1>2. view[e] = IF e = d THEN row'[d] ELSE None BY DEF NoViews
<1>3. view \in [Docs -> Views \cup {None}] BY DEF NoViews
<1>4. Fits(row', e, view[e]) BY <1>1, <1>2 DEF Fits
<1> QED BY <1>3, <1>4
LEMMA NoneFits == ASSUME NEW r, NEW d \in Docs PROVE Fits(r, d, NoViews[d]) /\ NoViews \in [Docs -> Views \cup {None}]
BY DEF Fits, NoViews

\* Steps of a call that leave the sync alone, whatever they do on the server.
LEMMA CallServed ==
    ASSUME FeedInv, TypeOK', ServerMoves, UNCHANGED <<sent, sync, poll>>,
           NEW c \in Calls, NEW r \in CallType, call' = [call EXCEPT ![c] = r],
           r.view = call[c].view \/ \A d \in Docs : Fits(row', d, r.view[d]),
           r.step = "building" => \A p \in Parts : r.seqs[p] <= seq' /\ p \notin sent
    PROVE  FeedInv'
<1>1. TypeOK BY DEF FeedInv
<1>2. /\ Numbered' /\ NothingSkipped'
      /\ \A d \in Docs : Fits(row', d, held'[d])
      /\ \A p \in Polls, d \in Docs : poll[p] # None => Fits(row', d, poll[p].rows[d])
      /\ \A b \in Calls, d \in Docs : Fits(row', d, call[b].view[d])
      /\ \A p \in Polls : poll[p] # None =>
             /\ poll[p].since <= seq' /\ poll[p].next <= seq'
             /\ ~poll[p].stale => /\ poll[p].since <= cursor'
                                  /\ poll[p].step = "answered" => Covers(row', poll[p])
      /\ \A b \in Calls : call[b].step = "building" =>
             \A p \in Parts : /\ call[b].seqs[p] <= seq'
                              /\ row'[p] # None /\ row'[p].seq = call[b].seqs[p] => p \notin sent'
    BY ServerKeeps DEF sync
<1>3. call'[c] = r /\ \A b \in Calls \ {c} : call'[b] = call[b] BY <1>1, CallBecomes
<1>4. Joinable' /\ Driven' BY PollsRest DEF sync
<1>5. PagesCover' BY <1>2 DEF PagesCover
<1>6. \A b \in Calls, d \in Docs : Fits(row', d, call'[b].view[d]) BY <1>2, <1>3
<1>7. ViewsFit' BY <1>2, <1>6 DEF ViewsFit
<1>8. PartsUnsent' BY <1>2, <1>3 DEF PartsUnsent
<1> QED BY <1>2, <1>4, <1>5, <1>7, <1>8 DEF FeedInv

\* How the model writes what becomes of a call.
LEMMA EndedCall ==
    ASSUME NEW docs \in SUBSET Docs
    PROVE  /\ Done \in CallType /\ Done.step = "done" /\ Done.view = NoViews
           /\ [Done EXCEPT !.docs = docs] \in CallType /\ [Done EXCEPT !.docs = docs].step = "done"
           /\ [Done EXCEPT !.docs = docs].view = NoViews
           /\ [Done EXCEPT !.docs = docs, !.step = "sent"] \in CallType
           /\ [Done EXCEPT !.docs = docs, !.step = "sent"].step = "sent"
           /\ [Done EXCEPT !.docs = docs, !.step = "sent"].view = NoViews
<1>1. NoViews \in [Docs -> Views \cup {None}] BY DEF NoViews
<1>2. [p \in Parts |-> 0] \in [Parts -> 0..Last] BY Sizes
<1>3. Done.step = "done" /\ Done.view = NoViews /\ Done.kind = "get" /\ Done.docs = {} BY DEF Done
<1>4. Done \in CallType
    <2> HIDE DEF NoViews
    <2> QED BY <1>1, <1>2 DEF Done, CallType, Kinds, Steps
<1> HIDE DEF Done
<1> QED BY <1>3, <1>4 DEF CallType, Steps

LEMMA SendKeeps ==
    ASSUME FeedInv, NEW c \in Calls, NEW kind \in Kinds, NEW docs \in SUBSET Docs, Send(c, kind, docs)
    PROVE  FeedInv'
<1> DEFINE r == [call[c] EXCEPT !.kind = kind, !.docs = docs, !.step = "sent"]
<1>1. TypeOK /\ Numbered BY DEF FeedInv
<1>2. call \in [Calls -> CallType] /\ call[c] \in CallType BY <1>1, CallFields
<1>3. call' = [call EXCEPT ![c] = r] BY <1>2 DEF Send
<1>4. r \in CallType /\ r.step = "sent" /\ r.view = call[c].view BY <1>2 DEF CallType, Steps
<1> HIDE DEF r
<1>5. call' \in [Calls -> CallType] BY <1>1, <1>3, <1>4, CallBecomes
<1>6. UNCHANGED <<server, session, sync, poll, faults>> BY DEF Send
<1>7. TypeOK' BY <1>1, <1>5, <1>6 DEF TypeOK, CallType, server, sync
<1>8. ServerMoves BY <1>1, <1>6, RowsRest DEF server
<1> QED BY <1>3, <1>4, <1>6, <1>7, <1>8, CallServed DEF server
LEMMA UserKeeps == ASSUME FeedInv, User PROVE FeedInv'
<1>1. CASE \E c \in Calls, kind \in Kinds, d \in Docs : Act(c, kind, d)
    <2>1. PICK c \in Calls, kind \in Kinds, d \in Docs : Act(c, kind, d) BY <1>1
    <2>2. Send(c, kind, {d}) /\ {d} \in SUBSET Docs BY <2>1 DEF Act
    <2> QED BY <2>2, SendKeeps
<1>2. CASE \E c \in Calls : Combine(c)
    <2>1. PICK c \in Calls : Combine(c) BY <1>2
    <2>2. Send(c, "combine", Parts) /\ Parts \in SUBSET Docs /\ "combine" \in Kinds BY <2>1 DEF Combine, Docs, Kinds
    <2> QED BY <2>2, SendKeeps
<1> QED BY <1>1, <1>2 DEF User

\* The server's answer to a call: its fields, whatever else is written into it.
LEMMA CallAnswered ==
    ASSUME NEW q \in CallType, NEW view \in [Docs -> Views \cup {None}]
    PROVE  /\ [q EXCEPT !.step = "answered", !.view = view] \in CallType
           /\ [q EXCEPT !.step = "answered", !.view = view].step = "answered"
           /\ [q EXCEPT !.step = "answered", !.view = view].view = view
BY DEF CallType, Steps

LEMMA ActDoneKeeps == ASSUME FeedInv, NEW c \in Calls, NEW d \in Docs, ActDone(c, d) PROVE FeedInv'
<1>1. TypeOK /\ Numbered BY DEF FeedInv
<1> DEFINE view == IF call[c].kind = "discard" THEN NoViews ELSE [NoViews EXCEPT ![d] = row'[d]]
           r == [call[c] EXCEPT !.step = "answered", !.view = view]
<1>2. call \in [Calls -> CallType] /\ call[c] \in CallType BY <1>1, CallFields
<1>3. call' = [call EXCEPT ![c] = r] BY <1>2 DEF ActDone
<1>4. Move(d, To(call[c].kind)) /\ row[d] # None /\ UNCHANGED <<unreadable, sent, session, sync, poll, faults>>
    BY DEF ActDone, In, Exists
<1>5. To(call[c].kind) \in States BY DEF To, States
<1>6. row' \in [Docs -> Views \cup {None}] /\ seq' \in 0..Last /\ ServerMoves /\ row'[d] # None
    <2>1. row' \in [Docs -> Views \cup {None}] /\ seq' \in 0..Last /\ ServerMoves BY <1>1, <1>4, <1>5, MoveFacts
    <2>2. row'[d] = [seq |-> seq + 1, state |-> To(call[c].kind)] BY <1>1, <1>4 DEF Move, TypeOK
    <2>3. row'[d] # None
        <3>1. row'[d] \in Views \/ row'[d] = None BY <2>1
        <3>2. seq + 1 \in 1..Last BY <1>1, <1>4, SeqIsNatural, Sizes DEF Move
        <3>3. row'[d] \in Views BY <1>5, <2>2, <3>2 DEF Views
        <3> QED BY <3>3, ViewFields
    <2> QED BY <2>1, <2>3
<1>7. view \in [Docs -> Views \cup {None}] /\ \A e \in Docs : Fits(row', e, view[e])
    <2>1. CASE call[c].kind = "discard" BY <2>1, NoneFits
    <2>2. CASE call[c].kind # "discard"
        <3>1. view = [NoViews EXCEPT ![d] = row'[d]] BY <2>2
        <3> HIDE DEF view
        <3> QED BY <1>6, <3>1, OneFits
    <2> QED BY <2>1, <2>2
<1> HIDE DEF view
<1>8. r \in CallType /\ r.step = "answered" /\ r.view = view BY <1>2, <1>7, CallAnswered
<1> HIDE DEF r
<1>9. call' \in [Calls -> CallType] BY <1>1, <1>3, <1>8, CallBecomes
<1>10. TypeOK' BY <1>1, <1>4, <1>6, <1>9 DEF TypeOK, CallType, sync
<1> QED BY <1>3, <1>4, <1>6, <1>7, <1>8, <1>10, CallServed
LEMMA ActRefusedKeeps == ASSUME FeedInv, NEW c \in Calls, NEW d \in Docs, ActRefused(c, d) PROVE FeedInv'
<1>1. TypeOK /\ Numbered BY DEF FeedInv
<1> DEFINE r == [Done EXCEPT !.docs = {d}, !.step = "sent"]
<1>2. call' = [call EXCEPT ![c] = r] /\ UNCHANGED <<server, session, sync, poll, faults>> BY DEF ActRefused, ReadBack
<1>3. r \in CallType /\ r.step = "sent" /\ r.view = NoViews BY EndedCall
<1> HIDE DEF r
<1>4. call' \in [Calls -> CallType] BY <1>1, <1>2, <1>3, CallBecomes
<1>5. TypeOK' BY <1>1, <1>2, <1>4 DEF TypeOK, CallType, server, sync
<1>6. ServerMoves BY <1>1, <1>2, RowsRest DEF server
<1>7. \A e \in Docs : Fits(row', e, r.view[e]) BY <1>3, NoneFits
<1> QED BY <1>2, <1>3, <1>5, <1>6, <1>7, CallServed DEF server
LEMMA GetKeeps == ASSUME FeedInv, NEW c \in Calls, NEW d \in Docs, Get(c, d) PROVE FeedInv'
<1>1. TypeOK /\ Numbered BY DEF FeedInv
<1> DEFINE view == [NoViews EXCEPT ![d] = row'[d]]
           docs == call[c].docs \ {d}
           r == [call[c] EXCEPT !.step = "answered", !.docs = docs, !.view = view]
<1>2. call \in [Calls -> CallType] /\ call[c] \in CallType /\ docs \in SUBSET Docs BY <1>1, CallFields
<1>3. call' = [call EXCEPT ![c] = r]
    <2>1. call' = [call EXCEPT ![c].step = "answered", ![c].docs = @ \ {d}, ![c].view = view] BY DEF Get
    <2> HIDE DEF view
    <2> QED BY <1>2, <2>1 DEF CallType
<1>4. Read({d}) /\ row[d] # None /\ UNCHANGED <<sent, session, sync, poll, faults>> BY DEF Get, Exists
<1>5. row' \in [Docs -> Views \cup {None}] /\ seq' \in 0..Last /\ ServerMoves /\ unreadable' \subseteq Docs /\ row'[d] # None
    BY <1>1, <1>4, ReadFacts
<1>6. view \in [Docs -> Views \cup {None}] /\ \A e \in Docs : Fits(row', e, view[e]) BY <1>5, OneFits
<1> HIDE DEF view, docs
<1>7. r \in CallType /\ r.step = "answered" /\ r.view = view BY <1>2, <1>6 DEF CallType, Steps
<1> HIDE DEF r
<1>8. call' \in [Calls -> CallType] BY <1>1, <1>3, <1>7, CallBecomes
<1>9. TypeOK' BY <1>1, <1>4, <1>5, <1>8 DEF TypeOK, CallType, sync
<1> QED BY <1>3, <1>4, <1>5, <1>6, <1>7, <1>9, CallServed
LEMMA CombineReadsKeeps == ASSUME FeedInv, NEW c \in Calls, CombineReads(c) PROVE FeedInv'
<1>1. TypeOK /\ Numbered BY DEF FeedInv
<1> DEFINE seqs == [p \in Parts |-> row[p].seq]
           r == [call[c] EXCEPT !.step = "building", !.seqs = seqs]
<1>2. call \in [Calls -> CallType] /\ call[c] \in CallType BY <1>1, CallFields
<1>3. call' = [call EXCEPT ![c] = r] /\ UNCHANGED <<server, session, sync, poll, faults>> BY <1>2 DEF CombineReads
<1>4. \A p \in Parts : row[p] # None /\ p \notin sent
    BY DEF CombineReads, Combinable, PossiblyInDrive, In, Exists
<1>5. \A p \in Parts : row[p].seq \in 0..Last /\ row[p].seq <= seq
    <2> TAKE p \in Parts
    <2>1. p \in Docs BY DEF Docs
    <2>2. row[p].seq \in Nat /\ row[p].seq <= seq BY <1>1, <1>4, <2>1, RowFields DEF Numbered
    <2>3. seq \in Nat /\ seq <= Last BY <1>1, SeqIsNatural
    <2> QED BY <2>2, <2>3, Sizes
<1>6. seqs \in [Parts -> 0..Last] /\ \A p \in Parts : seqs[p] <= seq BY <1>5
<1> HIDE DEF seqs
<1>7. r \in CallType /\ r.view = call[c].view /\ r.seqs = seqs BY <1>2, <1>6 DEF CallType, Steps
<1> HIDE DEF r
<1>8. call' \in [Calls -> CallType] BY <1>1, <1>3, <1>7, CallBecomes
<1>9. TypeOK' BY <1>1, <1>3, <1>8 DEF TypeOK, CallType, server, sync
<1>10. ServerMoves BY <1>1, <1>3, RowsRest DEF server
<1>11. \A p \in Parts : r.seqs[p] <= seq' /\ p \notin sent BY <1>3, <1>4, <1>6, <1>7 DEF server
<1> QED BY <1>3, <1>7, <1>9, <1>10, <1>11, CallServed DEF server
LEMMA CombineInsertsKeeps == ASSUME FeedInv, NEW c \in Calls, CombineInserts(c) PROVE FeedInv'
<1>1. TypeOK /\ Numbered BY DEF FeedInv
<1> DEFINE view == [NoViews EXCEPT ![Whole] = row'[Whole]]
           r == [call[c] EXCEPT !.step = "answered", !.view = view]
<1>2. call \in [Calls -> CallType] /\ call[c] \in CallType /\ Whole \in Docs BY <1>1, CallFields DEF Docs
<1>3. call' = [call EXCEPT ![c] = r] BY <1>2 DEF CombineInserts
<1>4. /\ row[Whole] = None /\ \A p \in Parts : row[p] # None
      /\ seq' = seq + 1 + Cardinality(Parts) /\ row' = Combined
      /\ UNCHANGED <<unreadable, sent, session, sync, poll, faults>>
    BY DEF CombineInserts, AsRead, In, Exists
<1>5. row' \in [Docs -> Views \cup {None}] /\ seq' \in 0..Last /\ ServerMoves /\ row'[Whole] # None
    BY <1>1, <1>4, CombinedFacts
<1>6. view \in [Docs -> Views \cup {None}] /\ \A e \in Docs : Fits(row', e, view[e]) BY <1>2, <1>5, OneFits
<1> HIDE DEF view
<1>7. r \in CallType /\ r.step = "answered" /\ r.view = view BY <1>2, <1>6, CallAnswered
<1> HIDE DEF r
<1>8. call' \in [Calls -> CallType] BY <1>1, <1>3, <1>7, CallBecomes
<1>9. TypeOK' BY <1>1, <1>4, <1>5, <1>8 DEF TypeOK, CallType, sync
<1> QED BY <1>3, <1>4, <1>5, <1>6, <1>7, <1>9, CallServed
LEMMA FailShownKeeps == ASSUME FeedInv, NEW c \in Calls, FailShown(c) PROVE FeedInv'
<1>1. TypeOK /\ Numbered BY DEF FeedInv
<1> DEFINE r == [Done EXCEPT !.docs = Docs]
<1>2. call' = [call EXCEPT ![c] = r] /\ UNCHANGED <<server, session, sync, poll>> BY DEF FailShown, Ended
<1>3. r \in CallType /\ r.step = "done" /\ r.view = NoViews BY EndedCall
<1> HIDE DEF r
<1>4. call' \in [Calls -> CallType] BY <1>1, <1>2, <1>3, CallBecomes
<1>5. faults' \in 0..MaxFaults BY <1>1, FeedAssumption DEF FailShown, Fails, Fault, TypeOK
<1>6. TypeOK' BY <1>1, <1>2, <1>4, <1>5 DEF TypeOK, CallType, server, sync
<1>7. ServerMoves BY <1>1, <1>2, RowsRest DEF server
<1>8. \A e \in Docs : Fits(row', e, r.view[e]) BY <1>3, NoneFits
<1> QED BY <1>2, <1>3, <1>6, <1>7, <1>8, CallServed DEF server

-----------------------------------------------------------------------------
(* What the sync holds.                                                    *)

\* Taking views that fit keeps what is held fitting, never takes back a newest
\* version, and never goes to an older one.
LEMMA PutFacts ==
    ASSUME TypeOK, ViewsFit, NEW views \in [Docs -> Views \cup {None}],
           \A d \in Docs : Fits(row, d, views[d]), Put(views)
    PROVE  /\ held' \in [Docs -> Views \cup {None}]
           /\ \A d \in Docs : Fits(row, d, held'[d])
           /\ \A d \in Docs : row[d] # None /\ (held[d] = row[d] \/ views[d] = row[d]) => held'[d] = row[d]
           /\ \A d \in Docs : held[d] # None /\ held'[d] # None => held'[d].seq >= held[d].seq
<1>1. held' = [d \in Docs |-> Newer(d, views[d])] BY DEF Put
<1>2. \A d \in Docs : held[d] \in Views \cup {None} /\ views[d] \in Views \cup {None} BY DEF TypeOK
<1>3. \A d \in Docs : held'[d] = held[d] \/ held'[d] = views[d] BY <1>1 DEF Newer
<1>4. held' \in [Docs -> Views \cup {None}]
    <2>1. \A d \in Docs : held'[d] \in Views \cup {None} BY <1>2, <1>3
    <2>2. held' = [d \in Docs |-> held'[d]] BY <1>1
    <2> QED BY <2>1, <2>2
<1>5. \A d \in Docs : Fits(row, d, held'[d]) BY <1>3 DEF ViewsFit
<1>6. ASSUME NEW d \in Docs, row[d] # None, held[d] = row[d] \/ views[d] = row[d] PROVE held'[d] = row[d]
    <2>1. held'[d] = IF views[d] = None \/ (held[d] # None /\ held[d].seq > views[d].seq) THEN held[d] ELSE views[d]
        BY <1>1 DEF Newer
    <2>2. Fits(row, d, held[d]) /\ Fits(row, d, views[d]) BY DEF ViewsFit
    <2>3. row[d].seq \in Nat BY <1>6, RowFields
    <2>4. CASE held[d] = row[d]
        <3>1. CASE views[d] = None BY <2>1, <2>4, <3>1
        <3>2. CASE views[d] # None
            <4>1. views[d].seq \in Nat BY <1>2, <3>2, ViewFields
            <4>2. views[d].seq <= row[d].seq /\ (views[d].seq = row[d].seq => views[d] = row[d])
                BY <1>6, <2>2, <3>2 DEF Fits
            <4>3. CASE views[d].seq = row[d].seq BY <2>1, <2>4, <4>2, <4>3
            <4>4. CASE views[d].seq # row[d].seq
                <5>1. row[d].seq > views[d].seq BY <2>3, <4>1, <4>2, <4>4
                <5> QED BY <1>6, <2>1, <2>4, <5>1
            <4> QED BY <4>3, <4>4
        <3> QED BY <3>1, <3>2
    <2>5. CASE views[d] = row[d]
        <3>1. CASE held[d] = None BY <1>6, <2>1, <2>5, <3>1
        <3>2. CASE held[d] # None
            <4>1. held[d].seq \in Nat BY <1>2, <3>2, ViewFields
            <4>2. held[d].seq <= row[d].seq BY <1>6, <2>2, <3>2 DEF Fits
            <4>3. ~(held[d].seq > views[d].seq) BY <2>3, <2>5, <4>1, <4>2
            <4> QED BY <1>6, <2>1, <2>5, <4>3
        <3> QED BY <3>1, <3>2
    <2> QED BY <1>6, <2>4, <2>5
<1>7. ASSUME NEW d \in Docs, held[d] # None, held'[d] # None PROVE held'[d].seq >= held[d].seq
    <2>1. held'[d] = IF views[d] = None \/ held[d].seq > views[d].seq THEN held[d] ELSE views[d]
        BY <1>1, <1>7 DEF Newer
    <2>2. held[d].seq \in Nat BY <1>2, <1>7, ViewFields
    <2>3. CASE views[d] = None \/ held[d].seq > views[d].seq BY <2>1, <2>2, <2>3
    <2>4. CASE ~(views[d] = None \/ held[d].seq > views[d].seq)
        <3>1. held'[d] = views[d] /\ views[d].seq \in Nat BY <1>2, <2>1, <2>4, ViewFields
        <3> QED BY <2>2, <2>4, <3>1
    <2> QED BY <2>3, <2>4
<1> QED BY <1>4, <1>5, <1>6, <1>7

\* A call that ends or goes on without a view.
LEMMA CallRests ==
    ASSUME FeedInv, UNCHANGED server, NEW c \in Calls, NEW r \in CallType, call' = [call EXCEPT ![c] = r],
           r.view = NoViews, r.step # "building"
    PROVE  /\ call' \in [Calls -> CallType] /\ PartsUnsent'
           /\ \A b \in Calls, d \in Docs : Fits(row, d, call'[b].view[d])
<1>1. TypeOK /\ ViewsFit /\ PartsUnsent BY DEF FeedInv
<1>2. call' \in [Calls -> CallType] /\ call'[c] = r /\ \A b \in Calls \ {c} : call'[b] = call[b]
    BY <1>1, CallBecomes
<1>3. \A b \in Calls, d \in Docs : Fits(row, d, call'[b].view[d]) BY <1>1, <1>2, NoneFits DEF ViewsFit
<1>4. PartsUnsent' BY <1>1, <1>2 DEF PartsUnsent, server
<1> QED BY <1>2, <1>3, <1>4

\* Steps that change what is held and one call: nothing newest is lost.
LEMMA HeldServed ==
    ASSUME FeedInv, UNCHANGED <<server, session, cursor, inflight, running, loop, timer, stray, poll>>,
           faults' \in 0..MaxFaults,
           held' \in [Docs -> Views \cup {None}], \A d \in Docs : Fits(row, d, held'[d]),
           \A d \in Docs : row[d] # None /\ held[d] = row[d] => held'[d] = row[d],
           NEW c \in Calls, NEW r \in CallType, call' = [call EXCEPT ![c] = r],
           r.view = NoViews, r.step # "building"
    PROVE  FeedInv'
<1>1. TypeOK /\ Numbered /\ ViewsFit /\ PagesCover /\ NothingSkipped BY DEF FeedInv
<1>2. /\ call' \in [Calls -> CallType] /\ PartsUnsent'
      /\ \A b \in Calls, d \in Docs : Fits(row, d, call'[b].view[d])
    BY CallRests
<1>3. TypeOK' BY <1>1, <1>2 DEF TypeOK, CallType, server
<1>4. Joinable' /\ Driven' BY PollsRest
<1>5. Numbered' /\ PagesCover' BY <1>1 DEF Numbered, PagesCover, server
<1>6. ViewsFit' BY <1>1, <1>2 DEF ViewsFit, server
<1>7. NothingSkipped' BY <1>1 DEF NothingSkipped, Exists, server
<1> QED BY <1>2, <1>3, <1>4, <1>5, <1>6, <1>7 DEF FeedInv

LEMMA GoneKeeps == ASSUME FeedInv, NEW c \in Calls, NEW d \in Docs, Gone(c, d) PROVE FeedInv'
<1>1. TypeOK /\ ViewsFit BY DEF FeedInv
<1>2. /\ row[d] = None /\ UNCHANGED <<server, session, cursor, inflight, running, loop, timer, stray, poll, faults>>
      /\ held' = IF call[c].kind = "approve" THEN held ELSE [held EXCEPT ![d] = None]
    BY DEF Gone, Exists
<1>3. held' \in [Docs -> Views \cup {None}] /\ held'[d] \in {held[d], None} /\ \A e \in Docs \ {d} : held'[e] = held[e]
    BY <1>1, <1>2 DEF TypeOK
<1>4. \A e \in Docs : Fits(row, e, held'[e]) BY <1>1, <1>3 DEF ViewsFit, Fits
<1>5. \A e \in Docs : row[e] # None /\ held[e] = row[e] => held'[e] = row[e] BY <1>2, <1>3
<1>6. faults' \in 0..MaxFaults BY <1>1, <1>2 DEF TypeOK
<1>7. PICK r \in CallType : call' = [call EXCEPT ![c] = r] /\ r.view = NoViews /\ r.step # "building"
    <2>1. call[c].docs \ {d} \in SUBSET Docs /\ Docs \in SUBSET Docs BY <1>1, CallFields
    <2>2. CASE call[c].docs = {d} BY <2>1, <2>2, EndedCall DEF Gone, Ended
    <2>3. CASE call[c].docs # {d} BY <2>1, <2>3, EndedCall DEF Gone, ReadBack
    <2> QED BY <2>2, <2>3
<1> QED BY <1>2, <1>3, <1>4, <1>5, <1>6, <1>7, HeldServed
LEMMA TakeAnswerKeeps == ASSUME FeedInv, NEW c \in Calls, TakeAnswer(c) PROVE FeedInv'
<1>1. TypeOK /\ ViewsFit BY DEF FeedInv
<1>2. Put(call[c].view) /\ UNCHANGED <<server, session, cursor, inflight, running, loop, timer, stray, poll, faults>>
    BY DEF TakeAnswer
<1>3. call[c].view \in [Docs -> Views \cup {None}] /\ \A d \in Docs : Fits(row, d, call[c].view[d])
    BY <1>1, CallFields DEF ViewsFit
<1>4. /\ held' \in [Docs -> Views \cup {None}] /\ \A d \in Docs : Fits(row, d, held'[d])
      /\ \A d \in Docs : row[d] # None /\ held[d] = row[d] => held'[d] = row[d]
    BY <1>1, <1>2, <1>3, PutFacts
<1>5. faults' \in 0..MaxFaults BY <1>1, <1>2 DEF TypeOK
<1>6. PICK r \in CallType : call' = [call EXCEPT ![c] = r] /\ r.view = NoViews /\ r.step # "building"
    <2>1. call[c].docs \in SUBSET Docs /\ Docs \in SUBSET Docs BY <1>1, CallFields
    <2>2. Ended(c) \/ ReadBack(c, call[c].docs) BY DEF TakeAnswer
    <2>3. CASE Ended(c) BY <2>1, <2>3, EndedCall DEF Ended
    <2>4. CASE ReadBack(c, call[c].docs) BY <2>1, <2>4, EndedCall DEF ReadBack
    <2> QED BY <2>2, <2>3, <2>4
<1> QED BY <1>2, <1>4, <1>5, <1>6, HeldServed

-----------------------------------------------------------------------------
(* The polls, and the timer that drives them.                              *)

\* A question asked with nothing taken yet.
LEMMA Asked ==
    ASSUME NEW since \in 0..Last, NEW page \in 0..(MaxPages - 1), NEW loops \in SUBSET (1..MaxLoops)
    PROVE  /\ Ask(since, page, loops) \in Pages /\ Ask(since, page, loops) # None
           /\ ~Ask(since, page, loops).stale /\ Ask(since, page, loops).since = since
           /\ Ask(since, page, loops).step = "sent" /\ Ask(since, page, loops).next = 0
           /\ Ask(since, page, loops).rows = NoViews /\ Ask(since, page, loops).loops = loops
<1> DEFINE q == Ask(since, page, loops)
<1>1. q = [stale |-> FALSE, page |-> page, since |-> since, step |-> "sent", rows |-> NoViews, next |-> 0, loops |-> loops]
    BY DEF Ask
<1>2. NoViews \in [Docs -> Views \cup {None}] BY DEF NoViews
<1>3. 0 \in 0..Last BY Sizes
<1> HIDE DEF q
<1>4. q \in Pages
    <2> HIDE DEF NoViews
    <2> QED BY <1>1, <1>2, <1>3 DEF Pages
<1>5. q # None BY <1>4, PageFields
<1> QED BY <1>1, <1>4, <1>5 DEF q

\* poll(): the poll of this generation waits for the given ticks too, and no other
\* poll changes.
LEMMA PollStarts ==
    ASSUME FeedInv, UNCHANGED <<server, cursor>>, NEW loops \in SUBSET (1..MaxLoops), StartPoll(loops)
    PROVE  /\ poll' \in [Polls -> Pages \cup {None}] /\ Joinable' /\ PagesCover'
           /\ \A o \in Polls, d \in Docs : poll'[o] # None => Fits(row, d, poll'[o].rows[d])
           /\ \E p \in Polls :
                 /\ inflight' = p /\ poll'[p] # None
                 /\ poll'[p].loops = loops \cup (IF poll[p] = None THEN {} ELSE poll[p].loops)
                 /\ \A o \in Polls \ {p} : poll'[o] = poll[o]
<1>1. TypeOK /\ Numbered /\ ViewsFit /\ PagesCover /\ Joinable BY DEF FeedInv
<1>2. poll \in [Polls -> Pages \cup {None}] /\ None \notin Polls BY <1>1, FeedAssumption DEF TypeOK
<1>3. CASE inflight # None
    <2> DEFINE p == inflight
               a == [poll[p] EXCEPT !.loops = @ \cup loops]
    <2>1. p \in Polls /\ inflight' = p BY <1>1, <1>3 DEF TypeOK, StartPoll
    <2>2. poll[p] # None /\ ~poll[p].stale /\ poll[p] \in Pages BY <1>1, <1>2, <2>1 DEF Joinable
    <2>3. poll' = [poll EXCEPT ![p] = a] BY <1>2, <1>3, <2>1, <2>2 DEF StartPoll
    <2> HIDE DEF p
    <2>4. poll[p].loops \in SUBSET (1..MaxLoops) BY <2>2, PageFields
    <2>5. a \in Pages /\ a.stale = poll[p].stale /\ a.since = poll[p].since /\ a.next = poll[p].next /\ a.step = poll[p].step
          /\ a.rows = poll[p].rows /\ a.loops = loops \cup poll[p].loops
        BY <2>2, <2>4 DEF Pages
    <2>6. a # None BY <2>5, PageFields
    <2> HIDE DEF a
    <2>7. poll' \in [Polls -> Pages \cup {None}] /\ poll'[p] = a /\ \A o \in Polls \ {p} : poll'[o] = poll[o]
        BY <1>2, <2>1, <2>3, <2>5
    <2>8. Joinable' BY <1>1, <2>1, <2>2, <2>5, <2>6, <2>7 DEF Joinable, p
    <2>9. ASSUME NEW o \in Polls, poll'[o] # None
          PROVE  /\ poll'[o].since <= seq /\ poll'[o].next <= seq /\ \A d \in Docs : Fits(row, d, poll'[o].rows[d])
                 /\ ~poll'[o].stale => /\ poll'[o].since <= cursor
                                       /\ poll'[o].step = "answered" => Covers(row, poll'[o])
        <3>1. CASE o = p
            <4>1. Covers(row, poll[p]) => Covers(row, a) BY <2>5 DEF Covers
            <4> QED BY <1>1, <2>1, <2>2, <2>5, <2>7, <3>1, <4>1 DEF PagesCover, ViewsFit
        <3>2. CASE o # p BY <1>1, <2>7, <2>9, <3>2 DEF PagesCover, ViewsFit
        <3> QED BY <3>1, <3>2
    <2>10. PagesCover' BY <2>9 DEF PagesCover, server
    <2> QED BY <2>1, <2>2, <2>5, <2>6, <2>7, <2>8, <2>9, <2>10
<1>4. CASE inflight = None
    <2>1. PICK p \in Free : poll' = [poll EXCEPT ![p] = Ask(cursor, 0, loops)] /\ inflight' = p
        BY <1>4 DEF StartPoll
    <2>2. p \in Polls /\ poll[p] = None BY <2>1 DEF Free
    <2> DEFINE a == Ask(cursor, 0, loops)
    <2>3. cursor \in 0..Last /\ 0 \in 0..(MaxPages - 1) BY <1>1, FeedAssumption DEF TypeOK
    <2>4. a \in Pages /\ a # None /\ ~a.stale /\ a.since = cursor /\ a.step = "sent" /\ a.next = 0
          /\ a.rows = NoViews /\ a.loops = loops
        BY <2>3, Asked
    <2> HIDE DEF a
    <2>5. poll' \in [Polls -> Pages \cup {None}] /\ poll'[p] = a /\ \A o \in Polls \ {p} : poll'[o] = poll[o]
        BY <1>2, <2>1, <2>2, <2>4 DEF a
    <2>6. Joinable' BY <1>1, <1>2, <1>4, <2>1, <2>2, <2>4, <2>5 DEF Joinable
    <2>7. 0 <= seq BY <1>1, SeqIsNatural
    <2>8. ASSUME NEW o \in Polls, poll'[o] # None
          PROVE  /\ poll'[o].since <= seq /\ poll'[o].next <= seq /\ \A d \in Docs : Fits(row, d, poll'[o].rows[d])
                 /\ ~poll'[o].stale => /\ poll'[o].since <= cursor
                                       /\ poll'[o].step = "answered" => Covers(row, poll'[o])
        <3>1. CASE o = p
            <4>1. cursor <= cursor BY <1>1, SeqIsNatural
            <4> QED BY <1>1, <2>4, <2>5, <2>7, <3>1, <4>1, NoneFits DEF Numbered
        <3>2. CASE o # p BY <1>1, <2>5, <2>8, <3>2 DEF PagesCover, ViewsFit
        <3> QED BY <3>1, <3>2
    <2>9. PagesCover' BY <2>8 DEF PagesCover, server
    <2> QED BY <2>1, <2>2, <2>4, <2>5, <2>6, <2>8, <2>9
<1> QED BY <1>3, <1>4

\* A poll ends, and its tick arms the timer again.
LEMMA PollEndsFacts ==
    ASSUME FeedInv, NEW p \in Polls, poll[p] # None, PollEnds(p), UNCHANGED <<running, loop>>
    PROVE  /\ poll' \in [Polls -> Pages \cup {None}] /\ poll'[p] = None /\ \A o \in Polls \ {p} : poll'[o] = poll[o]
           /\ inflight' \in Polls \cup {None} /\ timer' \in BOOLEAN /\ stray' \in Nat
           /\ Joinable' /\ Driven'
<1>1. TypeOK /\ Joinable /\ Driven BY DEF FeedInv
<1>2. poll' \in [Polls -> Pages \cup {None}] /\ poll'[p] = None /\ \A o \in Polls \ {p} : poll'[o] = poll[o]
    BY <1>1 DEF PollEnds, TypeOK
<1>3. inflight' = IF inflight = p THEN None ELSE inflight BY DEF PollEnds, Forget
<1>4. Joinable' BY <1>1, <1>2, <1>3, FeedAssumption DEF Joinable
<1>5. Current(poll[p].loops) # {} <=> Drives(p) BY DEF Current, Drives
<1>6. CASE running /\ Drives(p)
    <2>1. ~timer /\ \A o \in Polls : Drives(o) => o = p BY <1>1, <1>6 DEF Driven
    <2>2. timer' = TRUE /\ stray' = stray BY <1>5, <1>6, <2>1 DEF PollEnds, Rearm
    <2>3. \A o \in Polls : ~Drives(o)' BY <1>2, <2>1 DEF Drives
    <2>4. Driven' BY <1>1, <1>2, <1>6, <2>2, <2>3 DEF Driven
    <2> QED BY <1>1, <1>2, <1>3, <1>4, <2>2, <2>4 DEF TypeOK
<1>7. CASE ~(running /\ Drives(p))
    <2>1. timer' = timer /\ stray' = stray BY <1>5, <1>7 DEF PollEnds, Rearm
    <2>2. \A o \in Polls \ {p} : Drives(o)' <=> Drives(o) BY <1>2 DEF Drives
    <2>3. ~Drives(p)' BY <1>2 DEF Drives
    <2>4. Driven' BY <1>1, <1>2, <1>7, <2>1, <2>2, <2>3 DEF Driven
    <2> QED BY <1>1, <1>2, <1>3, <1>4, <2>1, <2>4 DEF TypeOK
<1> QED BY <1>6, <1>7

\* What a step of the sync alone leaves as it is.
LEMMA SyncKeeps ==
    ASSUME FeedInv, TypeOK', UNCHANGED <<server, held, cursor, call>>, Joinable', Driven', PagesCover',
           \A o \in Polls, d \in Docs : poll'[o] # None => Fits(row, d, poll'[o].rows[d])
    PROVE  FeedInv'
<1>1. Numbered /\ ViewsFit /\ NothingSkipped /\ PartsUnsent BY DEF FeedInv
<1>2. Numbered' /\ NothingSkipped' /\ PartsUnsent' BY <1>1 DEF Numbered, NothingSkipped, PartsUnsent, Exists, server
<1>3. ViewsFit' BY <1>1 DEF ViewsFit, server
<1> QED BY <1>2, <1>3 DEF FeedInv

\* stop() and reset(): nothing is held, so nothing is skipped up to no number.
LEMMA ResetKeeps ==
    ASSUME FeedInv, UNCHANGED <<server, call>>, session' \in BOOLEAN, faults' \in 0..MaxFaults,
           NEW polls \in [Polls -> Pages \cup {None}], \A o \in Polls : polls[o] \in {poll[o], None}, Reset(polls)
    PROVE  FeedInv'
<1>1. TypeOK /\ Numbered /\ ViewsFit /\ PagesCover /\ Driven /\ PartsUnsent BY DEF FeedInv
<1>2. /\ poll' = [p \in Polls |-> IF polls[p] = None THEN None ELSE [polls[p] EXCEPT !.stale = TRUE]]
      /\ inflight' = None /\ held' = NoViews /\ cursor' = 0 /\ running' = FALSE /\ timer' = FALSE
      /\ UNCHANGED <<loop, stray>>
    BY DEF Reset
<1>3. ASSUME NEW o \in Polls
      PROVE  /\ poll'[o] \in Pages \cup {None}
             /\ poll'[o] # None => /\ poll[o] # None /\ poll'[o].stale /\ poll'[o].since = poll[o].since
                                   /\ poll'[o].next = poll[o].next /\ poll'[o].rows = poll[o].rows
                                   /\ poll'[o].loops = poll[o].loops
    <2>1. CASE polls[o] = None BY <1>2, <2>1
    <2>2. CASE polls[o] # None
        <3>1. polls[o] = poll[o] /\ polls[o] \in Pages BY <2>2
        <3>2. poll'[o] = [polls[o] EXCEPT !.stale = TRUE] BY <1>2, <2>2
        <3>3. poll'[o] \in Pages /\ poll'[o].stale /\ poll'[o].since = polls[o].since /\ poll'[o].next = polls[o].next
              /\ poll'[o].rows = polls[o].rows /\ poll'[o].loops = polls[o].loops
            BY <3>1, <3>2 DEF Pages
        <3> QED BY <2>2, <3>1, <3>3
    <2> QED BY <2>1, <2>2
<1>4. poll' \in [Polls -> Pages \cup {None}]
    <2>1. poll' = [p \in Polls |-> poll'[p]] BY <1>2
    <2> QED BY <1>3, <2>1
<1>5. NoViews \in [Docs -> Views \cup {None}] BY DEF NoViews
<1>6. 0 \in 0..Last BY Sizes
<1>7. TypeOK' BY <1>1, <1>2, <1>4, <1>5, <1>6 DEF TypeOK, server
<1>8. seq \in Nat BY <1>1, SeqIsNatural
<1>9. Numbered' BY <1>1, <1>2, <1>8 DEF Numbered, server
<1>10. ViewsFit' BY <1>1, <1>2, <1>3, NoneFits DEF ViewsFit, server
<1>11. PagesCover' BY <1>1, <1>3 DEF PagesCover, server
<1>12. Joinable' BY <1>2, <1>3, FeedAssumption DEF Joinable
<1>13. Driven' BY <1>1, <1>2, <1>3 DEF Driven
<1>14. PartsUnsent' BY <1>1 DEF PartsUnsent, server
<1>15. NothingSkipped'
    <2>1. \A d \in Docs : row[d] # None => row[d].seq \in Nat /\ row[d].seq >= 1 BY <1>1, RowFields
    <2>2. \A d \in Docs : row[d] # None => ~(row[d].seq <= 0) BY <2>1
    <2> QED BY <1>2, <2>2 DEF NothingSkipped, Exists, server
<1> QED BY <1>7, <1>9, <1>10, <1>11, <1>12, <1>13, <1>14, <1>15 DEF FeedInv

LEMMA TakePageKeeps == ASSUME FeedInv, NEW p \in Polls, TakePage(p) PROVE FeedInv'
<1>1. TypeOK /\ Numbered /\ ViewsFit /\ PagesCover /\ Joinable /\ Driven /\ PartsUnsent /\ NothingSkipped BY DEF FeedInv
<1> DEFINE q == poll[p]
<1>2. /\ q # None /\ q \in Pages /\ ~q.stale /\ q.step = "answered"
      /\ Put(q.rows) /\ cursor' = Max({cursor, q.next})
      /\ UNCHANGED <<server, session, running, loop, call, faults>>
    BY <1>1 DEF TakePage, Stale, TypeOK
<1>3. q.page \in 0..(MaxPages - 1) /\ q.next \in Nat /\ q.since \in Nat /\ q.rows \in [Docs -> Views \cup {None}]
      /\ q.loops \in SUBSET (1..MaxLoops)
    BY <1>2, PageFields
<1>4. q.since <= cursor /\ q.next <= seq /\ Covers(row, q) BY <1>1, <1>2 DEF PagesCover
<1>5. seq \in Nat /\ seq <= Last /\ cursor \in Nat /\ cursor <= seq BY <1>1, SeqIsNatural DEF Numbered
<1>6. cursor' \in {cursor, q.next} /\ cursor <= cursor' /\ cursor' <= seq /\ cursor' \in 0..Last
    <2>1. {cursor, q.next} \subseteq 0..seq /\ {cursor, q.next} # {} BY <1>3, <1>4, <1>5
    <2>2. cursor' \in {cursor, q.next} /\ cursor <= cursor' BY <1>2, <1>5, <2>1, MaxOf
    <2> QED BY <1>3, <1>4, <1>5, <2>2, Sizes
<1>7. /\ held' \in [Docs -> Views \cup {None}] /\ \A d \in Docs : Fits(row, d, held'[d])
      /\ \A d \in Docs : row[d] # None /\ (held[d] = row[d] \/ q.rows[d] = row[d]) => held'[d] = row[d]
    <2>1. \A d \in Docs : Fits(row, d, q.rows[d]) BY <1>1, <1>2 DEF ViewsFit
    <2> HIDE DEF q
    <2> QED BY <1>1, <1>2, <1>3, <2>1, PutFacts
<1>8. NothingSkipped'
    <2> SUFFICES ASSUME NEW d \in Docs, row[d] # None, row[d].seq <= cursor' PROVE held'[d] = row[d]
        BY <1>2 DEF NothingSkipped, Exists, server
    <2>1. row[d].seq \in Nat BY <1>1, RowFields
    <2>2. CASE row[d].seq <= cursor
        <3>1. held[d] = row[d] BY <1>1, <2>2 DEF NothingSkipped, Exists
        <3> QED BY <1>7, <3>1
    <2>3. CASE ~(row[d].seq <= cursor)
        <3>1. row[d].seq <= q.next /\ q.since < row[d].seq BY <1>3, <1>4, <1>5, <1>6, <2>1, <2>3
        <3>2. q.rows[d] = row[d] BY <1>4, <3>1 DEF Covers
        <3> QED BY <1>7, <3>2
    <2> QED BY <2>2, <2>3
<1>9. /\ poll' \in [Polls -> Pages \cup {None}] /\ \A o \in Polls \ {p} : poll'[o] = poll[o]
      /\ inflight' \in Polls \cup {None} /\ timer' \in BOOLEAN /\ stray' \in Nat
      /\ Joinable' /\ Driven'
      /\ poll'[p] # None => poll'[p].since = cursor' /\ poll'[p].next = 0 /\ poll'[p].step = "sent" /\ poll'[p].rows = NoViews
    <2>1. CASE PollEnds(p) BY <1>2, <2>1, PollEndsFacts
    <2>2. CASE ~LastPage(p) /\ poll' = [poll EXCEPT ![p] = Ask(cursor', q.page + 1, q.loops)]
               /\ UNCHANGED <<inflight, timer, stray>>
        <3> DEFINE a == Ask(cursor', q.page + 1, q.loops)
        <3>1. MaxPages \in Nat BY FeedAssumption
        <3>2. q.page + 1 \in 0..(MaxPages - 1) BY <1>3, <2>2, <3>1 DEF LastPage
        <3>3. /\ a \in Pages /\ a # None /\ ~a.stale /\ a.since = cursor' /\ a.step = "sent" /\ a.next = 0
              /\ a.rows = NoViews /\ a.loops = q.loops
            BY <1>3, <1>6, <3>2, Asked
        <3>4. poll' = [poll EXCEPT ![p] = a] BY <2>2
        <3> HIDE DEF a
        <3>5. poll' \in [Polls -> Pages \cup {None}] /\ poll'[p] = a /\ \A o \in Polls \ {p} : poll'[o] = poll[o]
            BY <1>1, <3>3, <3>4 DEF TypeOK
        <3>6. Joinable' BY <1>1, <1>2, <2>2, <3>3, <3>5 DEF Joinable
        <3>7. \A o \in Polls : Drives(o)' <=> Drives(o) BY <1>2, <3>3, <3>5 DEF Drives
        <3>8. Driven' BY <1>1, <1>2, <2>2, <3>3, <3>5, <3>7 DEF Driven
        <3> QED BY <1>1, <2>2, <3>3, <3>5, <3>6, <3>8 DEF TypeOK
    <2> QED BY <2>1, <2>2 DEF TakePage
<1>10. TypeOK' BY <1>1, <1>2, <1>6, <1>7, <1>9 DEF TypeOK, server
<1>11. Numbered' BY <1>1, <1>2, <1>6 DEF Numbered, server
<1>12. ViewsFit'
    <2>1. \A o \in Polls, d \in Docs : poll'[o] # None => Fits(row, d, poll'[o].rows[d])
        BY <1>1, <1>9, NoneFits DEF ViewsFit
    <2> QED BY <1>1, <1>2, <1>7, <2>1 DEF ViewsFit, server
<1>13. PagesCover'
    <2>1. ASSUME NEW o \in Polls, poll'[o] # None
          PROVE  /\ poll'[o].since <= seq /\ poll'[o].next <= seq
                 /\ ~poll'[o].stale => /\ poll'[o].since <= cursor'
                                       /\ poll'[o].step = "answered" => Covers(row, poll'[o])
        <3>1. CASE o = p BY <1>5, <1>6, <1>9, <2>1, <3>1
        <3>2. CASE o # p
            <4>1. poll'[o] = poll[o] /\ poll[o] # None BY <1>9, <2>1, <3>2
            <4>2. inflight = p BY <1>1, <1>2 DEF Joinable
            <4>3. poll[o].stale BY <1>1, <3>2, <4>1, <4>2 DEF Joinable
            <4> QED BY <1>1, <4>1, <4>3 DEF PagesCover
        <3> QED BY <3>1, <3>2
    <2> QED BY <1>2, <2>1 DEF PagesCover, server
<1>14. PartsUnsent' BY <1>1, <1>2 DEF PartsUnsent, server
<1> QED BY <1>8, <1>9, <1>10, <1>11, <1>12, <1>13, <1>14 DEF FeedInv
LEMMA DropPollKeeps == ASSUME FeedInv, NEW p \in Polls, DropPoll(p) PROVE FeedInv'
<1>1. TypeOK /\ ViewsFit /\ PagesCover BY DEF FeedInv
<1>2. poll[p] # None /\ PollEnds(p) /\ UNCHANGED <<server, session, held, cursor, running, loop, call>> BY DEF DropPoll
<1>3. faults' \in 0..MaxFaults BY <1>1, FeedAssumption DEF DropPoll, Fault, TypeOK
<1>4. /\ poll' \in [Polls -> Pages \cup {None}] /\ poll'[p] = None /\ \A o \in Polls \ {p} : poll'[o] = poll[o]
      /\ inflight' \in Polls \cup {None} /\ timer' \in BOOLEAN /\ stray' \in Nat
      /\ Joinable' /\ Driven'
    BY <1>2, PollEndsFacts
<1>5. TypeOK' BY <1>1, <1>2, <1>3, <1>4 DEF TypeOK, server
<1>6. PagesCover' BY <1>1, <1>2, <1>4 DEF PagesCover, server
<1>7. \A o \in Polls, d \in Docs : poll'[o] # None => Fits(row, d, poll'[o].rows[d]) BY <1>1, <1>4 DEF ViewsFit
<1> QED BY <1>2, <1>4, <1>5, <1>6, <1>7, SyncKeeps
LEMMA PollStepKeeps == ASSUME FeedInv, NEW p \in Polls, PollStep(p) PROVE FeedInv'
<1>1. TypeOK BY DEF FeedInv
<1>2. CASE PollUnauthorized(p)
    <2>1. Reset([poll EXCEPT ![p] = None]) /\ UNCHANGED <<server, session, call, faults>> BY <1>2 DEF PollUnauthorized
    <2>2. [poll EXCEPT ![p] = None] \in [Polls -> Pages \cup {None}]
          /\ \A o \in Polls : [poll EXCEPT ![p] = None][o] \in {poll[o], None}
        BY <1>1 DEF TypeOK
    <2>3. session' \in BOOLEAN /\ faults' \in 0..MaxFaults BY <1>1, <2>1 DEF TypeOK
    <2> QED BY <2>1, <2>2, <2>3, ResetKeeps
<1> QED BY <1>2, ListReadsKeeps, TakePageKeeps, DropPollKeeps DEF PollStep

LEMMA SignInKeeps == ASSUME FeedInv, SignIn PROVE FeedInv'
<1>1. TypeOK /\ ViewsFit /\ PagesCover /\ Joinable /\ Driven BY DEF FeedInv
<1>2. /\ ~running /\ loop < MaxLoops /\ session' = TRUE /\ running' = TRUE /\ loop' = loop + 1
      /\ UNCHANGED <<server, held, cursor, stray, call, faults>>
    BY DEF SignIn
<1>3. loop \in Nat /\ MaxLoops \in Nat BY <1>1, FeedAssumption DEF TypeOK
<1>4. loop' \in 0..MaxLoops /\ loop' \in 1..MaxLoops /\ loop <= loop' /\ loop' > 0 BY <1>2, <1>3
<1>5. ASSUME NEW o \in Polls, poll[o] # None PROVE loop' \notin poll[o].loops /\ \A l \in poll[o].loops : l <= loop'
    <2>1. poll[o].loops \in SUBSET (1..MaxLoops) /\ \A l \in poll[o].loops : l <= loop
        BY <1>1, <1>5, PageFields DEF Driven, TypeOK
    <2>2. \A l \in poll[o].loops : l \in Nat BY <1>3, <2>1
    <2>3. ~(loop' <= loop) BY <1>2, <1>3
    <2>4. \A l \in poll[o].loops : l <= loop' BY <1>2, <1>3, <2>1, <2>2
    <2> QED BY <2>1, <2>3, <2>4
<1>6. ~timer /\ stray = 0 BY <1>1, <1>2 DEF Driven
<1>7. CASE timer' = TRUE /\ UNCHANGED <<poll, inflight>>
    <2>1. TypeOK' BY <1>1, <1>2, <1>4, <1>7 DEF TypeOK, server
    <2>2. Joinable' /\ PagesCover' BY <1>1, <1>2, <1>7 DEF Joinable, PagesCover, server
    <2>3. \A o \in Polls : ~Drives(o)' BY <1>5, <1>7 DEF Drives
    <2>4. Driven' BY <1>2, <1>4, <1>5, <1>6, <1>7, <2>3 DEF Driven
    <2>5. \A o \in Polls, d \in Docs : poll'[o] # None => Fits(row, d, poll'[o].rows[d]) BY <1>1, <1>7 DEF ViewsFit
    <2> QED BY <1>2, <2>1, <2>2, <2>4, <2>5, SyncKeeps
<1>8. CASE StartPoll({loop'}) /\ UNCHANGED timer
    <2>1. {loop'} \in SUBSET (1..MaxLoops) BY <1>4
    <2>2. /\ poll' \in [Polls -> Pages \cup {None}] /\ Joinable' /\ PagesCover'
          /\ \A o \in Polls, d \in Docs : poll'[o] # None => Fits(row, d, poll'[o].rows[d])
          /\ \E p \in Polls :
                /\ inflight' = p /\ poll'[p] # None
                /\ poll'[p].loops = {loop'} \cup (IF poll[p] = None THEN {} ELSE poll[p].loops)
                /\ \A o \in Polls \ {p} : poll'[o] = poll[o]
        BY <1>2, <1>8, <2>1, PollStarts
    <2>3. PICK p \in Polls :
                /\ inflight' = p /\ poll'[p] # None
                /\ poll'[p].loops = {loop'} \cup (IF poll[p] = None THEN {} ELSE poll[p].loops)
                /\ \A o \in Polls \ {p} : poll'[o] = poll[o]
        BY <2>2
    <2>4. TypeOK' BY <1>1, <1>2, <1>4, <1>8, <2>2, <2>3 DEF TypeOK, server
    <2>5. Drives(p)' /\ \A o \in Polls : Drives(o)' => o = p BY <1>5, <2>3 DEF Drives
    <2>6. loop' <= loop' BY <1>4
    <2>7. \A o \in Polls : poll'[o] # None => \A l \in poll'[o].loops : l <= loop' BY <1>5, <2>3, <2>6
    <2>8. Driven' BY <1>2, <1>4, <1>6, <1>8, <2>5, <2>7 DEF Driven
    <2> QED BY <1>2, <2>2, <2>4, <2>8, SyncKeeps
<1> QED BY <1>7, <1>8 DEF SignIn
LEMMA SignOutKeeps == ASSUME FeedInv, SignOut PROVE FeedInv'
<1>1. TypeOK BY DEF FeedInv
<1>2. session' \in BOOLEAN /\ faults' \in 0..MaxFaults
    <2>1. CASE session' = FALSE /\ UNCHANGED faults BY <1>1, <2>1 DEF TypeOK
    <2>2. CASE UNCHANGED session /\ Fault
        <3>1. session' \in BOOLEAN BY <1>1, <2>2 DEF TypeOK
        <3>2. faults' \in 0..MaxFaults BY <1>1, <2>2, FeedAssumption DEF Fault, TypeOK
        <3> QED BY <3>1, <3>2
    <2> QED BY <2>1, <2>2 DEF SignOut
<1>3. poll \in [Polls -> Pages \cup {None}] /\ \A o \in Polls : poll[o] \in {poll[o], None} BY <1>1 DEF TypeOK
<1> QED BY <1>2, <1>3, ResetKeeps DEF SignOut
LEMMA SessionEndsKeeps == ASSUME FeedInv, SessionEnds PROVE FeedInv'
<1>1. TypeOK /\ Numbered BY DEF FeedInv
<1>2. session' = FALSE /\ UNCHANGED <<server, sync, poll, call, faults>> BY DEF SessionEnds
<1>3. TypeOK' BY <1>1, <1>2 DEF TypeOK, server, sync
<1>4. ServerMoves BY <1>1, <1>2, RowsRest DEF server
<1> QED BY <1>2, <1>3, <1>4, ServerOnly DEF server

\* The timer that has run down is replaced by the poll it asks for.
LEMMA TickKeeps == ASSUME FeedInv, Tick PROVE FeedInv'
<1>1. TypeOK /\ Driven BY DEF FeedInv
<1>2. /\ timer /\ running /\ timer' = FALSE /\ StartPoll({loop})
      /\ UNCHANGED <<server, session, held, cursor, running, loop, stray, call, faults>>
    BY DEF Tick
<1>3. /\ stray = 0 /\ (\A o \in Polls : ~Drives(o))
      /\ \A o \in Polls : poll[o] # None => \A l \in poll[o].loops : l <= loop
    BY <1>1, <1>2 DEF Driven
<1>4. loop \in Nat /\ loop <= MaxLoops /\ MaxLoops \in Nat BY <1>1, FeedAssumption DEF TypeOK
<1>5. {loop} \in SUBSET (1..MaxLoops) BY <1>1, <1>2, <1>4 DEF Driven
<1>6. /\ poll' \in [Polls -> Pages \cup {None}] /\ Joinable' /\ PagesCover'
      /\ \A o \in Polls, d \in Docs : poll'[o] # None => Fits(row, d, poll'[o].rows[d])
      /\ \E p \in Polls :
            /\ inflight' = p /\ poll'[p] # None
            /\ poll'[p].loops = {loop} \cup (IF poll[p] = None THEN {} ELSE poll[p].loops)
            /\ \A o \in Polls \ {p} : poll'[o] = poll[o]
    BY <1>2, <1>5, PollStarts
<1>7. PICK p \in Polls :
            /\ inflight' = p /\ poll'[p] # None
            /\ poll'[p].loops = {loop} \cup (IF poll[p] = None THEN {} ELSE poll[p].loops)
            /\ \A o \in Polls \ {p} : poll'[o] = poll[o]
    BY <1>6
<1>8. TypeOK' BY <1>1, <1>2, <1>6, <1>7 DEF TypeOK, server
<1>9. Drives(p)' /\ \A o \in Polls : Drives(o)' => o = p BY <1>2, <1>3, <1>7 DEF Drives
<1>10. loop <= loop BY <1>4
<1>11. \A o \in Polls : poll'[o] # None => \A l \in poll'[o].loops : l <= loop BY <1>3, <1>7, <1>10
<1>12. Driven' BY <1>1, <1>2, <1>3, <1>9, <1>11 DEF Driven
<1> QED BY <1>2, <1>6, <1>8, <1>12, SyncKeeps

\* A poll that no tick waits for: the loop is driven as before.
LEMMA JoinsFacts ==
    ASSUME FeedInv, UNCHANGED <<server, cursor, running, loop, timer, stray>>, StartPoll({})
    PROVE  /\ poll' \in [Polls -> Pages \cup {None}] /\ inflight' \in Polls /\ Joinable' /\ Driven' /\ PagesCover'
           /\ \A o \in Polls, d \in Docs : poll'[o] # None => Fits(row, d, poll'[o].rows[d])
<1>1. Driven BY DEF FeedInv
<1>2. {} \in SUBSET (1..MaxLoops) OBVIOUS
<1>3. /\ poll' \in [Polls -> Pages \cup {None}] /\ Joinable' /\ PagesCover'
      /\ \A o \in Polls, d \in Docs : poll'[o] # None => Fits(row, d, poll'[o].rows[d])
      /\ \E p \in Polls :
            /\ inflight' = p /\ poll'[p] # None
            /\ poll'[p].loops = {} \cup (IF poll[p] = None THEN {} ELSE poll[p].loops)
            /\ \A o \in Polls \ {p} : poll'[o] = poll[o]
    BY <1>2, PollStarts
<1>4. PICK p \in Polls :
            /\ inflight' = p /\ poll'[p] # None
            /\ poll'[p].loops = {} \cup (IF poll[p] = None THEN {} ELSE poll[p].loops)
            /\ \A o \in Polls \ {p} : poll'[o] = poll[o]
    BY <1>3
<1>5. \A o \in Polls : Drives(o)' <=> Drives(o) BY <1>4 DEF Drives
<1>6. \A o \in Polls : poll'[o] # None => \A l \in poll'[o].loops : l <= loop BY <1>1, <1>4 DEF Driven
<1>7. Driven' BY <1>1, <1>5, <1>6 DEF Driven
<1> QED BY <1>3, <1>4, <1>7
LEMMA ShowKeeps == ASSUME FeedInv, Show PROVE FeedInv'
<1>1. TypeOK BY DEF FeedInv
<1>2. StartPoll({}) /\ UNCHANGED <<server, session, held, cursor, running, loop, timer, stray, call, faults>> BY DEF Show
<1>3. /\ poll' \in [Polls -> Pages \cup {None}] /\ inflight' \in Polls /\ Joinable' /\ Driven' /\ PagesCover'
      /\ \A o \in Polls, d \in Docs : poll'[o] # None => Fits(row, d, poll'[o].rows[d])
    BY <1>2, JoinsFacts
<1>4. TypeOK' BY <1>1, <1>2, <1>3 DEF TypeOK, server
<1> QED BY <1>2, <1>3, <1>4, SyncKeeps
LEMMA FailPollsKeeps == ASSUME FeedInv, NEW c \in Calls, FailPolls(c) PROVE FeedInv'
<1>1. TypeOK /\ Numbered /\ ViewsFit /\ NothingSkipped BY DEF FeedInv
<1> DEFINE r == [Done EXCEPT !.docs = Docs]
<1>2. /\ call' = [call EXCEPT ![c] = r] /\ StartPoll({})
      /\ UNCHANGED <<server, session, held, cursor, running, loop, timer, stray>>
    BY DEF FailPolls, Ended
<1>3. r \in CallType /\ r.step = "done" /\ r.view = NoViews BY EndedCall
<1> HIDE DEF r
<1>4. /\ call' \in [Calls -> CallType] /\ PartsUnsent'
      /\ \A b \in Calls, d \in Docs : Fits(row, d, call'[b].view[d])
    BY <1>2, <1>3, CallRests
<1>5. /\ poll' \in [Polls -> Pages \cup {None}] /\ inflight' \in Polls /\ Joinable' /\ Driven' /\ PagesCover'
      /\ \A o \in Polls, d \in Docs : poll'[o] # None => Fits(row, d, poll'[o].rows[d])
    BY <1>2, JoinsFacts
<1>6. faults' \in 0..MaxFaults BY <1>1, FeedAssumption DEF FailPolls, Fails, Fault, TypeOK
<1>7. TypeOK' BY <1>1, <1>2, <1>4, <1>5, <1>6 DEF TypeOK, CallType, server
<1>8. Numbered' /\ NothingSkipped' BY <1>1, <1>2 DEF Numbered, NothingSkipped, Exists, server
<1>9. ViewsFit' BY <1>1, <1>2, <1>4, <1>5 DEF ViewsFit, server
<1> QED BY <1>4, <1>5, <1>7, <1>8, <1>9 DEF FeedInv

-----------------------------------------------------------------------------
(* The invariant, and what follows from it.                                *)

LEMMA FeedStarts == Init => FeedInv
<1> SUFFICES ASSUME Init PROVE FeedInv OBVIOUS
<1>1. PICK f \in Bijection(Parts, 1..Cardinality(Parts)) :
          row = [d \in Docs |-> IF d = Whole THEN None ELSE [seq |-> f[d], state |-> "needs_review"]]
    BY DEF Init
<1>2. f \in [Parts -> 1..Cardinality(Parts)] BY DEF Bijection, Injection
<1>3. /\ seq = Cardinality(Parts) /\ unreadable = {} /\ sent = {}
      /\ session = FALSE /\ held = NoViews /\ cursor = 0 /\ inflight = None
      /\ running = FALSE /\ loop = 0 /\ timer = FALSE /\ stray = 0
      /\ poll = [p \in Polls |-> None] /\ call = [c \in Calls |-> Done] /\ faults = 0
    BY DEF Init
<1>4. row[Whole] = None /\ Whole \in Docs BY <1>1 DEF Docs
<1>5. ASSUME NEW d \in Parts PROVE row[d] \in Views /\ row[d].seq <= seq
    <2>1. row[d] = [seq |-> f[d], state |-> "needs_review"] BY <1>1, FeedAssumption DEF Docs
    <2>2. f[d] \in 1..Cardinality(Parts) BY <1>2
    <2>3. f[d] \in 1..Last /\ f[d] <= seq BY <1>3, <2>2, Sizes
    <2> QED BY <2>1, <2>3 DEF Views, States
<1>6. row \in [Docs -> Views \cup {None}]
    <2>1. \A d \in Docs : row[d] \in Views \cup {None} BY <1>4, <1>5 DEF Docs
    <2>2. row = [d \in Docs |-> row[d]] BY <1>1
    <2> QED BY <2>1, <2>2
<1>7. call \in [Calls -> CallType] /\ \A c \in Calls : call[c].step = "done" /\ call[c].view = NoViews
    BY <1>3, EndedCall
<1>8. seq \in 0..Last /\ 0 \in 0..Last /\ 0 \in 0..MaxLoops /\ 0 \in 0..MaxFaults
    BY <1>3, FeedAssumption, Sizes
<1>9. NoViews \in [Docs -> Views \cup {None}] BY DEF NoViews
<1>10. TypeOK BY <1>3, <1>6, <1>7, <1>8, <1>9 DEF TypeOK, CallType
<1>11. Numbered BY <1>3, <1>4, <1>5, <1>8, Sizes DEF Numbered, Docs
<1>12. ViewsFit BY <1>3, <1>7, NoneFits DEF ViewsFit
<1>13. PagesCover /\ Joinable /\ Driven BY <1>3, FeedAssumption DEF PagesCover, Joinable, Driven
<1>14. PartsUnsent BY <1>7 DEF PartsUnsent
<1>15. NothingSkipped
    <2>1. \A d \in Docs : row[d] # None => row[d].seq \in Nat /\ row[d].seq >= 1 BY <1>10, RowFields
    <2>2. \A d \in Docs : row[d] # None => ~(row[d].seq <= 0) BY <2>1
    <2> QED BY <1>3, <2>2 DEF NothingSkipped, Exists
<1> QED BY <1>10, <1>11, <1>12, <1>13, <1>14, <1>15 DEF FeedInv

LEMMA FeedContinues == FeedInv /\ [Next]_vars => FeedInv'
<1> SUFFICES ASSUME FeedInv, [Next]_vars PROVE FeedInv' OBVIOUS
<1>1. CASE UNCHANGED vars
    <2>1. TypeOK /\ Numbered BY DEF FeedInv
    <2>2. UNCHANGED <<row, seq, sent, sync, poll, call>> BY <1>1 DEF vars, sync
    <2>3. TypeOK' BY <1>1, <2>1 DEF TypeOK, vars
    <2>4. ServerMoves BY <2>1, <2>2, RowsRest
    <2> QED BY <2>2, <2>3, <2>4, ServerOnly
<1>2. CASE Changes
    BY <1>2, AdvanceKeeps, WorkerReadsKeeps, DamageKeeps, SignOutKeeps, SessionEndsKeeps DEF Changes
<1>3. CASE User BY <1>3, UserKeeps
<1>4. CASE Serves
    BY <1>4, CombineReadsKeeps, CombineInsertsKeeps, TakeAnswerKeeps, FailPollsKeeps, FailShownKeeps,
       ActDoneKeeps, ActRefusedKeeps, GetKeeps, GoneKeeps
       DEF Serves
<1>5. CASE SignIn \/ Show \/ Tick BY <1>5, SignInKeeps, ShowKeeps, TickKeeps
<1>6. CASE \E p \in Polls : PollStep(p) BY <1>6, PollStepKeeps
<1> QED BY <1>1, <1>2, <1>3, <1>4, <1>5, <1>6 DEF Next
LEMMA FeedInvariant == Spec => []FeedInv
BY FeedStarts, FeedContinues, PTL DEF Spec

\* Every version up to the cursor is held, whatever documents there are, however the
\* pages are cut and however many polls and answers overlap (repo.ts:457, sync.ts:110).
THEOREM NothingIsSkipped == Spec => []NothingSkipped
<1>1. FeedInv => NothingSkipped BY DEF FeedInv
<1> QED BY <1>1, FeedInvariant, PTL

\* One poll asks for the current generation, and either one timer or one poll drives
\* the loop of the newest sign-in: no timer is ever left behind (sync.ts:142).
THEOREM OnePollDrives == Spec => []OnePoll
<1>1. FeedInv => OnePoll
    <2> SUFFICES ASSUME FeedInv PROVE OnePoll OBVIOUS
    <2>1. Joinable /\ Driven BY DEF FeedInv
    <2>2. Cardinality({p \in Polls : poll[p] # None /\ ~poll[p].stale}) <= 1
        <3> DEFINE T == {p \in Polls : poll[p] # None /\ ~poll[p].stale}
        <3>1. T \in SUBSET {inflight} BY <2>1 DEF Joinable
        <3>2. IsFiniteSet({inflight}) /\ Cardinality({inflight}) = 1 BY FS_Singleton
        <3>3. Cardinality(T) <= Cardinality({inflight}) BY <3>1, <3>2, FS_Subset
        <3> QED BY <3>2, <3>3
    <2>3. ASSUME running
          PROVE  Cardinality({p \in Polls : poll[p] # None /\ loop \in poll[p].loops}) + (IF timer THEN 1 ELSE 0) = 1
        <3> DEFINE T == {p \in Polls : poll[p] # None /\ loop \in poll[p].loops}
        <3>1. CASE timer
            <4>1. T = {} BY <2>1, <2>3, <3>1 DEF Driven, Drives
            <4>2. Cardinality(T) = 0 BY <4>1, FS_EmptySet
            <4> HIDE DEF T
            <4>3. Cardinality(T) + (IF timer THEN 1 ELSE 0) = 1 BY <3>1, <4>2
            <4> QED BY <4>3 DEF T
        <3>2. CASE ~timer
            <4>1. PICK p \in Polls : T = {p} BY <2>1, <2>3, <3>2 DEF Driven, Drives
            <4>2. Cardinality(T) = 1 BY <4>1, FS_Singleton
            <4> HIDE DEF T
            <4>3. Cardinality(T) + (IF timer THEN 1 ELSE 0) = 1 BY <3>2, <4>2
            <4> QED BY <4>3 DEF T
        <3> QED BY <3>1, <3>2
    <2> QED BY <2>1, <2>2, <2>3 DEF OnePoll, Driven
<1> QED BY <1>1, FeedInvariant, PTL

\* Nothing that is held is ever replaced by an older version, in whatever order pages
\* and answers are taken (sync.ts:104).
THEOREM HeldIsNeverOlder == Spec => NeverOlder
<1> DEFINE A == \A d \in Docs : held[d] # None /\ held'[d] # None => held'[d].seq >= held[d].seq
<1>1. FeedInv /\ [Next]_vars => [A]_vars
    <2> SUFFICES ASSUME FeedInv, Next PROVE A OBVIOUS
    <2>1. TypeOK /\ ViewsFit BY DEF FeedInv
    <2>2. CASE UNCHANGED held
        <3>1. \A d \in Docs : held[d] # None => held[d].seq \in Nat BY <2>1, ViewFields DEF TypeOK
        <3> QED BY <2>2, <3>1
    <2>3. CASE held' = NoViews BY <2>3 DEF NoViews
    <2>4. ASSUME NEW p \in Polls, TakePage(p) PROVE A
        <3>1. poll[p] # None /\ poll[p] \in Pages /\ Put(poll[p].rows) BY <2>1, <2>4 DEF TakePage, TypeOK
        <3>2. poll[p].rows \in [Docs -> Views \cup {None}] /\ \A d \in Docs : Fits(row, d, poll[p].rows[d])
            BY <2>1, <3>1, PageFields DEF ViewsFit
        <3> QED BY <2>1, <3>1, <3>2, PutFacts
    <2>5. ASSUME NEW c \in Calls, TakeAnswer(c) PROVE A
        <3>1. call[c].view \in [Docs -> Views \cup {None}] /\ \A d \in Docs : Fits(row, d, call[c].view[d])
            BY <2>1, CallFields DEF ViewsFit
        <3>2. Put(call[c].view) BY <2>5 DEF TakeAnswer
        <3> QED BY <2>1, <3>1, <3>2, PutFacts
    <2>6. ASSUME NEW c \in Calls, NEW d \in Docs, Gone(c, d) PROVE A
        <3>1. \A e \in Docs : held'[e] = held[e] \/ held'[e] = None BY <2>1, <2>6 DEF Gone, TypeOK
        <3>2. \A e \in Docs : held[e] # None => held[e].seq \in Nat BY <2>1, ViewFields DEF TypeOK
        <3> QED BY <3>1, <3>2
    <2>7. CASE Changes BY <2>2, <2>3, <2>7 DEF Changes, Advance, WorkerReads, Spoil, Purge, SignOut, SessionEnds, Reset, sync
    <2>8. CASE User BY <2>2, <2>8 DEF User, Act, Combine, Send, sync
    <2>9. CASE Serves
        BY <2>2, <2>5, <2>6, <2>9
           DEF Serves, CombineReads, CombineInserts, FailPolls, FailShown, ActDone, ActRefused, Get, sync
    <2>10. CASE SignIn \/ Show \/ Tick BY <2>2, <2>10 DEF SignIn, Show, Tick
    <2>11. CASE \E p \in Polls : PollStep(p)
        BY <2>2, <2>3, <2>4, <2>11 DEF PollStep, ListReads, DropPoll, PollUnauthorized, Reset, sync
    <2> HIDE DEF A
    <2> QED BY <2>7, <2>8, <2>9, <2>10, <2>11 DEF Next
<1> QED BY <1>1, FeedInvariant, PTL DEF Spec, NeverOlder

\* When a combine is recorded no part was ever on its way to Drive, however often the
\* parts changed while the PDF was built (routes-documents.ts:174, repo.ts:271).
THEOREM CombinedWasNotSent == Spec => CombinedNotSent
<1> DEFINE A == Exists(Whole)' /\ ~Exists(Whole) => sent = {}
<1>1. FeedInv /\ [Next]_vars => [A]_vars
    <2> SUFFICES ASSUME FeedInv, Next, row'[Whole] # None, row[Whole] = None PROVE sent = {} BY DEF Exists
    <2>1. TypeOK /\ Numbered /\ PartsUnsent /\ Whole \in Docs BY DEF FeedInv, Docs
    <2>2. ASSUME NEW c \in Calls, CombineInserts(c) PROVE sent = {}
        <3>1. call[c].step = "building" /\ \A p \in Parts : row[p] # None /\ row[p].seq = call[c].seqs[p]
            BY <2>2 DEF CombineInserts, AsRead, In, Exists
        <3>2. \A p \in Parts : p \notin sent BY <2>1, <3>1 DEF PartsUnsent
        <3> QED BY <2>1, <3>2 DEF TypeOK
    <2>3. ~UNCHANGED row OBVIOUS
    <2>4. \A d \in Docs : row[d] # None => ~(\E state \in States : Move(d, state)) BY <2>1 DEF Move, TypeOK
    <2>5. ASSUME NEW ds \in SUBSET Docs, \A d \in ds : row[d] # None PROVE ~Read(ds) BY <2>1, <2>5, ReadFacts
    <2>6. ~(\E d \in Docs : Advance(d)) BY <2>4 DEF Advance, Exists, States
    <2>7. ASSUME NEW d \in Docs PROVE ~WorkerReads(d) /\ ~Spoil(d) /\ ~Purge(d)
        <3>1. row[d] # None => ~Read({d}) BY <2>5
        <3>2. ~Purge(d) BY <2>1 DEF Purge, TypeOK
        <3> QED BY <2>3, <3>1, <3>2 DEF WorkerReads, Spoil, Exists
    <2>8. ~SignOut /\ ~SessionEnds BY <2>3 DEF SignOut, SessionEnds, server
    <2>9. ~Changes BY <2>6, <2>7, <2>8 DEF Changes
    <2>10. ~User BY <2>3 DEF User, Act, Combine, Send, server
    <2>11. ASSUME NEW c \in Calls PROVE ~CombineReads(c) /\ ~TakeAnswer(c) /\ ~FailPolls(c) /\ ~FailShown(c)
        BY <2>3 DEF CombineReads, TakeAnswer, FailPolls, FailShown, server
    <2>12. ASSUME NEW c \in Calls, NEW d \in Docs
           PROVE  ~ActDone(c, d) /\ ~ActRefused(c, d) /\ ~Get(c, d) /\ ~Gone(c, d)
        <3>1. To(call[c].kind) \in States BY DEF To, States
        <3>2. ~ActDone(c, d) BY <2>4, <3>1 DEF ActDone, In, Exists
        <3>3. row[d] # None => ~Read({d}) BY <2>5
        <3> QED BY <2>3, <3>2, <3>3 DEF ActRefused, Get, Gone, Exists, server
    <2>13. CASE Serves BY <2>2, <2>11, <2>12, <2>13 DEF Serves
    <2>14. ~(SignIn \/ Show \/ Tick) BY <2>3 DEF SignIn, Show, Tick, server
    <2>15. ASSUME NEW p \in Polls PROVE ~PollStep(p)
        <3>1. ~ListReads(p)
            <4> SUFFICES ASSUME ListReads(p) PROVE FALSE OBVIOUS
            <4>1. poll[p] # None /\ poll[p] \in Pages /\ Read(Page(poll[p].since)) BY <2>1 DEF ListReads, TypeOK
            <4>2. poll[p].since \in Nat BY <4>1, PageFields
            <4>3. Page(poll[p].since) \in SUBSET Docs /\ \A d \in Page(poll[p].since) : row[d] # None
                BY DEF Page, Exists
            <4> QED BY <2>5, <4>1, <4>3
        <3> QED BY <2>3, <3>1 DEF PollStep, TakePage, DropPoll, PollUnauthorized, server
    <2> QED BY <2>9, <2>10, <2>13, <2>14, <2>15 DEF Next
<1> QED BY <1>1, FeedInvariant, PTL DEF Spec, CombinedNotSent
=============================================================================
