---------------------------- MODULE ScannerProofs ----------------------------
(***************************************************************************)
(* The scanner, for any number of openings, captures, taps, sign-ins and   *)
(* failures: no page of an unfinished scan is written over, and every page *)
(* that was shown at Done is in the PDF, in order (Scanner).               *)
(***************************************************************************)
EXTENDS Scanner, FiniteSetTheorems, WellFoundedInduction, TLAPS

-----------------------------------------------------------------------------
(* The invariant.                                                          *)

\* Scans, openings, commits and works are records of the kinds they are made as.
Books    == UNION {[ordinals -> Captures] : ordinals \in SUBSET Nat}
Scans    == [status : {"none", "in_progress", "completed"}, count : Nat, pages : Books]
Openings == [step : Steps, scan : Mounts \cup {None}]
Commits  == [mount : Mounts, page : Captures, tap : Taps, edited : BOOLEAN]
Jobs     == [kind : Works, mount : Mounts \cup {None}, scan : Mounts, tap : Taps, count : Nat]
StoreFits ==
    /\ scan \in [Mounts -> Scans] /\ promised \in [Mounts -> Seq(Captures)] /\ DOMAIN pdf = Mounts
    /\ mount \in [Mounts -> Openings] /\ commits \subseteq Commits /\ works \subseteq Jobs
    /\ open \in Mounts \cup {None} /\ edit \in Captures \cup {None} /\ resume \in Mounts \cup {None}

\* What an opening may do by the step it is at.
Unborn(s) == mount[s].step \in {"unused", "find", "delete", "put"}
ScreenFits ==
    /\ \A m \in Mounts : HasSession(m) \/ At(m, "delete") => mount[m].scan # None
    /\ \A m \in cam : m \in Mounts /\ At(m, "ready")
    /\ \A k \in commits : At(k.mount, "ready")
    /\ edit # None => open # None /\ At(open, "ready")
    /\ open = None => shown = <<>>
    /\ open # None /\ (Unborn(open) \/ At(open, "count")) => shown = <<>>

\* Nothing knows of a scan before its opening has put it into the store.
NotYetBorn(s) ==
    /\ scan[s] = Gone /\ promised[s] = <<>> /\ resume # s
    /\ \A w \in works : w.scan # s
    /\ \A m \in Mounts : mount[m].scan # s
UnbornUnknown == \A s \in Mounts : Unborn(s) => NotYetBorn(s)

\* The pages of a scan that is not finished are numbered to its count.
Growing == \A s \in InProgress : DOMAIN scan[s].pages = 0..(scan[s].count - 1)

\* What is shown of it is stored, in that order.
ShownStored ==
    open # None /\ mount[open].step \in {"camera", "ready"} /\ scan[mount[open].scan].status = "in_progress"
        => shown \in Seq(Captures) /\ IsWithin(shown, scan[mount[open].scan].pages)

\* What was promised lies below every number the next page can get: the
\* count of the row, and the one that a finish() under way writes back to it.
Writes(s) == {w \in works : w.kind = "done-put" /\ w.scan = s}
LiesBelow(s, c) ==
    \E at \in [DOMAIN promised[s] -> 0..(c - 1)] :
        Ascends(at) /\ \A i \in DOMAIN promised[s] : promised[s][i] = scan[s].pages[at[i]]
IsKept(s, c, n) ==
    /\ DOMAIN scan[s].pages = 0..(n - 1) /\ c <= scan[s].count /\ scan[s].count <= n
    /\ \A w \in Writes(s) : c <= w.count /\ w.count <= n
    /\ LiesBelow(s, c)
PromiseKept == \A s \in Mounts : promised[s] # <<>> => \E c, n \in Nat : IsKept(s, c, n)

ScannerInv == StoreFits /\ ScreenFits /\ UnbornUnknown /\ Growing /\ ShownStored /\ PromiseKept

-----------------------------------------------------------------------------
(* Facts about the operators of the model.                                 *)

\* Some natural numbers have a least one, and up to a bound a greatest one.
LEMMA LeastOf ==
    ASSUME NEW T, T \subseteq Nat, T # {}
    PROVE  \E m \in T : \A k \in T : m <= k
<1> DEFINE R == OpToRel(<, Nat)
<1>1. IsWellFoundedOn(R, Nat) BY NatLessThanWellFounded
<1>2. \A x, y \in Nat : x < y => <<x, y>> \in R BY DEF OpToRel
<1> HIDE DEF R
<1>3. PICK m \in T : \A k \in T : ~(<<k, m>> \in R) BY <1>1, WFMin
<1>4. \A k \in T : ~(k < m) BY <1>2, <1>3
<1> QED BY <1>4
LEMMA GreatestOf ==
    ASSUME NEW n \in Nat, NEW T, T \subseteq 0..n, T # {}
    PROVE  \E m \in T : \A k \in T : k <= m
<1> DEFINE U == {n - k : k \in T}
<1>1. U \subseteq Nat /\ U # {}
    <2>1. \A k \in T : k \in Nat /\ k <= n OBVIOUS
    <2>2. \A k \in T : n - k \in Nat BY <2>1
    <2> QED BY <2>2
<1> HIDE DEF U
<1>2. PICK u \in U : \A v \in U : u <= v BY <1>1, LeastOf
<1> USE DEF U
<1>3. PICK m \in T : u = n - m OBVIOUS
<1>4. ASSUME NEW k \in T PROVE k <= m
    <2>1. n - k \in U OBVIOUS
    <2>2. u <= n - k BY <1>2, <2>1
    <2> QED BY <1>3, <2>2
<1> QED BY <1>4

\* Pages that are numbered without a gap are listed by their numbers.
LEMMA Increasing ==
    ASSUME NEW n \in Nat, NEW at \in [1..n -> 0..(n - 1)], Ascends(at)
    PROVE  \A i \in 1..n : at[i] = i - 1
<1>1. \A i \in 1..n : at[i] \in Nat /\ at[i] <= n - 1 /\ i \in Nat OBVIOUS
<1>2. \A i, j \in 1..n : i < j => at[i] < at[j] BY DEF Ascends
<1> DEFINE Low == {i \in 1..n : at[i] < i - 1}  High == {i \in 1..n : at[i] > i - 1}
<1>3. Low = {}
    <2> SUFFICES ASSUME Low # {} PROVE FALSE OBVIOUS
    <2>1. Low \subseteq Nat OBVIOUS
    <2> HIDE DEF Low
    <2>2. PICK i \in Low : \A k \in Low : i <= k BY <2>1, LeastOf
    <2> USE DEF Low
    <2>3. i \in 1..n /\ at[i] < i - 1 /\ at[i] \in Nat BY <1>1
    <2>4. i - 1 \in 1..n /\ i - 1 < i BY <2>3
    <2>5. i - 1 \notin Low BY <2>2, <2>4
    <2>6. at[i - 1] >= i - 2 /\ at[i - 1] \in Nat BY <1>1, <2>4, <2>5
    <2>7. at[i - 1] < at[i] BY <1>2, <2>3, <2>4
    <2> QED BY <2>3, <2>6, <2>7
<1>4. High = {}
    <2> SUFFICES ASSUME High # {} PROVE FALSE OBVIOUS
    <2>1. High \subseteq 0..n OBVIOUS
    <2> HIDE DEF High
    <2>2. PICK i \in High : \A k \in High : k <= i BY <2>1, GreatestOf
    <2> USE DEF High
    <2>3. i \in 1..n /\ at[i] > i - 1 /\ at[i] \in Nat /\ at[i] <= n - 1 BY <1>1
    <2>4. i + 1 \in 1..n /\ i < i + 1 BY <2>3
    <2>5. i + 1 \notin High BY <2>2, <2>4
    <2>6. at[i + 1] <= i /\ at[i + 1] \in Nat BY <1>1, <2>4, <2>5
    <2>7. at[i] < at[i + 1] BY <1>2, <2>3, <2>4
    <2> QED BY <2>3, <2>6, <2>7
<1>5. ASSUME NEW i \in 1..n PROVE at[i] = i - 1
    <2>1. ~(at[i] < i - 1) /\ ~(at[i] > i - 1) BY <1>3, <1>4
    <2> HIDE DEF Low, High
    <2> QED BY <1>1, <2>1
<1> QED BY <1>5
LEMMA ByNumber ==
    ASSUME NEW n \in Nat
    PROVE  /\ InOrder(0..(n - 1)) \in [1..n -> 0..(n - 1)]
           /\ \A i \in 1..n : InOrder(0..(n - 1))[i] = i - 1
<1>1. Cardinality(0..(n - 1)) = n
    <2>1. 0 \in Int /\ n - 1 \in Int OBVIOUS
    <2>2. Cardinality(0..(n - 1)) = IF 0 > n - 1 THEN 0 ELSE (n - 1) - 0 + 1 BY <2>1, FS_Interval
    <2> QED BY <2>2
<1> DEFINE f == [i \in 1..n |-> i - 1]
<1>2. f \in [1..n -> 0..(n - 1)] /\ Ascends(f) BY DEF Ascends
<1>3. InOrder(0..(n - 1)) \in [1..n -> 0..(n - 1)] /\ Ascends(InOrder(0..(n - 1))) BY <1>1, <1>2 DEF InOrder
<1> QED BY <1>3, Increasing
LEMMA Listed ==
    ASSUME NEW s \in Mounts, NEW n \in Nat, scan[s].pages \in [0..(n - 1) -> Captures]
    PROVE  GetPages(s) \in [1..n -> Captures] /\ \A i \in 1..n : GetPages(s)[i] = scan[s].pages[i - 1]
<1>1. DOMAIN scan[s].pages = 0..(n - 1) OBVIOUS
<1>2. InOrder(0..(n - 1)) \in [1..n -> 0..(n - 1)] /\ \A i \in 1..n : InOrder(0..(n - 1))[i] = i - 1 BY ByNumber
<1>3. GetPages(s) = [i \in 1..n |-> scan[s].pages[InOrder(0..(n - 1))[i]]] BY <1>1, <1>2 DEF GetPages
<1> QED BY <1>2, <1>3

\* No page, and no scan, is of the kinds that the store keeps.
LEMMA GoneFits == Gone \in Scans /\ Gone.pages = <<>> /\ Gone.status = "none" /\ Gone.count = 0 /\ DOMAIN Gone.pages = {}
<1>1. <<>> \in [{} -> Captures] /\ {} \in SUBSET Nat OBVIOUS
<1>2. <<>> \in Books BY <1>1 DEF Books
<1>3. 0 \in Nat OBVIOUS
<1> QED BY <1>2, <1>3 DEF Gone, Scans
LEMMA ScanFields ==
    ASSUME StoreFits, NEW s \in Mounts
    PROVE  /\ scan[s] \in Scans /\ scan[s].count \in Nat /\ DOMAIN scan[s].pages \subseteq Nat
           /\ scan[s].pages \in [DOMAIN scan[s].pages -> Captures]
<1>1. scan[s] \in Scans BY DEF StoreFits
<1>2. scan[s].count \in Nat /\ scan[s].pages \in Books BY <1>1 DEF Scans
<1>3. PICK ordinals \in SUBSET Nat : scan[s].pages \in [ordinals -> Captures] BY <1>2 DEF Books
<1> QED BY <1>1, <1>2, <1>3

\* What the pages of a scan that is not finished list is all of them.
LEMMA ListedAll ==
    ASSUME StoreFits, Growing, NEW s \in Mounts, scan[s].status = "in_progress"
    PROVE  GetPages(s) \in Seq(Captures) /\ IsWithin(GetPages(s), scan[s].pages)
<1>1. scan[s].count \in Nat /\ scan[s].pages \in [DOMAIN scan[s].pages -> Captures] BY ScanFields
<1>2. PICK n \in Nat : n = scan[s].count BY <1>1
<1>3. DOMAIN scan[s].pages = 0..(n - 1) BY <1>2 DEF Growing, InProgress
<1>4. GetPages(s) \in [1..n -> Captures] /\ \A i \in 1..n : GetPages(s)[i] = scan[s].pages[i - 1]
    BY <1>1, <1>3, Listed
<1>5. DOMAIN GetPages(s) = 1..n BY <1>4
<1> DEFINE f == [i \in 1..n |-> i - 1]
<1>6. f \in [1..n -> 0..(n - 1)] /\ Ascends(f) BY DEF Ascends
<1>7. IsWithin(GetPages(s), scan[s].pages)
    <2>1. \A i \in 1..n : GetPages(s)[i] = scan[s].pages[f[i]] BY <1>4
    <2> HIDE DEF f
    <2> QED BY <1>3, <1>5, <1>6, <2>1 DEF IsWithin
<1>8. GetPages(s) \in Seq(Captures) BY <1>4
<1> QED BY <1>7, <1>8

\* No page is within any pages.
LEMMA NoneIsWithin == ASSUME NEW all PROVE IsWithin(<<>>, all) /\ <<>> \in Seq(Captures)
<1>1. <<>> \in [DOMAIN <<>> -> DOMAIN all] /\ DOMAIN <<>> = {} OBVIOUS
<1>2. Ascends(<<>>) BY <1>1 DEF Ascends
<1>3. IsWithin(<<>>, all) BY <1>1, <1>2 DEF IsWithin
<1> QED BY <1>3

\* What lies below a number is in the list of the pages.
LEMMA KeptIsListed ==
    ASSUME StoreFits, PromiseKept, NEW s \in Mounts
    PROVE  IsWithin(promised[s], GetPages(s))
<1>1. CASE promised[s] = <<>>
    <2> QED BY <1>1, NoneIsWithin
<1>2. CASE promised[s] # <<>>
    <2>1. PICK c, n \in Nat : IsKept(s, c, n) BY <1>2 DEF PromiseKept
    <2>2. scan[s].pages \in [0..(n - 1) -> Captures] /\ scan[s].count \in Nat BY <2>1, ScanFields DEF IsKept
    <2>3. GetPages(s) \in [1..n -> Captures] /\ \A i \in 1..n : GetPages(s)[i] = scan[s].pages[i - 1] BY <2>2, Listed
    <2>4. PICK at \in [DOMAIN promised[s] -> 0..(c - 1)] :
              Ascends(at) /\ \A i \in DOMAIN promised[s] : promised[s][i] = scan[s].pages[at[i]]
        BY <2>1 DEF IsKept, LiesBelow
    <2>5. c <= n BY <2>1, <2>2 DEF IsKept
    <2> DEFINE f == [i \in DOMAIN promised[s] |-> at[i] + 1]
    <2>6. \A i \in DOMAIN promised[s] : at[i] \in Nat /\ at[i] < c BY <2>4
    <2>7. \A i \in DOMAIN promised[s] : at[i] + 1 \in 1..n /\ (at[i] + 1) - 1 = at[i] BY <2>5, <2>6
    <2>8. f \in [DOMAIN promised[s] -> 1..n] BY <2>7
    <2>9. Ascends(f)
        <3>1. \A i, j \in DOMAIN promised[s] : i < j => at[i] < at[j] BY <2>4 DEF Ascends
        <3>2. \A i, j \in DOMAIN promised[s] : at[i] < at[j] => at[i] + 1 < at[j] + 1 BY <2>6
        <3> QED BY <3>1, <3>2 DEF Ascends
    <2>10. \A i \in DOMAIN promised[s] : promised[s][i] = GetPages(s)[f[i]] BY <2>3, <2>4, <2>7
    <2>11. DOMAIN GetPages(s) = 1..n BY <2>3
    <2> HIDE DEF f
    <2> QED BY <2>8, <2>9, <2>10, <2>11 DEF IsWithin
<1> QED BY <1>1, <1>2

-----------------------------------------------------------------------------
(* Steps that store no page.                                               *)

\* A scan is as it was, or is deleted.
OnlyLoses ==
    /\ scan' \in [Mounts -> Scans] /\ promised' \in [Mounts -> Seq(Captures)]
    /\ \A s \in Mounts : \/ scan'[s] = scan[s] /\ promised'[s] = promised[s]
                         \/ scan'[s] = Gone /\ promised'[s] = <<>>
LEMMA Unchanged == ASSUME StoreFits, UNCHANGED <<scan, promised>> PROVE OnlyLoses
<1>1. scan' \in [Mounts -> Scans] /\ promised' \in [Mounts -> Seq(Captures)] BY DEF StoreFits
<1>2. \A s \in Mounts : scan'[s] = scan[s] /\ promised'[s] = promised[s] OBVIOUS
<1> QED BY <1>1, <1>2 DEF OnlyLoses
LEMMA Deletes == ASSUME StoreFits, NEW s \in Mounts, Delete(s) PROVE OnlyLoses
<1>1. scan \in [Mounts -> Scans] /\ promised \in [Mounts -> Seq(Captures)] BY DEF StoreFits
<1>2. scan' = [scan EXCEPT ![s] = Gone] /\ promised' = [promised EXCEPT ![s] = <<>>] BY DEF Delete
<1>3. Gone \in Scans /\ <<>> \in Seq(Captures) BY GoneFits
<1>4. scan' \in [Mounts -> Scans] /\ promised' \in [Mounts -> Seq(Captures)] BY <1>1, <1>2, <1>3
<1>5. \A t \in Mounts : t # s => scan'[t] = scan[t] /\ promised'[t] = promised[t] BY <1>1, <1>2
<1>6. scan'[s] = Gone /\ promised'[s] = <<>> BY <1>1, <1>2
<1> QED BY <1>4, <1>5, <1>6 DEF OnlyLoses

\* What is kept of a scan stays kept while its row, its promise and the works that
\* write the row are the same.
LEMMA KeptStays ==
    ASSUME NEW s \in Mounts, NEW c \in Nat, NEW n \in Nat, IsKept(s, c, n), scan'[s] = scan[s], promised'[s] = promised[s],
           \A w \in works' : w \in works \/ w.kind # "done-put" \/ w.scan # s \/ (c <= w.count /\ w.count <= n)
    PROVE  IsKept(s, c, n)'
<1>1. LiesBelow(s, c)' BY DEF IsKept, LiesBelow
<1>2. ASSUME NEW w \in works', w.kind = "done-put", w.scan = s PROVE c <= w.count /\ w.count <= n
    BY <1>2 DEF IsKept, Writes
<1>3. \A w \in Writes(s)' : c <= w.count /\ w.count <= n BY <1>2 DEF Writes
<1> QED BY <1>1, <1>3 DEF IsKept
LEMMA StoreLoses ==
    ASSUME ScannerInv, OnlyLoses, \A w \in works' : w \in works \/ w.kind # "done-put"
    PROVE  Growing' /\ PromiseKept'
<1>1. Growing /\ PromiseKept BY DEF ScannerInv
<1>2. Growing'
    <2>1. ASSUME NEW s \in Mounts, scan'[s].status = "in_progress" PROVE DOMAIN scan'[s].pages = 0..(scan'[s].count - 1)
        <3>1. scan'[s] = scan[s] BY <2>1, GoneFits DEF OnlyLoses
        <3> QED BY <1>1, <2>1, <3>1 DEF Growing, InProgress
    <2> QED BY <2>1 DEF Growing, InProgress
<1>3. PromiseKept'
    <2>1. ASSUME NEW s \in Mounts, promised'[s] # <<>> PROVE \E c, n \in Nat : IsKept(s, c, n)'
        <3>1. scan'[s] = scan[s] /\ promised'[s] = promised[s] BY <2>1 DEF OnlyLoses
        <3>2. PICK c, n \in Nat : IsKept(s, c, n) BY <1>1, <2>1, <3>1 DEF PromiseKept
        <3>3. IsKept(s, c, n)' BY <3>1, <3>2, KeptStays
        <3> QED BY <3>3
    <2> QED BY <2>1 DEF PromiseKept
<1> QED BY <1>2, <1>3

\* An opening has a scan that was put into the store, and so has the prompt.
LEMMA Born ==
    ASSUME ScannerInv, NEW s \in Mounts
    PROVE  /\ resume = s => ~Unborn(s)
           /\ scan[s].status = "in_progress" => ~Unborn(s)
           /\ \A w \in works : w.scan = s => ~Unborn(s)
           /\ \A m \in Mounts : mount[m].scan = s => ~Unborn(s)
BY GoneFits DEF ScannerInv, UnbornUnknown, NotYetBorn

\* No scan gets a page, or is begun.
StoreMoves ==
    /\ scan' \in [Mounts -> Scans] /\ promised' \in [Mounts -> Seq(Captures)]
    /\ \A s \in Mounts : scan'[s] = scan[s] \/ scan'[s].status # "in_progress"
    /\ \A s \in Mounts : Unborn(s) => scan'[s] = Gone /\ promised'[s] = <<>>
    /\ Growing' /\ PromiseKept'

\* A step of a screen that is open, or that goes.
ScreenMoves ==
    /\ UNCHANGED mount /\ DOMAIN pdf' = Mounts
    /\ works' \subseteq Jobs /\ \A w \in works' : w \in works \/ ~Unborn(w.scan)
    /\ commits' \subseteq Commits /\ \A k \in commits' : k \in commits \/ At(k.mount, "ready")
    /\ cam' \subseteq cam
    /\ resume' \in {resume, None} \cup InProgress
    /\ edit' \in Captures \cup {None}
    /\ \/ open' = open /\ shown' = shown /\ (edit' \in {edit, None} \/ (open # None /\ At(open, "ready")))
       \/ open' = None /\ shown' = <<>> /\ edit' = None
LEMMA StepKeeps ==
    ASSUME ScannerInv, StoreMoves, ScreenMoves
    PROVE  ScannerInv'
<1>1. StoreFits /\ ScreenFits /\ UnbornUnknown /\ ShownStored BY DEF ScannerInv
<1>2. Growing' /\ PromiseKept' BY DEF StoreMoves
<1>3. StoreFits'
    <2>1. resume' \in Mounts \cup {None} BY <1>1 DEF StoreFits, ScreenMoves, InProgress
    <2>2. open' \in Mounts \cup {None} BY <1>1 DEF StoreFits, ScreenMoves
    <2> QED BY <1>1, <2>1, <2>2 DEF StoreFits, ScreenMoves, StoreMoves
<1>4. mount' = mount BY DEF ScreenMoves
<1>5. ScreenFits'
    <2>1. \A m \in Mounts : HasSession(m)' \/ At(m, "delete")' => mount'[m].scan # None
        BY <1>1, <1>4 DEF ScreenFits, HasSession, At
    <2>2. \A m \in cam' : m \in Mounts /\ At(m, "ready")' BY <1>1, <1>4 DEF ScreenFits, At, ScreenMoves
    <2>3. \A k \in commits' : At(k.mount, "ready")' BY <1>1, <1>4 DEF ScreenFits, At, ScreenMoves
    <2>4. edit' # None => open' # None /\ At(open, "ready")' BY <1>1, <1>4 DEF ScreenFits, At, ScreenMoves
    <2>5. open' = None => shown' = <<>> BY <1>1 DEF ScreenFits, ScreenMoves
    <2>6. open' # None /\ (Unborn(open)' \/ At(open, "count")') => shown' = <<>>
        BY <1>1, <1>4 DEF ScreenFits, Unborn, At, ScreenMoves
    <2> QED BY <2>1, <2>2, <2>3, <2>4, <2>5, <2>6 DEF ScreenFits
<1>6. UnbornUnknown'
    <2>1. ASSUME NEW s \in Mounts, Unborn(s) PROVE NotYetBorn(s)'
        <3>1. NotYetBorn(s) BY <1>1, <2>1 DEF UnbornUnknown
        <3>2. scan'[s] = Gone /\ promised'[s] = <<>> BY <2>1 DEF StoreMoves
        <3>3. resume' # s
            <4>1. s \notin InProgress BY <2>1, Born DEF InProgress
            <4>2. s # None BY ScannerAssumption
            <4> QED BY <3>1, <4>1, <4>2 DEF NotYetBorn, ScreenMoves
        <3>4. \A w \in works' : w.scan # s BY <2>1, <3>1 DEF NotYetBorn, ScreenMoves
        <3> QED BY <1>4, <3>1, <3>2, <3>3, <3>4 DEF NotYetBorn
    <2>2. \A s \in Mounts : Unborn(s)' => Unborn(s) BY <1>4 DEF Unborn
    <2> QED BY <2>1, <2>2 DEF UnbornUnknown
<1>7. ShownStored'
    <2> SUFFICES ASSUME open' # None, mount'[open'].step \in {"camera", "ready"}, scan'[mount'[open'].scan].status = "in_progress"
                 PROVE  shown' \in Seq(Captures) /\ IsWithin(shown, scan[mount[open].scan].pages)'
        BY DEF ShownStored
    <2>1. open' = open /\ shown' = shown BY DEF ScreenMoves
    <2>2. open \in Mounts /\ mount[open].scan \in Mounts
        <3>1. open \in Mounts /\ mount[open].scan \in Mounts \cup {None} BY <1>1, <2>1 DEF StoreFits, Openings
        <3>2. mount[open].scan # None BY <1>1, <1>4, <2>1, <3>1 DEF ScreenFits, HasSession
        <3> QED BY <3>1, <3>2
    <2>3. scan'[mount[open].scan] = scan[mount[open].scan] BY <1>4, <2>1, <2>2 DEF StoreMoves
    <2>4. shown \in Seq(Captures) /\ IsWithin(shown, scan[mount[open].scan].pages) BY <1>1, <1>4, <2>1, <2>3 DEF ShownStored
    <2> QED BY <1>4, <2>1, <2>3, <2>4 DEF IsWithin
<1> QED BY <1>2, <1>3, <1>5, <1>6, <1>7 DEF ScannerInv
LEMMA ScreenKeeps ==
    ASSUME ScannerInv, OnlyLoses, ScreenMoves, \A w \in works' : w \in works \/ w.kind # "done-put"
    PROVE  ScannerInv'
<1>1. Growing' /\ PromiseKept' BY StoreLoses
<1>2. \A s \in Mounts : scan'[s] = scan[s] \/ scan'[s].status # "in_progress" BY GoneFits DEF OnlyLoses
<1>3. \A s \in Mounts : Unborn(s) => scan'[s] = Gone /\ promised'[s] = <<>>
    BY DEF OnlyLoses, ScannerInv, UnbornUnknown, NotYetBorn
<1>4. StoreMoves BY <1>1, <1>2, <1>3 DEF StoreMoves, OnlyLoses
<1> QED BY <1>4, StepKeeps

\* A step of an opening on its way to its camera.
OpeningMoves(m, o) ==
    /\ mount' = [mount EXCEPT ![m] = o] /\ o \in Openings /\ ~At(m, "ready") /\ edit' = edit
    /\ DOMAIN pdf' = Mounts /\ works' = works /\ commits' = commits /\ resume' \in {resume, None}
    /\ cam' \subseteq cam \cup {m} /\ (o.step # "ready" => cam' = cam)
    /\ (o.step \in {"delete", "count", "camera", "ready"} => o.scan # None)
    /\ (o.scan # None => ~Unborn(o.scan))
    /\ (o.step \in {"unused", "find", "delete", "put"} => Unborn(m))
    /\ open' \in {open, m} /\ (open' = open => shown' = shown \/ open = m) /\ (open' # open => open = None /\ shown' = shown)
    /\ (open' = m /\ o.step \in {"unused", "find", "delete", "put", "count"} => shown' = <<>>)
LEMMA OpeningKeeps ==
    ASSUME ScannerInv, OnlyLoses, NEW m \in Mounts, NEW o, OpeningMoves(m, o),
           open' = m => ShownStored'
    PROVE  ScannerInv'
<1>1. StoreFits /\ ScreenFits /\ UnbornUnknown /\ ShownStored BY DEF ScannerInv
<1>2. Growing' /\ PromiseKept' BY StoreLoses DEF OpeningMoves
<1>3. mount \in [Mounts -> Openings] BY <1>1 DEF StoreFits
<1>4. mount' = [mount EXCEPT ![m] = o] BY DEF OpeningMoves
<1>5. mount'[m] = o /\ \A t \in Mounts : t # m => mount'[t] = mount[t] BY <1>3, <1>4
<1>6. StoreFits'
    <2>1. mount' \in [Mounts -> Openings] BY <1>3, <1>4 DEF OpeningMoves
    <2>2. resume' \in Mounts \cup {None} /\ open' \in Mounts \cup {None} BY <1>1 DEF StoreFits, OpeningMoves
    <2> QED BY <1>1, <2>1, <2>2 DEF StoreFits, OpeningMoves, OnlyLoses
<1>7. m # None BY ScannerAssumption
<1>8. ScreenFits'
    <2>1. ASSUME NEW t \in Mounts PROVE HasSession(t)' \/ At(t, "delete")' => mount'[t].scan # None
        <3>1. CASE t = m BY <1>5, <3>1 DEF HasSession, At, OpeningMoves
        <3>2. CASE t # m BY <1>1, <1>5, <3>2 DEF HasSession, At, ScreenFits
        <3> QED BY <3>1, <3>2
    <2>2. ASSUME NEW t \in cam' PROVE t \in Mounts /\ At(t, "ready")'
        <3>1. CASE t = m BY <1>1, <1>5, <3>1 DEF At, OpeningMoves, ScreenFits
        <3>2. CASE t # m BY <1>1, <1>5, <3>2 DEF At, OpeningMoves, ScreenFits
        <3> QED BY <3>1, <3>2
    <2>3. ASSUME NEW k \in commits' PROVE At(k.mount, "ready")'
        <3>1. k \in commits /\ k.mount \in Mounts BY <1>1 DEF OpeningMoves, StoreFits, Commits
        <3>2. At(k.mount, "ready") /\ k.mount # m BY <1>1, <3>1 DEF ScreenFits, OpeningMoves
        <3> QED BY <1>5, <3>1, <3>2 DEF At
    <2>4. ASSUME edit' # None PROVE open' # None /\ At(open, "ready")'
        <3>1. open # None /\ At(open, "ready") BY <1>1, <2>4 DEF ScreenFits, OpeningMoves
        <3>2. open \in Mounts /\ open # m /\ open' = open BY <1>1, <3>1 DEF StoreFits, OpeningMoves
        <3> QED BY <1>5, <3>1, <3>2 DEF At
    <2>5. ASSUME open' = None PROVE shown' = <<>>
        <3>1. open = None /\ open # m BY <1>7, <2>5 DEF OpeningMoves
        <3> QED BY <1>1, <2>5, <3>1 DEF ScreenFits, OpeningMoves
    <2>6. ASSUME open' # None, Unborn(open)' \/ At(open, "count")' PROVE shown' = <<>>
        <3>1. CASE open' = m BY <1>5, <2>6, <3>1 DEF Unborn, At, OpeningMoves
        <3>2. CASE open' # m
            <4>1. open' = open /\ shown' = shown /\ open \in Mounts BY <1>1, <2>6, <3>2 DEF OpeningMoves, StoreFits
            <4> QED BY <1>1, <1>5, <2>6, <3>2, <4>1 DEF ScreenFits, Unborn, At
        <3> QED BY <3>1, <3>2
    <2> QED BY <2>1, <2>2, <2>3, <2>4, <2>5, <2>6 DEF ScreenFits
<1>9. UnbornUnknown'
    <2>1. ASSUME NEW s \in Mounts, Unborn(s)' PROVE NotYetBorn(s)'
        <3>1. Unborn(s)
            <4>1. CASE s = m BY <1>5, <2>1, <4>1 DEF Unborn, OpeningMoves
            <4>2. CASE s # m BY <1>5, <2>1, <4>2 DEF Unborn
            <4> QED BY <4>1, <4>2
        <3>2. NotYetBorn(s) BY <1>1, <3>1 DEF UnbornUnknown
        <3>3. scan'[s] = Gone /\ promised'[s] = <<>> BY <3>2 DEF NotYetBorn, OnlyLoses
        <3>4. resume' # s /\ \A w \in works' : w.scan # s
            <4>1. s # None BY ScannerAssumption
            <4> QED BY <3>2, <4>1 DEF NotYetBorn, OpeningMoves
        <3>5. o.scan # s BY <3>1, ScannerAssumption DEF OpeningMoves
        <3>6. \A t \in Mounts : mount'[t].scan # s BY <1>5, <3>2, <3>5 DEF NotYetBorn
        <3> QED BY <3>3, <3>4, <3>6 DEF NotYetBorn
    <2> QED BY <2>1 DEF UnbornUnknown
<1>10. CASE open' # m
    <2> SUFFICES ASSUME open' # None, mount'[open'].step \in {"camera", "ready"}, scan'[mount'[open'].scan].status = "in_progress"
                 PROVE  shown' \in Seq(Captures) /\ IsWithin(shown, scan[mount[open].scan].pages)'
        BY <1>2, <1>6, <1>8, <1>9 DEF ShownStored, ScannerInv
    <2>1. open' = open /\ shown' = shown /\ open \in Mounts BY <1>1, <1>10 DEF OpeningMoves, StoreFits
    <2>2. mount'[open'] = mount[open] BY <1>5, <1>10, <2>1
    <2>3. mount[open].scan \in Mounts
        <3>1. mount[open].scan \in Mounts \cup {None} BY <1>3, <2>1 DEF Openings
        <3>2. mount[open].scan # None BY <1>1, <2>1, <2>2 DEF ScreenFits, HasSession
        <3> QED BY <3>1, <3>2
    <2>4. scan'[mount[open].scan] = scan[mount[open].scan] BY <2>2, <2>3, GoneFits DEF OnlyLoses
    <2>5. shown \in Seq(Captures) /\ IsWithin(shown, scan[mount[open].scan].pages) BY <1>1, <2>1, <2>2, <2>4 DEF ShownStored
    <2> QED BY <2>1, <2>2, <2>4, <2>5 DEF IsWithin
<1> QED BY <1>2, <1>6, <1>8, <1>9, <1>10 DEF ScannerInv

\* The oldest scan that is not finished is one of them.
LEMMA FoundIsInProgress == Found \in InProgress \cup {None} /\ (InProgress # {} => Found \in InProgress)
<1>1. InProgress \subseteq Nat BY ScannerAssumption DEF InProgress
<1>2. CASE InProgress # {}
    <2>1. \E s \in InProgress : \A t \in InProgress : s <= t BY <1>1, <1>2, LeastOf
    <2>2. Oldest(InProgress) \in InProgress BY <2>1 DEF Oldest
    <2> QED BY <1>2, <2>2 DEF Found
<1> QED BY <1>2 DEF Found

\* The works that a screen begins are of the scan of its session, or of the prompt.
LEMMA WorkFits ==
    ASSUME ScannerInv, NEW m \in Mounts, HasSession(m), NEW kind \in Works, NEW t \in Taps
    PROVE  Work(kind, m, t) \in Jobs /\ ~Unborn(mount[m].scan) /\ mount[m].scan \in Mounts
           /\ Work(kind, m, t).scan = mount[m].scan /\ Work(kind, m, t).kind = kind
<1>1. mount[m].scan \in Mounts \cup {None} BY DEF ScannerInv, StoreFits, Openings
<1>2. mount[m].scan # None BY DEF ScannerInv, ScreenFits
<1>3. mount[m].scan \in Mounts BY <1>1, <1>2
<1>4. ~Unborn(mount[m].scan) BY <1>3, Born
<1>5. 0 \in Nat OBVIOUS
<1> QED BY <1>3, <1>4, <1>5 DEF Work, Jobs

\* Signing in and out, looking for a scan, leaving, adjusting corners, and taking pages.
LEMMA ScreensKeep ==
    ASSUME ScannerInv, \/ SignIn \/ FindLands \/ SignedOut \/ Back \/ Shutter \/ EditCancelled
                       \/ \E m \in Mounts : CancelEarly(m)
    PROVE  ScannerInv'
<1>1. StoreFits /\ ScreenFits BY DEF ScannerInv
<1>2. UNCHANGED <<scan, promised, mount, works, commits, pdf>> /\ DOMAIN pdf' = Mounts
    BY <1>1 DEF SignIn, FindLands, SignedOut, Back, Shutter, EditCancelled, CancelEarly, StoreFits, app, screen
<1>3. resume' \in {resume, None} \cup InProgress
    BY FoundIsInProgress DEF SignIn, FindLands, SignedOut, Back, Shutter, EditCancelled, CancelEarly, app
<1>4. cam' \subseteq cam
    BY DEF SignIn, FindLands, SignedOut, Back, Shutter, EditCancelled, CancelEarly, Leaves, Stopped
<1>5. edit' \in Captures \cup {None}
    BY <1>1 DEF SignIn, FindLands, SignedOut, Back, Shutter, EditCancelled, CancelEarly, Leaves, screen, StoreFits
<1>6. \/ open' = open /\ shown' = shown /\ (edit' \in {edit, None} \/ (open # None /\ At(open, "ready")))
      \/ open' = None /\ shown' = <<>> /\ edit' = None
    <2>1. CASE Shutter
        <3>1. At(open, "ready") /\ open \in Mounts BY <1>1, <2>1 DEF Shutter, ScreenFits
        <3> QED BY <2>1, <3>1, ScannerAssumption DEF Shutter
    <2>2. CASE SignedOut \/ Back \/ \E m \in Mounts : CancelEarly(m) BY <2>2 DEF SignedOut, Back, CancelEarly, Leaves
    <2>3. CASE SignIn \/ FindLands \/ EditCancelled BY <2>3 DEF SignIn, FindLands, EditCancelled, screen
    <2> QED BY <2>1, <2>2, <2>3
<1>7. OnlyLoses BY <1>1, <1>2, Unchanged
<1>8. works' \subseteq Jobs /\ commits' \subseteq Commits BY <1>1, <1>2 DEF StoreFits
<1>9. ScreenMoves BY <1>2, <1>3, <1>4, <1>5, <1>6, <1>8 DEF ScreenMoves
<1> QED BY <1>2, <1>7, <1>9, ScreenKeeps
LEMMA TapsKeep ==
    ASSUME ScannerInv, NEW t \in Taps, Discard(t) \/ Apply(t) \/ \E m \in Mounts : Cancel(m, t) \/ AutoCapture(m)
    PROVE  ScannerInv'
<1>1. StoreFits /\ ScreenFits BY DEF ScannerInv
<1>2. UNCHANGED <<scan, promised, mount, pdf, resume, screen>> /\ DOMAIN pdf' = Mounts
    BY <1>1 DEF Discard, Apply, Cancel, AutoCapture, StoreFits, app, screen
<1>3. cam' \subseteq cam BY DEF Discard, Apply, Cancel, AutoCapture, Stopped
<1>4. works' \subseteq Jobs /\ \A w \in works' : w \in works \/ (w.kind # "done-put" /\ ~Unborn(w.scan))
    <2>1. CASE Discard(t)
        <3>1. PICK w : w = [kind |-> "discard", mount |-> None, scan |-> resume, tap |-> t, count |-> 0] OBVIOUS
        <3>2. works' = works \cup {w} BY <2>1, <3>1 DEF Discard
        <3>3. resume \in Mounts /\ ~Unborn(resume) BY <1>1, <2>1, Born DEF Discard, StoreFits
        <3>4. 0 \in Nat OBVIOUS
        <3>5. w \in Jobs /\ w.kind = "discard" /\ w.scan = resume BY <3>1, <3>3, <3>4 DEF Jobs, Works
        <3> QED BY <1>1, <3>2, <3>3, <3>5 DEF StoreFits
    <2>2. ASSUME NEW m \in Mounts, Cancel(m, t)
          PROVE  works' \subseteq Jobs /\ \A w \in works' : w \in works \/ (w.kind # "done-put" /\ ~Unborn(w.scan))
        <3>1. HasSession(m) /\ works' = works \cup {Work("cancel", m, t)} BY <2>2 DEF Cancel
        <3>2. "cancel" \in Works BY DEF Works
        <3>3. PICK w : w = Work("cancel", m, t) OBVIOUS
        <3>4. w \in Jobs /\ ~Unborn(mount[m].scan) /\ w.scan = mount[m].scan /\ w.kind = "cancel"
            BY <3>1, <3>2, <3>3, WorkFits
        <3> QED BY <1>1, <3>1, <3>3, <3>4 DEF StoreFits
    <2>3. CASE Apply(t) \/ \E m \in Mounts : AutoCapture(m)
        <3>1. works' = works /\ works \subseteq Jobs BY <1>1, <2>3 DEF Apply, AutoCapture, StoreFits
        <3> QED BY <3>1
    <2> QED BY <2>1, <2>2, <2>3
<1>5. commits' \subseteq Commits /\ \A k \in commits' : k \in commits \/ At(k.mount, "ready")
    <2>1. ASSUME NEW m \in Mounts, NEW page \in Captures, NEW edited \in BOOLEAN, Commit(m, page, t, edited) \/ Commit(m, page, 1, edited), At(m, "ready")
          PROVE  commits' \subseteq Commits /\ \A k \in commits' : k \in commits \/ At(k.mount, "ready")
        <3>1. PICK tap, k : tap \in Taps /\ k = [mount |-> m, page |-> page, tap |-> tap, edited |-> edited] /\ commits' = commits \cup {k}
            BY <2>1 DEF Commit, Taps
        <3>2. k \in Commits /\ k.mount = m BY <3>1 DEF Commits
        <3> QED BY <1>1, <2>1, <3>1, <3>2 DEF StoreFits
    <2>2. CASE Apply(t)
        <3>1. open \in Mounts /\ At(open, "ready") /\ edit \in Captures BY <1>1, <2>2 DEF Apply, StoreFits, ScreenFits
        <3>2. Commit(open, edit, t, TRUE) BY <2>2 DEF Apply
        <3> QED BY <2>1, <3>1, <3>2
    <2>3. ASSUME NEW m \in Mounts, AutoCapture(m)
          PROVE  commits' \subseteq Commits /\ \A k \in commits' : k \in commits \/ At(k.mount, "ready")
        <3>1. At(m, "ready") /\ NextPage \in Captures /\ Commit(m, NextPage, 1, FALSE) BY <1>1, <2>3 DEF AutoCapture, ScreenFits
        <3> QED BY <2>1, <3>1
    <2>4. CASE Discard(t) \/ \E m \in Mounts : Cancel(m, t) BY <1>1, <2>4 DEF Discard, Cancel, StoreFits
    <2> QED BY <2>2, <2>3, <2>4
<1>6. open' = open /\ shown' = shown /\ edit' = edit /\ edit \in Captures \cup {None} BY <1>1, <1>2 DEF screen, StoreFits
<1>7. OnlyLoses BY <1>1, <1>2, Unchanged
<1>8. ScreenMoves BY <1>2, <1>3, <1>4, <1>5, <1>6 DEF ScreenMoves
<1> QED BY <1>4, <1>7, <1>8, ScreenKeeps

\* Works that end with the deletion of a scan, and what becomes of a finished one.
LEMMA DeletesKeep ==
    ASSUME ScannerInv, \/ \E w \in works : DiscardDeletes(w) \/ CancelDeletes(w)
                       \/ \E s \in Mounts : Uploaded(s)
    PROVE  ScannerInv'
<1>1. StoreFits BY DEF ScannerInv
<1>2. \A w \in works : w.scan \in Mounts BY <1>1 DEF StoreFits, Jobs
<1>3. OnlyLoses
    <2>1. ASSUME NEW s \in Mounts, Delete(s) \/ UNCHANGED <<scan, promised>> PROVE OnlyLoses
        BY <1>1, <2>1, Unchanged, Deletes
    <2>2. ASSUME NEW w \in works, DiscardDeletes(w) \/ CancelDeletes(w) PROVE OnlyLoses
        BY <1>2, <2>1, <2>2 DEF DiscardDeletes, CancelDeletes
    <2>3. ASSUME NEW s \in Mounts, Uploaded(s) PROVE OnlyLoses BY <2>1, <2>3 DEF Uploaded
    <2> QED BY <2>2, <2>3
<1>4. DOMAIN pdf' = Mounts /\ UNCHANGED <<mount, commits>> /\ works' \subseteq works
    BY <1>1 DEF DiscardDeletes, CancelDeletes, Uploaded, StoreFits
<1>5. resume' \in {resume, None} /\ cam' \subseteq cam
    BY DEF DiscardDeletes, CancelDeletes, Uploaded, Leaves, Stopped, app
<1>6. \/ open' = open /\ shown' = shown /\ edit' = edit
      \/ open' = None /\ shown' = <<>> /\ edit' = None
    BY DEF DiscardDeletes, CancelDeletes, Uploaded, Leaves, screen
<1>7. works' \subseteq Jobs /\ commits' \subseteq Commits /\ edit' \in Captures \cup {None} BY <1>1, <1>4, <1>6 DEF StoreFits
<1>8. ScreenMoves BY <1>4, <1>5, <1>6, <1>7 DEF ScreenMoves
<1> QED BY <1>3, <1>4, <1>8, ScreenKeeps
LEMMA SendsKeep ==
    ASSUME ScannerInv, NEW s \in Mounts, SendListed(s) \/ SendGets(s) \/ SendBuilds(s) \/ SendFails(s)
    PROVE  ScannerInv'
<1>1. StoreFits BY DEF ScannerInv
<1>2. UNCHANGED <<scan, promised, mount, commits, works, cam, resume, screen>> /\ DOMAIN pdf' = Mounts
    BY <1>1 DEF SendListed, SendGets, SendBuilds, SendFails, StoreFits, app
<1>3. ScreenMoves BY <1>1, <1>2 DEF ScreenMoves, StoreFits, screen
<1> QED BY <1>1, <1>2, <1>3, Unchanged, ScreenKeeps

\* An opening on its way to its camera, but for the scan that it creates.
LEMMA OpeningsKeep ==
    ASSUME ScannerInv, NEW m \in Mounts,
           \/ ScanTapped(m) \/ Resume(m) \/ CreateFinds(m) \/ CreateDeletes(m) \/ CreateFails(m)
           \/ ResumeCounts(m) \/ CameraStarts(m) \/ CameraFails(m)
    PROVE  ScannerInv'
<1>1. StoreFits /\ ScreenFits /\ ShownStored /\ Growing BY DEF ScannerInv
<1>2. mount \in [Mounts -> Openings] /\ mount[m].scan \in Mounts \cup {None} /\ mount[m].step \in Steps
    BY <1>1 DEF StoreFits, Openings
<1>3. mount[m].scan # None => ~Unborn(mount[m].scan) BY <1>2, Born
<1>4. m # None /\ (None \notin Mounts) BY ScannerAssumption
<1>5. DOMAIN pdf' = Mounts /\ UNCHANGED <<works, commits, edit, pdf>>
    BY <1>1 DEF ScanTapped, Resume, Mount, CreateFinds, CreateDeletes, CreateFails, ResumeCounts, CameraStarts, CameraFails,
                StoreFits, screen
<1>6. CASE ScanTapped(m) \/ Resume(m)
    <2>1. PICK step, s : step \in {"find", "count"} /\ Mount(m, step, s) /\ resume' \in {resume, None}
                         /\ (step = "find" => s = None) /\ (step = "count" => s = resume /\ resume # None)
        BY <1>6 DEF ScanTapped, Resume
    <2>2. PICK o : o = [step |-> step, scan |-> s] OBVIOUS
    <2>3. s \in Mounts \cup {None} /\ (s # None => ~Unborn(s)) BY <1>1, <2>1, Born DEF StoreFits
    <2>4. o \in Openings /\ o.step = step /\ o.scan = s BY <2>1, <2>2, <2>3 DEF Openings, Steps
    <2>5. UNCHANGED <<scan, promised, cam, shown>> /\ open = None /\ open' = m /\ At(m, "unused")
          /\ mount' = [mount EXCEPT ![m] = o]
        BY <2>1, <2>2 DEF Mount, Inbox, IsNext
    <2>6. shown = <<>> BY <1>1, <2>5 DEF ScreenFits
    <2>7. OpeningMoves(m, o)
        BY <1>5, <2>1, <2>3, <2>4, <2>5, <2>6 DEF OpeningMoves, At, Unborn
    <2>8. ShownStored'
        <3>1. mount'[m] = o BY <1>2, <2>5
        <3> QED BY <2>1, <2>4, <2>5, <3>1 DEF ShownStored
    <2>9. OnlyLoses BY <1>1, <2>5, Unchanged
    <2> QED BY <2>7, <2>8, <2>9, OpeningKeeps
<1>7. CASE CreateFinds(m)
    <2>1. PICK o : o = [step |-> IF InProgress = {} THEN "put" ELSE "delete", scan |-> Found] OBVIOUS
    <2>2. At(m, "find") /\ UNCHANGED <<scan, promised, cam, shown, open, resume>> BY <1>7 DEF CreateFinds, screen, app
    <2>3. mount' = [mount EXCEPT ![m] = o] BY <1>7, <2>1 DEF CreateFinds
    <2>4. Found \in Mounts \cup {None} /\ (Found # None => ~Unborn(Found)) /\ (InProgress # {} => Found # None)
        <3>1. \A s \in InProgress : s \in Mounts /\ ~Unborn(s) BY Born DEF InProgress
        <3> QED BY <1>4, <3>1, FoundIsInProgress
    <2>5. o \in Openings /\ o.step \in {"put", "delete"} /\ o.scan = Found /\ (o.step = "delete" => Found # None)
        BY <2>1, <2>4 DEF Openings, Steps
    <2>6. open = m => shown = <<>> BY <1>1, <1>4, <2>2 DEF ScreenFits, Unborn, At
    <2>7. OpeningMoves(m, o) BY <1>5, <2>2, <2>3, <2>4, <2>5, <2>6 DEF OpeningMoves, At, Unborn
    <2>8. open' = m => ShownStored'
        <3>1. mount'[m] = o BY <1>2, <2>3
        <3> QED BY <2>5, <3>1 DEF ShownStored
    <2>9. OnlyLoses BY <1>1, <2>2, Unchanged
    <2> QED BY <2>7, <2>8, <2>9, OpeningKeeps
<1>8. CASE CreateDeletes(m)
    <2>1. PICK o : o = [step |-> "put", scan |-> mount[m].scan] OBVIOUS
    <2>2. At(m, "delete") /\ Delete(mount[m].scan) /\ UNCHANGED <<cam, shown, open, resume>> BY <1>8 DEF CreateDeletes, screen, app
    <2>3. mount' = [mount EXCEPT ![m] = o]
        <3>1. mount' = [mount EXCEPT ![m].step = "put"] BY <1>8 DEF CreateDeletes, Go
        <3>2. [mount[m] EXCEPT !.step = "put"] = o BY <1>2, <2>1 DEF Openings
        <3> QED BY <1>2, <3>1, <3>2
    <2>4. o \in Openings /\ o.step = "put" /\ o.scan = mount[m].scan BY <1>2, <2>1 DEF Openings, Steps
    <2>5. mount[m].scan \in Mounts BY <1>1, <1>2, <2>2 DEF ScreenFits
    <2>6. open = m => shown = <<>> BY <1>1, <1>4, <2>2 DEF ScreenFits, Unborn, At
    <2>7. OpeningMoves(m, o) BY <1>3, <1>5, <2>2, <2>3, <2>4, <2>6 DEF OpeningMoves, At, Unborn
    <2>8. open' = m => ShownStored'
        <3>1. mount'[m] = o BY <1>2, <2>3
        <3> QED BY <2>4, <3>1 DEF ShownStored
    <2>9. OnlyLoses BY <1>1, <2>2, <2>5, Deletes
    <2> QED BY <2>7, <2>8, <2>9, OpeningKeeps
<1>9. CASE CreateFails(m)
    <2>1. PICK o : o = [step |-> "failed", scan |-> None] OBVIOUS
    <2>2. mount[m].step \in {"find", "delete", "put"} /\ UNCHANGED <<scan, promised, cam, shown, open, resume>>
        BY <1>9 DEF CreateFails, screen, app
    <2>3. mount' = [mount EXCEPT ![m] = o] BY <1>9, <2>1 DEF CreateFails
    <2>4. o \in Openings /\ o.step = "failed" /\ o.scan = None BY <2>1 DEF Openings, Steps
    <2>5. OpeningMoves(m, o) BY <1>5, <2>2, <2>3, <2>4 DEF OpeningMoves, At
    <2>6. open' = m => ShownStored'
        <3>1. mount'[m] = o BY <1>2, <2>3
        <3> QED BY <2>4, <3>1 DEF ShownStored
    <2>7. OnlyLoses BY <1>1, <2>2, Unchanged
    <2> QED BY <2>5, <2>6, <2>7, OpeningKeeps
<1>10. ASSUME NEW step \in {"failed", "camera", "ready"}, Go(m, step), mount[m].step \in {"count", "camera"}, resume' = resume,
              step = "ready" => cam' = cam \cup {m}, step # "ready" => cam' = cam, UNCHANGED <<scan, promised, open>>,
              \/ shown' = shown /\ (step = "ready" => At(m, "camera"))
              \/ step = "camera" /\ open = m /\ shown' = GetPages(mount[m].scan)
       PROVE  ScannerInv'
    <2>1. PICK o : o = [step |-> step, scan |-> mount[m].scan] OBVIOUS
    <2>2. mount' = [mount EXCEPT ![m] = o]
        <3>1. mount' = [mount EXCEPT ![m].step = step] BY <1>10 DEF Go
        <3>2. [mount[m] EXCEPT !.step = step] = o BY <1>2, <2>1 DEF Openings
        <3> QED BY <1>2, <3>1, <3>2
    <2>3. o \in Openings /\ o.step = step /\ o.scan = mount[m].scan BY <1>2, <2>1 DEF Openings, Steps
    <2>4. mount[m].scan # None /\ mount[m].scan \in Mounts BY <1>1, <1>2, <1>10 DEF ScreenFits, HasSession, At
    <2>5. OpeningMoves(m, o) BY <1>3, <1>5, <1>10, <2>2, <2>3, <2>4 DEF OpeningMoves, At
    <2>6. ASSUME open' = m PROVE ShownStored'
        <3>1. mount'[m] = o BY <1>2, <2>2
        <3> SUFFICES ASSUME step \in {"camera", "ready"}, scan[mount[m].scan].status = "in_progress"
                     PROVE  shown' \in Seq(Captures) /\ IsWithin(shown', scan[mount[m].scan].pages)
            BY <1>10, <2>3, <2>6, <3>1 DEF ShownStored
        <3>2. CASE shown' = GetPages(mount[m].scan) BY <1>1, <2>4, <3>2, ListedAll
        <3>3. CASE shown' = shown /\ At(m, "camera") /\ open = m
            BY <1>1, <1>4, <3>3 DEF ShownStored, At
        <3>4. CASE shown' = shown /\ At(m, "count") /\ open = m
            <4>1. shown' = <<>> BY <1>1, <1>4, <3>4 DEF ScreenFits
            <4> QED BY <4>1, NoneIsWithin
        <3> QED BY <1>10, <2>6, <3>2, <3>3, <3>4 DEF At
    <2>7. OnlyLoses BY <1>1, <1>10, Unchanged
    <2> QED BY <2>5, <2>6, <2>7, OpeningKeeps
<1>11. CASE ResumeCounts(m)
    <2>1. At(m, "count") /\ UNCHANGED <<cam, resume, scan, promised, open>> BY <1>11 DEF ResumeCounts, app
    <2>2. CASE open = m BY <1>10, <1>11, <2>1, <2>2 DEF ResumeCounts, At
    <2>3. CASE open # m BY <1>10, <1>11, <2>1, <2>3 DEF ResumeCounts, At
    <2> QED BY <2>2, <2>3
<1>12. CASE CameraStarts(m)
    <2>1. At(m, "camera") /\ Go(m, "ready") /\ cam' = cam \cup {m} /\ UNCHANGED <<resume, scan, promised, open, shown>>
        BY <1>12 DEF CameraStarts, app, screen
    <2> QED BY <1>10, <2>1 DEF At
<1>13. CASE CameraFails(m)
    <2>1. mount[m].step \in {"count", "camera"} /\ Go(m, "failed") /\ UNCHANGED <<cam, resume, scan, promised, open, shown>>
        BY <1>13 DEF CameraFails, app, screen
    <2> QED BY <1>10, <2>1
<1> QED BY <1>6, <1>7, <1>8, <1>9, <1>11, <1>12, <1>13

-----------------------------------------------------------------------------
(* A scan is created, gets its pages, and is finished.                     *)

LEMMA CreationKeeps ==
    ASSUME ScannerInv, NEW m \in Mounts, CreatePuts(m)
    PROVE  ScannerInv'
<1>1. StoreFits /\ ScreenFits /\ UnbornUnknown /\ Growing /\ ShownStored /\ PromiseKept BY DEF ScannerInv
<1>2. m # None /\ (None \notin Mounts) BY ScannerAssumption
<1>3. PICK r : r = [status |-> "in_progress", count |-> 0, pages |-> <<>>] OBVIOUS
<1>4. PICK o : o = [step |-> IF open = m THEN "camera" ELSE "failed", scan |-> m] OBVIOUS
<1>5. At(m, "put") /\ scan' = [scan EXCEPT ![m] = r] /\ mount' = [mount EXCEPT ![m] = o]
      /\ UNCHANGED <<cam, screen, commits, works, app, promised, pdf>>
    BY <1>3, <1>4 DEF CreatePuts
<1>6. NotYetBorn(m) BY <1>1, <1>5 DEF UnbornUnknown, Unborn, At
<1>7. r \in Scans /\ r.status = "in_progress" /\ r.count = 0 /\ r.pages = <<>> /\ DOMAIN r.pages = 0..(r.count - 1)
    <2>1. Gone.pages \in Books /\ DOMAIN Gone.pages = {} /\ Gone.pages = <<>> BY GoneFits DEF Scans
    <2>2. 0 \in Nat /\ 0..(0 - 1) = {} OBVIOUS
    <2> QED BY <1>3, <2>1, <2>2 DEF Scans
<1>8. o \in Openings /\ o.scan = m /\ o.step \in {"camera", "failed"} BY <1>4 DEF Openings, Steps
<1>9. scan'[m] = r /\ mount'[m] = o /\ \A t \in Mounts : t # m => scan'[t] = scan[t] /\ mount'[t] = mount[t]
    BY <1>1, <1>5 DEF StoreFits
<1>10. StoreFits' BY <1>1, <1>5, <1>7, <1>8 DEF StoreFits, screen, app
<1>11. ScreenFits'
    <2>1. ASSUME NEW t \in Mounts PROVE HasSession(t)' \/ At(t, "delete")' => mount'[t].scan # None
        BY <1>1, <1>2, <1>8, <1>9 DEF HasSession, At, ScreenFits
    <2>2. ASSUME NEW t \in cam' PROVE t \in Mounts /\ At(t, "ready")' BY <1>1, <1>5, <1>9 DEF At, ScreenFits
    <2>3. ASSUME NEW k \in commits' PROVE At(k.mount, "ready")'
        <3>1. k \in commits /\ k.mount \in Mounts BY <1>1, <1>5 DEF StoreFits, Commits
        <3> QED BY <1>1, <1>5, <1>9, <3>1 DEF At, ScreenFits
    <2>4. ASSUME edit' # None PROVE open' # None /\ At(open, "ready")'
        <3>1. open # None /\ At(open, "ready") /\ open \in Mounts BY <1>1, <1>5, <2>4 DEF ScreenFits, StoreFits, screen
        <3> QED BY <1>5, <1>9, <3>1 DEF At, screen
    <2>5. open' = None => shown' = <<>> BY <1>1, <1>5 DEF ScreenFits, screen
    <2>6. ASSUME open' # None, Unborn(open)' \/ At(open, "count")' PROVE shown' = <<>>
        <3>1. open' = open /\ shown' = shown /\ open \in Mounts BY <1>1, <1>5, <2>6 DEF StoreFits, screen
        <3>2. open # m BY <1>8, <1>9, <2>6, <3>1 DEF Unborn, At
        <3> QED BY <1>1, <1>9, <2>6, <3>1, <3>2 DEF ScreenFits, Unborn, At
    <2> QED BY <2>1, <2>2, <2>3, <2>4, <2>5, <2>6 DEF ScreenFits
<1>12. UnbornUnknown'
    <2>1. ASSUME NEW s \in Mounts, Unborn(s)' PROVE NotYetBorn(s)'
        <3>1. s # m BY <1>8, <1>9, <2>1 DEF Unborn
        <3>2. NotYetBorn(s) BY <1>1, <1>9, <2>1, <3>1 DEF UnbornUnknown, Unborn
        <3> QED BY <1>5, <1>8, <1>9, <3>1, <3>2 DEF NotYetBorn, app
    <2> QED BY <2>1 DEF UnbornUnknown
<1>13. Growing'
    <2>1. ASSUME NEW s \in Mounts, scan'[s].status = "in_progress" PROVE DOMAIN scan'[s].pages = 0..(scan'[s].count - 1)
        <3>1. CASE s = m BY <1>7, <1>9, <3>1
        <3>2. CASE s # m BY <1>1, <1>9, <2>1, <3>2 DEF Growing, InProgress
        <3> QED BY <3>1, <3>2
    <2> QED BY <2>1 DEF Growing, InProgress
<1>14. ShownStored'
    <2> SUFFICES ASSUME open' # None, mount'[open'].step \in {"camera", "ready"}, scan'[mount'[open'].scan].status = "in_progress"
                 PROVE  shown' \in Seq(Captures) /\ IsWithin(shown, scan[mount[open].scan].pages)'
        BY DEF ShownStored
    <2>1. open' = open /\ shown' = shown /\ open \in Mounts BY <1>1, <1>5 DEF screen, StoreFits
    <2>2. CASE open = m
        <3>1. shown = <<>> BY <1>1, <1>5, <1>2, <2>2 DEF ScreenFits, Unborn, At
        <3> QED BY <2>1, <3>1, NoneIsWithin
    <2>3. CASE open # m
        <3>1. mount'[open'] = mount[open] /\ mount[open].scan # m BY <1>6, <1>9, <2>1, <2>3 DEF NotYetBorn
        <3>2. mount[open].scan \in Mounts
            <4>1. mount[open].scan \in Mounts \cup {None} BY <1>1, <2>1 DEF StoreFits, Openings
            <4>2. mount[open].scan # None BY <1>1, <2>1, <3>1 DEF ScreenFits, HasSession
            <4> QED BY <4>1, <4>2
        <3>3. scan'[mount[open].scan] = scan[mount[open].scan] BY <1>9, <3>1, <3>2
        <3>4. shown \in Seq(Captures) /\ IsWithin(shown, scan[mount[open].scan].pages)
            BY <1>1, <2>1, <3>1, <3>3 DEF ShownStored
        <3> QED BY <2>1, <3>1, <3>3, <3>4 DEF IsWithin
    <2> QED BY <2>2, <2>3
<1>15. PromiseKept'
    <2>1. ASSUME NEW s \in Mounts, promised'[s] # <<>> PROVE \E c, n \in Nat : IsKept(s, c, n)'
        <3>1. s # m /\ promised'[s] = promised[s] BY <1>5, <1>6, <2>1 DEF NotYetBorn
        <3>2. PICK c, n \in Nat : IsKept(s, c, n) BY <1>1, <2>1, <3>1 DEF PromiseKept
        <3>3. IsKept(s, c, n)' BY <1>5, <1>9, <3>1, <3>2, KeptStays
        <3> QED BY <3>3
    <2> QED BY <2>1 DEF PromiseKept
<1> QED BY <1>10, <1>11, <1>12, <1>13, <1>14, <1>15 DEF ScannerInv

\* A page at the number that the row has counted to.
LEMMA AppendedFits ==
    ASSUME StoreFits, NEW s \in Mounts, NEW page \in Captures, NEW n \in Nat, NEW r, r = Appended(scan[s], n, page)
    PROVE  /\ r \in Scans /\ r.count = n + 1 /\ r.status = scan[s].status
           /\ DOMAIN r.pages = DOMAIN scan[s].pages \cup {n} /\ r.pages[n] = page
           /\ \A i \in DOMAIN scan[s].pages : i # n => r.pages[i] = scan[s].pages[i]
<1>1. scan[s] \in Scans /\ DOMAIN scan[s].pages \subseteq Nat /\ scan[s].pages \in [DOMAIN scan[s].pages -> Captures]
    BY ScanFields
<1>2. PICK f : f = [i \in DOMAIN scan[s].pages \cup {n} |-> IF i = n THEN page ELSE scan[s].pages[i]] OBVIOUS
<1>3. f \in [DOMAIN scan[s].pages \cup {n} -> Captures] BY <1>1, <1>2
<1>4. f \in Books BY <1>1, <1>3 DEF Books
<1>5. n + 1 \in Nat OBVIOUS
<1>6. r = [scan[s] EXCEPT !.count = n + 1, !.pages = f] BY <1>2 DEF Appended
<1>7. r \in Scans /\ r.count = n + 1 /\ r.status = scan[s].status /\ r.pages = f BY <1>1, <1>4, <1>5, <1>6 DEF Scans
<1> QED BY <1>1, <1>2, <1>7

\* One more page is stored above all that is shown.
LEMMA WithinGrows ==
    ASSUME NEW n \in Nat, NEW old \in [0..(n - 1) -> Captures], NEW new, DOMAIN new = 0..n,
           \A i \in 0..(n - 1) : new[i] = old[i], NEW some \in Seq(Captures), IsWithin(some, old)
    PROVE  IsWithin(some, new) /\ \A page \in Captures : new[n] = page => IsWithin(Append(some, page), new)
<1>1. PICK at \in [DOMAIN some -> 0..(n - 1)] : Ascends(at) /\ \A i \in DOMAIN some : some[i] = old[at[i]]
    BY DEF IsWithin
<1>2. \A i \in DOMAIN some : at[i] \in 0..n /\ at[i] < n /\ some[i] = new[at[i]] BY <1>1
<1>3. IsWithin(some, new)
    <2>1. at \in [DOMAIN some -> DOMAIN new] BY <1>1, <1>2
    <2> QED BY <1>1, <1>2, <2>1 DEF IsWithin
<1>4. ASSUME NEW page \in Captures, new[n] = page PROVE IsWithin(Append(some, page), new)
    <2>1. PICK l \in Nat : l = Len(some) OBVIOUS
    <2>2. DOMAIN some = 1..l BY <2>1
    <2>3. PICK more : more = Append(some, page) OBVIOUS
    <2>4. DOMAIN more = 1..(l + 1) /\ more[l + 1] = page /\ \A i \in 1..l : more[i] = some[i] BY <2>1, <2>3
    <2> DEFINE f == [i \in 1..(l + 1) |-> IF i = l + 1 THEN n ELSE at[i]]
    <2>5. f[l + 1] = n /\ \A i \in 1..l : f[i] = at[i] OBVIOUS
    <2>6. \A i \in 1..(l + 1) : i = l + 1 \/ i \in 1..l OBVIOUS
    <2>7. f \in [1..(l + 1) -> DOMAIN new] BY <1>2, <2>2, <2>5, <2>6
    <2> HIDE DEF f
    <2>8. ASSUME NEW i \in 1..(l + 1), NEW j \in 1..(l + 1), i < j PROVE f[i] < f[j]
        <3>1. i \in 1..l BY <2>8
        <3>2. CASE j = l + 1 BY <1>2, <2>2, <2>5, <3>1, <3>2
        <3>3. CASE j \in 1..l BY <1>1, <2>2, <2>5, <2>8, <3>1, <3>3 DEF Ascends
        <3> QED BY <2>6, <3>2, <3>3
    <2>9. DOMAIN f = 1..(l + 1) BY <2>7
    <2>10. Ascends(f) BY <2>8, <2>9 DEF Ascends
    <2>11. \A i \in 1..(l + 1) : more[i] = new[f[i]] BY <1>2, <1>4, <2>2, <2>4, <2>5, <2>6
    <2> QED BY <2>3, <2>4, <2>7, <2>10, <2>11 DEF IsWithin
<1> QED BY <1>3, <1>4

LEMMA CommitKeeps ==
    ASSUME ScannerInv, NEW k \in commits, CommitAppends(k)
    PROVE  ScannerInv'
<1>1. StoreFits /\ ScreenFits /\ UnbornUnknown /\ Growing /\ ShownStored /\ PromiseKept BY DEF ScannerInv
<1>2. k.mount \in Mounts /\ k.page \in Captures BY <1>1 DEF StoreFits, Commits
<1>3. None \notin Mounts BY ScannerAssumption
<1>4. PICK s : s = mount[k.mount].scan OBVIOUS
<1>5. At(k.mount, "ready") BY <1>1 DEF ScreenFits
<1>6. s \in Mounts
    <2>1. s \in Mounts \cup {None} BY <1>1, <1>2, <1>4 DEF StoreFits, Openings
    <2> QED BY <1>1, <1>2, <1>4, <1>5, <2>1 DEF ScreenFits, HasSession, At
<1>7. ~Unborn(s) BY <1>2, <1>4, <1>6, Born
<1>8. PICK n \in Nat : n = scan[s].count BY <1>1, <1>6, ScanFields
<1>9. PICK r : r = Appended(scan[s], n, k.page) OBVIOUS
<1>10. /\ scan' = [scan EXCEPT ![s] = r] /\ commits' = commits \ {k}
       /\ UNCHANGED <<mount, cam, open, works, resume, promised, pdf>>
       /\ shown' = IF open = k.mount THEN Append(shown, k.page) ELSE shown
       /\ edit' \in {edit, None}
    BY <1>4, <1>8, <1>9 DEF CommitAppends, CommitEnds, Ordinal, app
<1>11. /\ r \in Scans /\ r.count = n + 1 /\ r.status = scan[s].status
       /\ DOMAIN r.pages = DOMAIN scan[s].pages \cup {n} /\ r.pages[n] = k.page
       /\ \A i \in DOMAIN scan[s].pages : i # n => r.pages[i] = scan[s].pages[i]
    BY <1>1, <1>2, <1>6, <1>9, AppendedFits
<1>12. scan'[s] = r /\ \A t \in Mounts : t # s => scan'[t] = scan[t] BY <1>1, <1>6, <1>10 DEF StoreFits
<1>13. StoreFits' BY <1>1, <1>10, <1>11 DEF StoreFits
<1>14. ScreenFits'
    <2>1. \A m \in Mounts : HasSession(m)' \/ At(m, "delete")' => mount'[m].scan # None
        BY <1>1, <1>10 DEF ScreenFits, HasSession, At
    <2>2. \A m \in cam' : m \in Mounts /\ At(m, "ready")' BY <1>1, <1>10 DEF ScreenFits, At
    <2>3. \A c \in commits' : At(c.mount, "ready")' BY <1>1, <1>10 DEF ScreenFits, At
    <2>4. edit' # None => open' # None /\ At(open, "ready")' BY <1>1, <1>10 DEF ScreenFits, At
    <2>5. open' = None => shown' = <<>> BY <1>1, <1>2, <1>3, <1>10 DEF ScreenFits
    <2>6. open' # None /\ (Unborn(open)' \/ At(open, "count")') => shown' = <<>>
        BY <1>1, <1>5, <1>10 DEF ScreenFits, Unborn, At
    <2> QED BY <2>1, <2>2, <2>3, <2>4, <2>5, <2>6 DEF ScreenFits
<1>15. UnbornUnknown'
    <2>1. ASSUME NEW t \in Mounts, Unborn(t)' PROVE NotYetBorn(t)'
        <3>1. Unborn(t) /\ t # s BY <1>7, <1>10, <2>1 DEF Unborn
        <3>2. NotYetBorn(t) BY <1>1, <3>1 DEF UnbornUnknown
        <3> QED BY <1>10, <1>12, <3>1, <3>2 DEF NotYetBorn
    <2> QED BY <2>1 DEF UnbornUnknown
<1>16. scan[s].status = "in_progress" => DOMAIN scan[s].pages = 0..(n - 1) BY <1>1, <1>6, <1>8 DEF Growing, InProgress
<1>17. 0..(n - 1) \cup {n} = 0..n /\ (n + 1) - 1 = n OBVIOUS
<1>18. Growing'
    <2>1. ASSUME NEW t \in Mounts, scan'[t].status = "in_progress" PROVE DOMAIN scan'[t].pages = 0..(scan'[t].count - 1)
        <3>1. CASE t = s BY <1>11, <1>12, <1>16, <1>17, <2>1, <3>1
        <3>2. CASE t # s BY <1>1, <1>12, <2>1, <3>2 DEF Growing, InProgress
        <3> QED BY <3>1, <3>2
    <2> QED BY <2>1 DEF Growing, InProgress
<1>19. ShownStored'
    <2> SUFFICES ASSUME open' # None, mount'[open'].step \in {"camera", "ready"}, scan'[mount'[open'].scan].status = "in_progress"
                 PROVE  shown' \in Seq(Captures) /\ IsWithin(shown', scan'[mount'[open'].scan].pages)
        BY DEF ShownStored
    <2>1. open' = open /\ mount' = mount /\ open \in Mounts BY <1>1, <1>10 DEF StoreFits
    <2>2. mount[open].scan \in Mounts
        <3>1. mount[open].scan \in Mounts \cup {None} BY <1>1, <2>1 DEF StoreFits, Openings
        <3>2. mount[open].scan # None BY <1>1, <2>1 DEF ScreenFits, HasSession
        <3> QED BY <3>1, <3>2
    <2>3. CASE mount[open].scan # s
        <3>1. scan'[mount[open].scan] = scan[mount[open].scan] BY <1>12, <2>2, <2>3
        <3>2. shown \in Seq(Captures) /\ IsWithin(shown, scan[mount[open].scan].pages) BY <1>1, <2>1, <3>1 DEF ShownStored
        <3>3. shown' = shown BY <1>4, <1>10, <2>3
        <3> QED BY <2>1, <3>1, <3>2, <3>3
    <2>4. CASE mount[open].scan = s
        <3>1. scan[s].status = "in_progress" BY <1>11, <1>12, <2>1, <2>4
        <3>2. shown \in Seq(Captures) /\ IsWithin(shown, scan[s].pages) BY <1>1, <2>1, <2>4, <3>1 DEF ShownStored
        <3>3. scan[s].pages \in [0..(n - 1) -> Captures] BY <1>1, <1>6, <1>16, <3>1, ScanFields
        <3>4. DOMAIN r.pages = 0..n /\ r.pages[n] = k.page BY <1>11, <1>16, <1>17, <3>1
        <3>5. \A i \in 0..(n - 1) : r.pages[i] = scan[s].pages[i]
            <4>1. \A i \in 0..(n - 1) : i # n OBVIOUS
            <4> QED BY <1>11, <1>16, <3>1, <4>1
        <3>6. IsWithin(shown, r.pages) /\ IsWithin(Append(shown, k.page), r.pages)
            <4>1. PICK p : p = r.pages OBVIOUS
            <4>2. PICK o : o = scan[s].pages OBVIOUS
            <4> QED BY <1>2, <3>2, <3>3, <3>4, <3>5, <4>1, <4>2, WithinGrows
        <3>7. Append(shown, k.page) \in Seq(Captures) BY <1>2, <3>2
        <3> QED BY <1>10, <1>12, <2>1, <2>4, <3>2, <3>6, <3>7
    <2> QED BY <2>3, <2>4
<1>20. PromiseKept'
    <2>1. ASSUME NEW t \in Mounts, promised'[t] # <<>> PROVE \E c, l \in Nat : IsKept(t, c, l)'
        <3>1. PICK c, l \in Nat : IsKept(t, c, l) BY <1>1, <1>10, <2>1 DEF PromiseKept
        <3>2. CASE t # s
            <4>1. IsKept(t, c, l)' BY <1>10, <1>12, <3>1, <3>2, KeptStays
            <4> QED BY <4>1
        <3>3. CASE t = s
            <4>1. DOMAIN scan[s].pages = 0..(l - 1) /\ c <= n /\ n <= l BY <1>8, <3>1, <3>3 DEF IsKept
            <4>2. PICK x \in Nat : DOMAIN r.pages = 0..(x - 1) /\ n + 1 <= x /\ l <= x
                <5>1. CASE n = l
                    <6>1. l + 1 \in Nat /\ 0..(l - 1) \cup {l} = 0..((l + 1) - 1) /\ l <= l + 1 OBVIOUS
                    <6> QED BY <1>11, <4>1, <5>1, <6>1
                <5>2. CASE n < l
                    <6>1. 0..(l - 1) \cup {n} = 0..(l - 1) /\ n + 1 <= l BY <5>2
                    <6> QED BY <1>11, <4>1, <6>1
                <5> QED BY <4>1, <5>1, <5>2
            <4>3. c <= r.count /\ r.count <= x BY <1>11, <4>1, <4>2
            <4>4. ASSUME NEW w \in works', w.kind = "done-put", w.scan = s PROVE c <= w.count /\ w.count <= x
                <5>1. c <= w.count /\ w.count <= l BY <1>10, <3>1, <3>3, <4>4 DEF IsKept, Writes
                <5>2. w.count \in Nat BY <1>1, <1>10 DEF StoreFits, Jobs
                <5> QED BY <4>2, <5>1, <5>2
            <4>5. PICK at \in [DOMAIN promised[s] -> 0..(c - 1)] :
                      Ascends(at) /\ \A i \in DOMAIN promised[s] : promised[s][i] = scan[s].pages[at[i]]
                BY <3>1, <3>3 DEF IsKept, LiesBelow
            <4>6. \A i \in DOMAIN promised[s] : r.pages[at[i]] = scan[s].pages[at[i]]
                <5>1. \A i \in DOMAIN promised[s] : at[i] \in 0..(l - 1) /\ at[i] # n BY <4>1, <4>5
                <5> QED BY <1>11, <4>1, <5>1
            <4>7. LiesBelow(s, c)' BY <1>10, <1>12, <4>5, <4>6 DEF LiesBelow
            <4>8. \A w \in Writes(s)' : c <= w.count /\ w.count <= x BY <4>4 DEF Writes
            <4>9. IsKept(s, c, x)' BY <1>12, <4>2, <4>3, <4>7, <4>8 DEF IsKept
            <4> QED BY <3>3, <4>9
        <3> QED BY <3>2, <3>3
    <2> QED BY <2>1 DEF PromiseKept
<1> QED BY <1>13, <1>14, <1>15, <1>18, <1>19, <1>20 DEF ScannerInv

LEMMA CommitFailsKeeps ==
    ASSUME ScannerInv, NEW k \in commits, CommitFails(k)
    PROVE  ScannerInv'
<1>1. StoreFits BY DEF ScannerInv
<1>2. UNCHANGED <<scan, promised, mount, cam, open, shown, edit, works, resume, pdf>> /\ commits' \subseteq commits
    BY DEF CommitFails, CommitEnds, app
<1>3. ScreenMoves BY <1>1, <1>2 DEF ScreenMoves, StoreFits
<1> QED BY <1>1, <1>2, <1>3, Unchanged, ScreenKeeps

\* Done: what is shown of the scan is promised, once.
LEMMA DoneKeeps ==
    ASSUME ScannerInv, NEW m \in Mounts, NEW t \in Taps, Done(m, t)
    PROVE  ScannerInv'
<1>1. StoreFits /\ ScreenFits /\ Growing /\ ShownStored /\ PromiseKept /\ UnbornUnknown BY DEF ScannerInv
<1>2. open = m /\ HasSession(m) /\ shown # <<>> /\ m # None BY ScannerAssumption DEF Done, Shows
<1>3. "done-pages" \in Works BY DEF Works
<1>4. PICK v : v = Work("done-pages", m, t) OBVIOUS
<1>5. PICK s : s = mount[m].scan OBVIOUS
<1>6. v \in Jobs /\ v.kind = "done-pages" /\ v.scan = s /\ s \in Mounts /\ ~Unborn(s)
    BY <1>2, <1>3, <1>4, <1>5, WorkFits
<1>7. works' = works \cup {v} /\ cam' \subseteq cam /\ UNCHANGED <<scan, mount, screen, commits, app, pdf>>
    BY <1>4 DEF Done, Stopped
<1>8. promised' = IF IsFirst(s) THEN [promised EXCEPT ![s] = shown] ELSE promised BY <1>5 DEF Done
<1>9. ScreenMoves
    <2>1. works' \subseteq Jobs /\ \A w \in works' : w \in works \/ ~Unborn(w.scan) BY <1>1, <1>6, <1>7 DEF StoreFits
    <2> QED BY <1>1, <1>7, <2>1 DEF ScreenMoves, StoreFits, screen, app
<1>10. CASE ~IsFirst(s)
    <2>1. OnlyLoses BY <1>1, <1>7, <1>8, <1>10, Unchanged
    <2> QED BY <1>6, <1>7, <1>9, <2>1, ScreenKeeps
<1>11. CASE IsFirst(s)
    <2>1. scan[s].status = "in_progress" /\ \A w \in works : ~(w.scan = s /\ w.kind \in Finishing) BY <1>11 DEF IsFirst
    <2>2. mount[m].step \in {"camera", "ready"} BY <1>1, <1>2 DEF ScreenFits, HasSession, At
    <2>3. shown \in Seq(Captures) /\ IsWithin(shown, scan[s].pages) BY <1>1, <1>2, <1>5, <2>1, <2>2 DEF ShownStored
    <2>4. promised' \in [Mounts -> Seq(Captures)] /\ promised'[s] = shown
          /\ \A x \in Mounts : x # s => promised'[x] = promised[x]
        BY <1>1, <1>6, <1>8, <1>11, <2>3 DEF StoreFits
    <2>5. PICK n \in Nat : n = scan[s].count BY <1>1, <1>6, ScanFields
    <2>6. DOMAIN scan[s].pages = 0..(n - 1) BY <1>1, <1>6, <2>1, <2>5 DEF Growing, InProgress
    <2>7. IsKept(s, n, n)'
        <3>1. Writes(s)' = {} BY <1>6, <1>7, <2>1 DEF Writes, Finishing
        <3>2. PICK at \in [DOMAIN shown -> 0..(n - 1)] : Ascends(at) /\ \A i \in DOMAIN shown : shown[i] = scan[s].pages[at[i]]
            BY <2>3, <2>6 DEF IsWithin
        <3>3. LiesBelow(s, n)' BY <1>7, <2>4, <3>2 DEF LiesBelow
        <3>4. n <= n OBVIOUS
        <3> QED BY <1>7, <2>5, <2>6, <3>1, <3>3, <3>4 DEF IsKept
    <2>8. PromiseKept'
        <3>1. ASSUME NEW x \in Mounts, promised'[x] # <<>> PROVE \E c, l \in Nat : IsKept(x, c, l)'
            <4>1. CASE x = s BY <2>7, <4>1
            <4>2. CASE x # s
                <5>1. promised'[x] = promised[x] BY <2>4, <4>2
                <5>2. PICK c, l \in Nat : IsKept(x, c, l) BY <1>1, <3>1, <5>1 DEF PromiseKept
                <5>3. \A w \in works' : w \in works \/ w.kind # "done-put" BY <1>6, <1>7
                <5>4. IsKept(x, c, l)' BY <1>7, <5>1, <5>2, <5>3, KeptStays
                <5> QED BY <5>4
            <4> QED BY <4>1, <4>2
        <3> QED BY <3>1 DEF PromiseKept
    <2>9. Growing' BY <1>1, <1>7 DEF Growing, InProgress
    <2>10. \A x \in Mounts : Unborn(x) => scan'[x] = Gone /\ promised'[x] = <<>>
        BY <1>1, <1>6, <1>7, <2>4 DEF UnbornUnknown, NotYetBorn
    <2>11. StoreMoves BY <1>1, <1>7, <2>4, <2>8, <2>9, <2>10 DEF StoreMoves, StoreFits
    <2> QED BY <1>9, <2>11, StepKeeps
<1> QED BY <1>10, <1>11

\* finish(): the count it reads of the row is no less than what was promised, and
\* the row it writes back is no longer of a scan that grows by its count alone.
LEMMA FinishKeeps ==
    ASSUME ScannerInv, NEW w \in works, Finished(w)
    PROVE  ScannerInv'
<1>1. StoreFits /\ ScreenFits /\ Growing /\ PromiseKept /\ UnbornUnknown BY DEF ScannerInv
<1>2. w \in Jobs BY <1>1 DEF StoreFits
<1>3. PICK s : s = w.scan OBVIOUS
<1>4. s \in Mounts /\ w.count \in Nat /\ w.kind \in Works BY <1>2, <1>3 DEF Jobs
<1>5. ~Unborn(s) BY <1>3, <1>4, Born
<1>6. scan[s] \in Scans /\ scan[s].count \in Nat BY <1>1, <1>4, ScanFields
<1>7. ASSUME NEW v \in Jobs, works' \subseteq works \cup {v}, v.scan = s, UNCHANGED <<scan, mount, cam, screen, commits, app, promised, pdf>>
      PROVE  ScreenMoves
    <2>1. works' \subseteq Jobs /\ \A x \in works' : x \in works \/ ~Unborn(x.scan) BY <1>1, <1>5, <1>7 DEF StoreFits
    <2> QED BY <1>1, <1>7, <2>1 DEF ScreenMoves, StoreFits, screen, app
<1>8. CASE FinishReads(w)
    <2>1. PICK v : v = [w EXCEPT !.kind = "done-get"] OBVIOUS
    <2>2. v \in Jobs /\ v.scan = s /\ v.kind = "done-get" BY <1>2, <1>3, <2>1 DEF Jobs, Works
    <2>3. works' \subseteq works \cup {v} /\ UNCHANGED <<scan, mount, cam, screen, commits, app, promised, pdf>>
        BY <1>8, <2>1 DEF FinishReads
    <2>4. ScreenMoves BY <1>7, <2>2, <2>3
    <2>5. OnlyLoses BY <1>1, <2>3, Unchanged
    <2>6. \A x \in works' : x \in works \/ x.kind # "done-put" BY <2>2, <2>3
    <2> QED BY <2>4, <2>5, <2>6, ScreenKeeps
<1>9. CASE FinishFails(w)
    <2>1. works' \subseteq works \cup {w} /\ works' \subseteq works /\ UNCHANGED <<scan, mount, cam, screen, commits, app, promised, pdf>>
        BY <1>9 DEF FinishFails
    <2>2. ScreenMoves BY <1>2, <1>3, <1>7, <2>1
    <2> QED BY <1>1, <2>1, <2>2, Unchanged, ScreenKeeps
<1>10. CASE FinishGets(w)
    <2>1. PICK v : v = [w EXCEPT !.kind = "done-put", !.count = scan[w.scan].count] OBVIOUS
    <2>2. PICK n \in Nat : n = scan[s].count BY <1>6
    <2>3. v = [w EXCEPT !.kind = "done-put", !.count = n] BY <1>3, <2>1, <2>2
    <2>4. v \in Jobs /\ v.scan = s /\ v.kind = "done-put" /\ v.count = n BY <1>2, <1>3, <2>3 DEF Jobs, Works
    <2>5. works' \subseteq works \cup {v} /\ UNCHANGED <<scan, mount, cam, screen, commits, app, promised, pdf>>
        BY <1>10, <2>1 DEF FinishGets
    <2>6. ScreenMoves BY <1>7, <2>4, <2>5
    <2>7. PromiseKept'
        <3>1. ASSUME NEW x \in Mounts, promised'[x] # <<>> PROVE \E c, l \in Nat : IsKept(x, c, l)'
            <4>1. PICK c, l \in Nat : IsKept(x, c, l) BY <1>1, <2>5, <3>1 DEF PromiseKept
            <4>2. c <= scan[x].count /\ scan[x].count <= l BY <4>1 DEF IsKept
            <4>3. \A y \in works' : y \in works \/ y.scan # x \/ (c <= y.count /\ y.count <= l) BY <2>2, <2>4, <2>5, <4>2
            <4>4. IsKept(x, c, l)' BY <2>5, <4>1, <4>3, KeptStays
            <4> QED BY <4>4
        <3> QED BY <3>1 DEF PromiseKept
    <2>8. Growing' BY <1>1, <2>5 DEF Growing, InProgress
    <2>9. StoreMoves BY <1>1, <2>5, <2>7, <2>8 DEF StoreMoves, StoreFits, UnbornUnknown, NotYetBorn
    <2> QED BY <2>6, <2>9, StepKeeps
<1>11. CASE FinishPuts(w)
    <2>1. PICK r : r = [scan[s] EXCEPT !.status = "completed", !.count = w.count] OBVIOUS
    <2>2. r \in Scans /\ r.status = "completed" /\ r.count = w.count /\ r.pages = scan[s].pages
        BY <1>4, <1>6, <2>1 DEF Scans
    <2>3. scan' = [scan EXCEPT ![s] = r]
        <3>1. scan' = [scan EXCEPT ![s].status = "completed", ![s].count = w.count] BY <1>3, <1>11 DEF FinishPuts
        <3>2. scan \in [Mounts -> Scans] BY <1>1 DEF StoreFits
        <3> QED BY <1>4, <2>1, <3>1, <3>2 DEF Scans
    <2>4. scan' \in [Mounts -> Scans] /\ scan'[s] = r /\ \A x \in Mounts : x # s => scan'[x] = scan[x]
        BY <1>1, <1>4, <2>2, <2>3 DEF StoreFits
    <2>5. works' = works \ {w} /\ w.kind = "done-put" /\ UNCHANGED <<mount, commits, app, promised, pdf>>
          /\ open' = None /\ edit' = None /\ shown' = <<>> /\ cam' \subseteq cam
        BY <1>11 DEF FinishPuts, Leaves, Stopped
    <2>6. ScreenMoves BY <1>1, <2>5 DEF ScreenMoves, StoreFits, app
    <2>7. Growing' BY <1>1, <2>2, <2>4 DEF Growing, InProgress
    <2>8. PromiseKept'
        <3>1. ASSUME NEW x \in Mounts, promised'[x] # <<>> PROVE \E c, l \in Nat : IsKept(x, c, l)'
            <4>1. PICK c, l \in Nat : IsKept(x, c, l) BY <1>1, <2>5, <3>1 DEF PromiseKept
            <4>2. CASE x # s
                <5>1. IsKept(x, c, l)' BY <2>4, <2>5, <4>1, <4>2, KeptStays
                <5> QED BY <5>1
            <4>3. CASE x = s
                <5>1. c <= w.count /\ w.count <= l BY <1>3, <2>5, <4>1, <4>3 DEF IsKept, Writes
                <5>2. LiesBelow(s, c)' BY <2>2, <2>4, <2>5, <4>1, <4>3 DEF IsKept, LiesBelow
                <5>3. \A y \in Writes(s)' : c <= y.count /\ y.count <= l BY <2>5, <4>1, <4>3 DEF IsKept, Writes
                <5>4. IsKept(s, c, l)' BY <2>2, <2>4, <4>1, <4>3, <5>1, <5>2, <5>3 DEF IsKept
                <5> QED BY <4>3, <5>4
            <4> QED BY <4>2, <4>3
        <3> QED BY <3>1 DEF PromiseKept
    <2>9. \A x \in Mounts : scan'[x] = scan[x] \/ scan'[x].status # "in_progress" BY <2>2, <2>4
    <2>10. \A x \in Mounts : Unborn(x) => scan'[x] = Gone /\ promised'[x] = <<>>
        BY <1>1, <1>5, <2>4, <2>5 DEF UnbornUnknown, NotYetBorn
    <2>11. StoreMoves BY <1>1, <2>4, <2>5, <2>7, <2>8, <2>9, <2>10 DEF StoreMoves, StoreFits
    <2> QED BY <2>6, <2>11, StepKeeps
<1> QED BY <1>8, <1>9, <1>10, <1>11 DEF Finished

\* The page closes: nothing is open, and what was stored is there.
LEMMA CloseKeeps == ASSUME ScannerInv, PageCloses PROVE ScannerInv'
<1>1. StoreFits /\ ScreenFits /\ UnbornUnknown BY DEF ScannerInv
<1>2. /\ mount' = [m \in Mounts |-> [mount[m] EXCEPT !.step = IF @ = "unused" THEN @ ELSE "failed"]]
      /\ cam' = {} /\ open' = None /\ edit' = None /\ shown' = <<>> /\ commits' = {} /\ works' = {} /\ resume' = None
      /\ UNCHANGED <<scan, promised, pdf>>
    BY DEF PageCloses
<1>3. OnlyLoses BY <1>1, <1>2, Unchanged
<1>4. Growing' /\ PromiseKept' BY <1>2, <1>3, StoreLoses
<1>5. ASSUME NEW m \in Mounts
      PROVE  mount'[m] \in Openings /\ mount'[m].scan = mount[m].scan /\ mount'[m].step \in {"unused", "failed"}
             /\ (mount'[m].step = "unused" => mount[m].step = "unused")
    <2>1. mount[m] \in Openings BY <1>1 DEF StoreFits
    <2>2. PICK step : step = IF mount[m].step = "unused" THEN "unused" ELSE "failed" OBVIOUS
    <2>3. mount'[m] = [mount[m] EXCEPT !.step = step] BY <1>2, <2>2
    <2> QED BY <2>1, <2>2, <2>3 DEF Openings, Steps
<1>6. StoreFits'
    <2>1. mount' \in [Mounts -> Openings] BY <1>2, <1>5
    <2> QED BY <1>1, <1>2, <2>1 DEF StoreFits
<1>7. ScreenFits' BY <1>2, <1>5 DEF ScreenFits, HasSession, At
<1>8. UnbornUnknown'
    <2>1. ASSUME NEW s \in Mounts, Unborn(s)' PROVE NotYetBorn(s)'
        <3>1. Unborn(s) BY <1>5, <2>1 DEF Unborn
        <3>2. NotYetBorn(s) /\ s # None BY <1>1, <3>1, ScannerAssumption DEF UnbornUnknown
        <3> QED BY <1>2, <1>5, <3>2 DEF NotYetBorn
    <2> QED BY <2>1 DEF UnbornUnknown
<1>9. ShownStored' BY <1>2 DEF ShownStored
<1> QED BY <1>4, <1>6, <1>7, <1>8, <1>9 DEF ScannerInv

-----------------------------------------------------------------------------
(* The invariant holds.                                                    *)

LEMMA ScannerBegins == Init => ScannerInv
<1> SUFFICES ASSUME Init PROVE ScannerInv OBVIOUS
<1>1. None \notin Mounts /\ Gone \in Scans /\ Gone.status = "none" BY ScannerAssumption, GoneFits
<1>2. \A s \in Mounts : scan[s] = Gone /\ promised[s] = <<>> /\ mount[s] = [step |-> "unused", scan |-> None] BY DEF Init
<1>3. StoreFits
    <2>1. <<>> \in Seq(Captures) /\ [step |-> "unused", scan |-> None] \in Openings BY DEF Openings, Steps
    <2> QED BY <1>1, <2>1 DEF Init, StoreFits
<1>4. ScreenFits BY <1>2 DEF Init, ScreenFits, HasSession, At
<1>5. UnbornUnknown BY <1>1, <1>2 DEF Init, UnbornUnknown, NotYetBorn
<1>6. Growing /\ PromiseKept BY <1>1, <1>2 DEF Growing, InProgress, PromiseKept
<1>7. ShownStored BY DEF Init, ShownStored
<1> QED BY <1>3, <1>4, <1>5, <1>6, <1>7 DEF ScannerInv
LEMMA ScannerContinues == ScannerInv /\ [Next]_vars => ScannerInv'
<1> SUFFICES ASSUME ScannerInv, [Next]_vars PROVE ScannerInv' OBVIOUS
<1>1. CASE Screens
    BY <1>1, ScreensKeep, TapsKeep, CloseKeeps DEF Screens
<1>2. ASSUME NEW m \in Mounts, Opening(m) PROVE ScannerInv'
    <2>1. CASE ScanTapped(m) \/ Resume(m) \/ CameraStarts(m) \/ CameraFails(m) BY <2>1, OpeningsKeep
    <2>2. CASE AutoCapture(m)
        <3>1. 1 \in Taps BY DEF Taps
        <3> QED BY <2>2, <3>1, TapsKeep
    <2>3. CASE CancelEarly(m) BY <2>3, ScreensKeep
    <2>4. ASSUME NEW t \in Taps, Done(m, t) PROVE ScannerInv' BY <2>4, DoneKeeps
    <2>5. ASSUME NEW t \in Taps, Cancel(m, t) PROVE ScannerInv' BY <2>5, TapsKeep
    <2> QED BY <1>2, <2>1, <2>2, <2>3, <2>4, <2>5 DEF Opening
<1>3. CASE Requests
    <2>1. ASSUME NEW m \in Mounts, Creating(m) \/ Sending(m) PROVE ScannerInv'
        BY <2>1, OpeningsKeep, CreationKeeps, SendsKeep, DeletesKeep DEF Creating, Sending
    <2>2. ASSUME NEW w \in works, Finished(w) \/ Cancelled(w) PROVE ScannerInv'
        BY <2>2, FinishKeeps, DeletesKeep DEF Cancelled
    <2>3. ASSUME NEW k \in commits, CommitAppends(k) \/ CommitFails(k) PROVE ScannerInv'
        BY <2>3, CommitKeeps, CommitFailsKeeps
    <2> QED BY <1>3, <2>1, <2>2, <2>3 DEF Requests
<1>4. CASE UNCHANGED vars
    <2>1. StoreFits BY DEF ScannerInv
    <2>2. UNCHANGED <<scan, promised, mount, cam, open, shown, edit, works, commits, resume, pdf>> BY <1>4 DEF vars
    <2>3. ScreenMoves BY <2>1, <2>2 DEF ScreenMoves, StoreFits
    <2> QED BY <2>1, <2>2, <2>3, Unchanged, ScreenKeeps
<1> QED BY <1>1, <1>2, <1>3, <1>4 DEF Next

-----------------------------------------------------------------------------
(* What the invariant gives.                                               *)

\* A page is stored, or goes, in four kinds of steps.
LEMMA WritesOfScans ==
    ASSUME ScannerInv, Next, scan' # scan
    PROVE  \/ \E s \in Mounts : Delete(s)
           \/ \E m \in Mounts : CreatePuts(m)
           \/ \E w \in works : w.scan \in Mounts /\ FinishPuts(w)
           \/ \E k \in commits : CommitAppends(k)
<1>1. StoreFits /\ ScreenFits BY DEF ScannerInv
<1>2. \A w \in works : w.scan \in Mounts BY <1>1 DEF StoreFits, Jobs
<1>3. CASE Screens
    <2>1. ASSUME NEW t \in Taps, Discard(t) \/ Apply(t) PROVE scan' = scan BY <2>1 DEF Discard, Apply
    <2>2. ASSUME SignIn \/ SignedOut \/ FindLands \/ Back \/ Shutter \/ EditCancelled \/ PageCloses PROVE scan' = scan
        BY <2>2 DEF SignIn, SignedOut, FindLands, Back, Shutter, EditCancelled, PageCloses
    <2> QED BY <1>3, <2>1, <2>2 DEF Screens
<1>4. ASSUME NEW m \in Mounts, Opening(m) PROVE scan' = scan
    <2>1. ASSUME NEW t \in Taps, Done(m, t) \/ Cancel(m, t) PROVE scan' = scan BY <2>1 DEF Done, Cancel
    <2>2. ASSUME ScanTapped(m) \/ Resume(m) \/ CameraStarts(m) \/ CameraFails(m) \/ AutoCapture(m) \/ CancelEarly(m)
          PROVE  scan' = scan
        BY <2>2 DEF ScanTapped, Resume, Mount, CameraStarts, CameraFails, AutoCapture, CancelEarly
    <2> QED BY <1>4, <2>1, <2>2 DEF Opening
<1>5. ASSUME NEW m \in Mounts, Creating(m)
      PROVE  scan' = scan \/ CreatePuts(m) \/ \E s \in Mounts : Delete(s)
    <2>1. CASE CreateDeletes(m)
        <3>1. mount[m].scan \in Mounts \cup {None} BY <1>1 DEF StoreFits, Openings
        <3>2. mount[m].scan # None BY <1>1, <2>1 DEF ScreenFits, CreateDeletes
        <3> QED BY <2>1, <3>1, <3>2 DEF CreateDeletes
    <2>2. CASE CreateFinds(m) \/ CreateFails(m) \/ ResumeCounts(m)
        BY <2>2 DEF CreateFinds, CreateFails, ResumeCounts
    <2> QED BY <1>5, <2>1, <2>2 DEF Creating
<1>6. ASSUME NEW s \in Mounts, Sending(s) PROVE scan' = scan \/ Delete(s)
    BY <1>6 DEF Sending, SendListed, SendGets, SendBuilds, SendFails, Uploaded
<1>7. ASSUME NEW w \in works, Finished(w) PROVE scan' = scan \/ FinishPuts(w)
    BY <1>7 DEF Finished, FinishReads, FinishGets, FinishFails
<1>8. ASSUME NEW w \in works, Cancelled(w) PROVE scan' = scan \/ Delete(w.scan)
    BY <1>8 DEF Cancelled, DiscardDeletes, CancelDeletes
<1>9. ASSUME NEW k \in commits, CommitFails(k) PROVE scan' = scan BY <1>9 DEF CommitFails
<1>10. CASE Requests
    <2>1. ASSUME NEW m \in Mounts, Creating(m) \/ Sending(m)
          PROVE  (\E s \in Mounts : Delete(s)) \/ (\E n \in Mounts : CreatePuts(n))
        BY <1>5, <1>6, <2>1
    <2>2. ASSUME NEW w \in works, Finished(w) \/ Cancelled(w)
          PROVE  (\E s \in Mounts : Delete(s)) \/ (\E v \in works : v.scan \in Mounts /\ FinishPuts(v))
        BY <1>2, <1>7, <1>8, <2>2
    <2>3. ASSUME NEW k \in commits, CommitAppends(k) \/ CommitFails(k) PROVE \E l \in commits : CommitAppends(l)
        BY <1>9, <2>3
    <2> QED BY <1>10, <2>1, <2>2, <2>3 DEF Requests
<1> QED BY <1>3, <1>4, <1>10 DEF Next

\* The pages `old` are kept in `new`, and what comes is numbered above them.
OnlyAdds(old, new) ==
    /\ DOMAIN old \subseteq DOMAIN new /\ \A o \in DOMAIN old : new[o] = old[o]
    /\ \A o \in DOMAIN new \ DOMAIN old, p \in DOMAIN old : p < o
LEMMA UnfinishedOnlyGrows ==
    ASSUME ScannerInv, Next, scan' # scan, NEW s \in InProgress \cap InProgress'
    PROVE  OnlyAdds(scan[s].pages, scan'[s].pages)
<1>1. StoreFits /\ ScreenFits /\ Growing /\ UnbornUnknown BY DEF ScannerInv
<1>2. s \in Mounts /\ scan[s].status = "in_progress" /\ scan'[s].status = "in_progress" BY DEF InProgress
<1>3. ASSUME scan'[s] = scan[s] PROVE OnlyAdds(scan[s].pages, scan'[s].pages) BY <1>3 DEF OnlyAdds
<1>4. ASSUME NEW t \in Mounts, Delete(t) PROVE scan'[s] = scan[s]
    <2>1. scan' = [scan EXCEPT ![t] = Gone] BY <1>4 DEF Delete
    <2>2. s # t BY <1>1, <1>2, <2>1, GoneFits DEF StoreFits
    <2> QED BY <1>1, <1>2, <2>1, <2>2 DEF StoreFits
<1>5. ASSUME NEW m \in Mounts, CreatePuts(m) PROVE scan'[s] = scan[s]
    <2>1. PICK r : r = [status |-> "in_progress", count |-> 0, pages |-> <<>>] OBVIOUS
    <2>2. Unborn(m) /\ scan' = [scan EXCEPT ![m] = r] BY <1>5, <2>1 DEF CreatePuts, Unborn, At
    <2>3. ~Unborn(s) BY <1>2, Born
    <2> QED BY <1>1, <1>2, <2>2, <2>3 DEF StoreFits
<1>6. ASSUME NEW w \in works, w.scan \in Mounts, FinishPuts(w) PROVE scan'[s] = scan[s]
    <2>1. PICK t \in Mounts : t = w.scan BY <1>6
    <2>2. PICK r : r = [scan[t] EXCEPT !.status = "completed", !.count = w.count] OBVIOUS
    <2>3. scan[t] \in Scans BY <1>1, <2>1 DEF StoreFits
    <2>4. r.status = "completed" BY <2>2, <2>3 DEF Scans
    <2>5. scan' = [scan EXCEPT ![t] = r]
        <3>1. scan' = [scan EXCEPT ![t].status = "completed", ![t].count = w.count] BY <1>6, <2>1 DEF FinishPuts
        <3>2. scan \in [Mounts -> Scans] BY <1>1 DEF StoreFits
        <3> QED BY <2>1, <2>2, <3>1, <3>2 DEF Scans
    <2> QED BY <1>1, <1>2, <2>1, <2>4, <2>5 DEF StoreFits
<1>7. ASSUME NEW k \in commits, CommitAppends(k) PROVE OnlyAdds(scan[s].pages, scan'[s].pages)
    <2>1. PICK t : t = mount[k.mount].scan OBVIOUS
    <2>2. t \in Mounts
        <3>1. k.mount \in Mounts /\ At(k.mount, "ready") BY <1>1 DEF StoreFits, Commits, ScreenFits
        <3>2. t \in Mounts \cup {None} BY <1>1, <2>1, <3>1 DEF StoreFits, Openings
        <3> QED BY <1>1, <2>1, <3>1, <3>2 DEF ScreenFits, HasSession, At
    <2>3. k.page \in Captures BY <1>1 DEF StoreFits, Commits
    <2>4. PICK n \in Nat : n = scan[t].count BY <1>1, <2>2, ScanFields
    <2>5. PICK r : r = Appended(scan[t], n, k.page) OBVIOUS
    <2>6. scan' = [scan EXCEPT ![t] = r] BY <1>7, <2>1, <2>4, <2>5 DEF CommitAppends, Ordinal
    <2>7. CASE t # s
        <3>1. scan'[s] = scan[s] BY <1>2, <2>2, <2>6, <2>7, <1>1 DEF StoreFits
        <3> QED BY <1>3, <3>1
    <2>8. CASE t = s
        <3>1. scan'[s] = r BY <1>1, <1>2, <2>6, <2>8 DEF StoreFits
        <3>2. /\ DOMAIN r.pages = DOMAIN scan[s].pages \cup {n}
              /\ \A i \in DOMAIN scan[s].pages : i # n => r.pages[i] = scan[s].pages[i]
            BY <1>1, <2>2, <2>3, <2>5, <2>8, AppendedFits
        <3>3. DOMAIN scan[s].pages = 0..(n - 1) BY <1>1, <2>4, <2>8 DEF Growing
        <3>4. \A p \in 0..(n - 1) : p < n /\ p # n OBVIOUS
        <3>5. OnlyAdds(scan[s].pages, r.pages) BY <3>2, <3>3, <3>4 DEF OnlyAdds
        <3> QED BY <3>1, <3>5
    <2> QED BY <2>7, <2>8
<1> QED BY <1>3, <1>4, <1>5, <1>6, <1>7, WritesOfScans

\* A PDF is built of the pages that are there.
LEMMA PdfIsOfPages ==
    ASSUME ScannerInv, Next, NEW s \in Mounts, pdf'[s] \notin {pdf[s], None}
    PROVE  IsWithin(promised[s], pdf'[s])
<1>1. StoreFits /\ PromiseKept /\ DOMAIN pdf = Mounts BY DEF ScannerInv, StoreFits
<1>2. CASE Screens
    <2>1. ASSUME NEW t \in Taps, Discard(t) \/ Apply(t) PROVE pdf' = pdf BY <2>1 DEF Discard, Apply
    <2>2. ASSUME SignIn \/ SignedOut \/ FindLands \/ Back \/ Shutter \/ EditCancelled \/ PageCloses PROVE pdf' = pdf
        BY <2>2 DEF SignIn, SignedOut, FindLands, Back, Shutter, EditCancelled, PageCloses
    <2> QED BY <1>2, <2>1, <2>2 DEF Screens
<1>3. ASSUME NEW m \in Mounts, Opening(m) PROVE pdf' = pdf
    <2>1. ASSUME NEW t \in Taps, Done(m, t) \/ Cancel(m, t) PROVE pdf' = pdf BY <2>1 DEF Done, Cancel
    <2>2. ASSUME ScanTapped(m) \/ Resume(m) \/ CameraStarts(m) \/ CameraFails(m) \/ AutoCapture(m) \/ CancelEarly(m)
          PROVE  pdf' = pdf
        BY <2>2 DEF ScanTapped, Resume, Mount, CameraStarts, CameraFails, AutoCapture, CancelEarly
    <2> QED BY <1>3, <2>1, <2>2 DEF Opening
<1>4. ASSUME NEW m \in Mounts, Creating(m) PROVE pdf' = pdf
    BY <1>4 DEF Creating, CreateFinds, CreateDeletes, CreatePuts, CreateFails, ResumeCounts
<1>5. ASSUME NEW w \in works, Finished(w) \/ Cancelled(w) PROVE pdf' = pdf
    BY <1>5 DEF Finished, FinishReads, FinishGets, FinishPuts, FinishFails, Cancelled, DiscardDeletes, CancelDeletes
<1>6. ASSUME NEW k \in commits, CommitAppends(k) \/ CommitFails(k) PROVE pdf' = pdf
    BY <1>6 DEF CommitAppends, CommitFails, CommitEnds
<1>7. ASSUME NEW m \in Mounts, Sending(m) PROVE IsWithin(promised[s], pdf'[s])
    <2>1. CASE SendBuilds(m)
        <3>1. pdf' = [pdf EXCEPT ![m] = GetPages(m)] BY <2>1 DEF SendBuilds, Built
        <3>2. m = s BY <1>1, <3>1
        <3>3. pdf'[s] = GetPages(s) BY <1>1, <3>1, <3>2
        <3>4. IsWithin(promised[s], GetPages(s)) BY <1>1, KeptIsListed
        <3> QED BY <3>3, <3>4
    <2>2. CASE Uploaded(m)
        <3>1. pdf' = [pdf EXCEPT ![m] = None] BY <2>2 DEF Uploaded
        <3> QED BY <1>1, <3>1
    <2>3. CASE SendListed(m) \/ SendGets(m) \/ SendFails(m)
        <3>1. pdf' = pdf BY <2>3 DEF SendListed, SendGets, SendFails
        <3> QED BY <3>1
    <2> QED BY <1>7, <2>1, <2>2, <2>3 DEF Sending
<1> QED BY <1>2, <1>3, <1>4, <1>5, <1>6, <1>7 DEF Next, Requests

\* While a scan is not finished its pages only grow at the end, for any number of
\* openings that hold it, captures that outlive their screens, and taps
\* (appendPage(), scans-store.ts:90).
THEOREM NoPageIsOverwritten == Spec => PagesOnlyAdded
<1>1. ScannerInv /\ Next => (scan' # scan => \A s \in InProgress \cap InProgress' :
          LET old == scan[s].pages  new == scan'[s].pages
          IN  /\ DOMAIN old \subseteq DOMAIN new /\ \A o \in DOMAIN old : new[o] = old[o]
              /\ \A o \in DOMAIN new \ DOMAIN old, p \in DOMAIN old : p < o)
    BY UnfinishedOnlyGrows DEF OnlyAdds
<1> QED BY <1>1, ScannerBegins, ScannerContinues, PTL DEF Spec, PagesOnlyAdded

\* Every page that was shown when Done was first tapped is in the PDF that is built,
\* in the order it was shown, although finish() writes a count back that captures
\* may have passed (ScannerScreen.tsx:110, scans.ts:20).
THEOREM ShownWasSent == Spec => ShownIsSent
<1>1. ScannerInv /\ Next => (pdf' # pdf => \A s \in Mounts : pdf'[s] \notin {pdf[s], None} => IsWithin(promised[s], pdf'[s]))
    BY PdfIsOfPages
<1> QED BY <1>1, ScannerBegins, ScannerContinues, PTL DEF Spec, ShownIsSent

=============================================================================
