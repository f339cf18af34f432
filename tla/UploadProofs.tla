----------------------------- MODULE UploadProofs -----------------------------
(***************************************************************************)
(* The upload queue of UploadQueue, for any files, scans and bounds: what  *)
(* is queued is not lost, what is removed stays away, and a scan's copy    *)
(* goes with its upload.                                                   *)
(***************************************************************************)
EXTENDS UploadQueue, WellFoundedInduction, TLAPS

-----------------------------------------------------------------------------
(* The inductive invariant.                                                *)

Places   == 1..Len(writes)
Erases(w) == w.item = None
\* Something of an item is known in memory, in the store or on its way there.
Same(x, y) == x # None /\ y # None => x.file = y.file

\* The bytes of an item never change, nothing is known of an id not given out,
\* and what is in memory is in the store too.
ItemsStored ==
    \A i \in Ids :
        /\ items[i] # None => stored[i] # None
        /\ Same(items[i], stored[i])
        /\ i >= nextId => stored[i] = None
WritesFit ==
    \A k \in Places :
        LET w == writes[k]
        IN  /\ w.id < nextId
            /\ Erases(w) <=> w.by \in {"forget", "remove"}
            /\ Same(w.item, stored[w.id])
            /\ w.by = "remove" => items[w.id] = None
            /\ w.by = "forget" => active # None /\ active.id = w.id /\ active.at = "forgetting"
            /\ w.by = "save" => active # None /\ active.id = w.id /\ active.at = "saving"
            /\ w.by = "add" => items[w.id] = None /\ stored[w.id] = None /\ w.id \notin gone
\* Of one item: all writes keep its bytes, an add has no other write beside it, and
\* nothing is written after what erases it. upload() waits for one write.
WritesOfOneItem ==
    \A k, l \in Places : k < l =>
        /\ writes[k].id = writes[l].id =>
               /\ Same(writes[k].item, writes[l].item)
               /\ writes[k].by # "add" /\ writes[l].by # "add" /\ ~Erases(writes[k])
        /\ writes[k].by \in {"save", "forget"} => writes[l].by \notin {"save", "forget"}
\* The item in upload() is in the queue, and the server has it once it answered so.
ActiveKnown ==
    active # None =>
        /\ items[active.id] # None /\ items[active.id].file = active.item.file
        /\ active.at \in {"taken", "deleting", "forgetting"} => doc[active.item.file] # "none"
Unloaded ==
    loading # "done" => writes = <<>> /\ active = None /\ gone = {} /\ \A i \in Ids : items[i] = None
SessionGoesOn == running => session # 0

\* A file is stored, and no write on its way erases it.
Keeps(i, f) ==
    /\ stored[i] # None /\ stored[i].file = f
    /\ \A k \in Places : writes[k].id = i => ~Erases(writes[k])
KeptFor(f) == \E i \in Ids : Keeps(i, f)
OwedKept == \A f \in owed : doc[f] # "none" \/ KeptFor(f)
ScansKept == \A s \in device : doc[s] # "none" => KeptFor(s) \/ s \in excused
GoneErased ==
    \A i \in gone :
        /\ i < nextId /\ items[i] = None
        /\ \/ faults > 0
           \/ \E k \in Places : writes[k].id = i /\ Erases(writes[k])
           \/ stored[i] = None /\ \A k \in Places : writes[k].id # i

Queueing == ItemsStored /\ WritesFit /\ WritesOfOneItem /\ ActiveKnown /\ Unloaded
Promised == OwedKept /\ ScansKept /\ GoneErased
UploadsInv ==
    /\ TypeOK /\ Queueing /\ SessionGoesOn /\ Promised
    /\ ScanKept /\ PausedOnlySignedOut

-----------------------------------------------------------------------------
(* Facts about the operators of the model.                                 *)

\* Some natural numbers have a least one, and up to a bound a greatest one.
LEMMA LeastOf ==
    ASSUME NEW T, T \subseteq Nat, T # {}
    PROVE  \E m \in T : \A k \in T : m <= k
<1> DEFINE R == OpToRel(<, Nat)
<1>1. IsWellFoundedOn(R, Nat) BY NatLessThanWellFounded
<1>2. \A x, y \in Nat : x < y => <<x, y>> \in R BY DEF OpToRel
<1> HIDE DEF R
<1>3. PICK m \in T : \A k \in T : ~(<<k, m>> \in R) BY <1>1, WFMin
<1>4. \A k \in T : ~(k < m) BY <1>2, <1>3
<1> QED BY <1>4
LEMMA GreatestOf ==
    ASSUME NEW n \in Nat, NEW T, T \subseteq 0..n, T # {}
    PROVE  \E m \in T : \A k \in T : k <= m
<1> DEFINE U == {n - k : k \in T}
<1>1. U \subseteq Nat /\ U # {}
  <2>1. \A k \in T : k \in Nat /\ k <= n OBVIOUS
  <2>2. \A k \in T : n - k \in Nat BY <2>1
  <2> QED BY <2>2
<1> HIDE DEF U
<1>2. PICK u \in U : \A v \in U : u <= v BY <1>1, LeastOf
<1> USE DEF U
<1>3. PICK m \in T : u = n - m OBVIOUS
<1>4. ASSUME NEW k \in T PROVE k <= m
  <2>1. n - k \in U OBVIOUS
  <2>2. u <= n - k BY <1>2, <2>1
  <2> QED BY <1>3, <2>2
<1> QED BY <1>4

\* An item, and an upload, are made of what their types say, and are not None.
LEMMA ItemFields ==
    ASSUME NEW x \in Items
    PROVE  x # None /\ x.file \in Files /\ x.state \in {"queued", "failed"} /\ x.due \in BOOLEAN
BY NoneAssumption DEF Items
LEMMA ItemChanged ==
    ASSUME NEW x \in Items, NEW s \in {"queued", "failed"}, NEW b \in BOOLEAN
    PROVE  /\ [x EXCEPT !.state = s] \in Items /\ [x EXCEPT !.state = s].file = x.file
           /\ [x EXCEPT !.due = b] \in Items /\ [x EXCEPT !.due = b].file = x.file
           /\ [x EXCEPT !.state = s, !.due = b] \in Items /\ [x EXCEPT !.state = s, !.due = b].file = x.file
BY DEF Items
LEMMA UploadFields ==
    ASSUME NEW u \in Uploads
    PROVE  /\ u # None /\ u.id \in Ids /\ u.item \in Items /\ u.session \in 1..MaxSessions
           /\ u.at \in {"sending", "taken", "saving", "deleting", "forgetting"}
BY NoneAssumption DEF Uploads
LEMMA UploadMoves ==
    ASSUME NEW u \in Uploads, NEW at \in {"sending", "taken", "saving", "deleting", "forgetting"}
    PROVE  /\ [u EXCEPT !.at = at] \in Uploads /\ [u EXCEPT !.at = at].id = u.id
           /\ [u EXCEPT !.at = at].item = u.item /\ [u EXCEPT !.at = at].at = at
BY DEF Uploads
LEMMA WriteFields ==
    ASSUME NEW w \in Writes
    PROVE  w.id \in Ids /\ w.item \in Items \cup {None} /\ w.by \in {"add", "retry", "save", "forget", "remove"}
BY DEF Writes

\* The writes on their way, with one more behind them, or without the first.
LEMMA Appended ==
    ASSUME NEW S, NEW s \in Seq(S), NEW w \in S
    PROVE  /\ Append(s, w) \in Seq(S) /\ Len(s) \in Nat /\ Len(Append(s, w)) = Len(s) + 1
           /\ \A k \in 1..Len(s) : Append(s, w)[k] = s[k]
           /\ Append(s, w)[Len(s) + 1] = w
OBVIOUS
LEMMA Headless ==
    ASSUME NEW S, NEW s \in Seq(S), s # <<>>
    PROVE  /\ Tail(s) \in Seq(S) /\ Len(s) \in Nat /\ Len(s) >= 1 /\ Len(Tail(s)) = Len(s) - 1
           /\ \A k \in 1..(Len(s) - 1) : Tail(s)[k] = s[k + 1]
           /\ Head(s) = s[1] /\ Head(s) \in S
OBVIOUS

LEMMA TypeFacts ==
    ASSUME TypeOK
    PROVE  /\ \A k \in Places : writes[k] \in Writes
           /\ \A i \in Ids : items[i] \in Items \cup {None} /\ stored[i] \in Items \cup {None}
           /\ nextId \in Nat /\ faults \in Nat /\ Len(writes) \in Nat
<1>1. MaxItems \in Nat /\ MaxFaults \in Nat BY BoundAssumption
<1>2. nextId \in Nat /\ faults \in Nat BY <1>1 DEF TypeOK
<1> QED BY <1>2 DEF TypeOK, Places

\* kick() goes on with the upload under way, or begins one of an item that is due.
LEMMA KickFacts ==
    ASSUME NEW act \in Uploads \cup {None}, Kick(act), items' \in [Ids -> Items \cup {None}],
           timer \in BOOLEAN, online' \in BOOLEAN, session' \in 0..MaxSessions, running' => session' # 0
    PROVE  /\ active' \in Uploads \cup {None} /\ timer' \in BOOLEAN
           /\ \/ active' = act
              \/ /\ act = None /\ active' # None /\ active'.at = "sending"
                 /\ active'.id \in Ids /\ items'[active'.id] # None /\ active'.item = items'[active'.id]
<1>1. CASE ~running' \/ paused' \/ act # None BY <1>1 DEF Kick
<1>2. CASE ~(~running' \/ paused' \/ act # None)
    <2>1. CASE online' /\ Due(items') # {}
        <3> DEFINE i == Oldest(Due(items'))
        <3>1. Due(items') \in SUBSET Nat /\ Due(items') \subseteq Ids BY BoundAssumption DEF Due, Queued, Ids
        <3>2. \E n \in Due(items') : \A m \in Due(items') : n <= m BY <2>1, <3>1, LeastOf
        <3>3. i \in Due(items') BY <3>2 DEF Oldest
        <3>4. i \in Ids /\ items'[i] # None /\ items'[i] \in Items BY <3>3 DEF Due, Queued
        <3>5. session' \in 1..MaxSessions BY <1>2, BoundAssumption
        <3>6. active' = [id |-> i, item |-> items'[i], session |-> session', at |-> "sending"] /\ timer' = FALSE
            BY <1>2, <2>1 DEF Kick
        <3> HIDE DEF i
        <3>7. active' \in Uploads BY <3>4, <3>5, <3>6 DEF Uploads
        <3> QED BY <1>2, <3>4, <3>6, <3>7, UploadFields
    <2>2. CASE ~(online' /\ Due(items') # {}) BY <1>2, <2>2 DEF Kick, SetsTimer
    <2> QED BY <2>1, <2>2
<1> QED BY <1>1, <1>2

-----------------------------------------------------------------------------
(* The three things that happen to the queue's writes.                     *)

\* upload() does not wait for a write.
NotWriting(u) == u = None \/ u.at \in {"sending", "taken", "deleting"}

\* Nothing is written: memory keeps its items and their bytes, and what is promised
\* of files and scans does not grow.
LEMMA QueueStays ==
    ASSUME UploadsInv, TypeOK',
           UNCHANGED <<stored, writes, nextId>>, faults <= faults', gone' \subseteq gone,
           \A i \in Ids : (items'[i] # None <=> items[i] # None) /\ Same(items'[i], items[i]),
           active' = active \/ NotWriting(active),
           owed' \subseteq owed, excused \subseteq excused', \A f \in Files : doc[f] # "none" => doc'[f] # "none",
           \A s \in device' : doc'[s] # "none" => (s \in device /\ doc[s] # "none") \/ KeptFor(s)
    PROVE  /\ ItemsStored' /\ WritesFit' /\ WritesOfOneItem'
           /\ OwedKept' /\ ScansKept' /\ GoneErased'
<1>1. TypeOK /\ Queueing /\ Promised BY DEF UploadsInv
<1>2. Places' = Places BY DEF Places
<1>3. \A k \in Places : writes[k].id \in Ids BY <1>1, TypeFacts, WriteFields
<1>4. \A i \in Ids : items[i] \in Items \cup {None} /\ items'[i] \in Items \cup {None} /\ stored[i] \in Items \cup {None}
    BY <1>1 DEF TypeOK
<1>5. ItemsStored' BY <1>1, <1>4 DEF Queueing, ItemsStored, Same
<1>6. WritesFit'
    <2>1. ASSUME NEW k \in Places, writes[k].by \in {"save", "forget"} PROVE active' = active
        BY <1>1, <2>1 DEF Queueing, WritesFit, NotWriting
    <2> QED BY <1>1, <1>2, <1>3, <2>1 DEF Queueing, WritesFit
<1>7. WritesOfOneItem' BY <1>1, <1>2 DEF Queueing, WritesOfOneItem
<1>8. \A f : KeptFor(f)' <=> KeptFor(f) BY <1>2 DEF KeptFor, Keeps
<1>9. OwedKept' BY <1>1, <1>8 DEF Promised, OwedKept, TypeOK
<1>10. ScansKept' BY <1>1, <1>8 DEF Promised, ScansKept
<1>11. GoneErased'
    <2>1. faults \in Nat /\ faults' \in Nat BY <1>1, BoundAssumption DEF TypeOK
    <2> QED BY <1>1, <1>2, <2>1 DEF Promised, GoneErased, TypeOK
<1> QED BY <1>5, <1>6, <1>7, <1>9, <1>10, <1>11

\* An item in memory that is not just being forgotten: no write of it erases or adds it,
\* and all of them have its bytes.
LEMMA ItemQuiet ==
    ASSUME UploadsInv, NEW i \in Ids, items[i] # None, ~(active # None /\ active.id = i /\ active.at = "forgetting")
    PROVE  /\ stored[i] # None /\ stored[i].file = items[i].file /\ i < nextId
           /\ \A k \in Places : writes[k].id = i =>
                 ~Erases(writes[k]) /\ writes[k].by # "add" /\ Same(writes[k].item, items[i])
           /\ Keeps(i, items[i].file)
<1>1. TypeOK /\ Queueing BY DEF UploadsInv
<1>2. stored[i] # None /\ stored[i].file = items[i].file BY <1>1 DEF Queueing, ItemsStored, Same
<1>3. i < nextId BY <1>1, <1>2, TypeFacts DEF Queueing, ItemsStored, Ids
<1>4. \A k \in Places : writes[k].id = i =>
          ~Erases(writes[k]) /\ writes[k].by # "add" /\ Same(writes[k].item, items[i])
    BY <1>1, <1>2 DEF Queueing, WritesFit, Same
<1> QED BY <1>2, <1>3, <1>4 DEF Keeps

\* A write is asked for, of a new item or of one in memory.
LEMMA QueueAppends ==
    ASSUME UploadsInv, TypeOK', NEW w \in Writes, writes' = Append(writes, w), UNCHANGED stored, faults <= faults',
           nextId <= nextId', w.id < nextId',
           \A i \in Ids \ {w.id} : items'[i] = items[i],
           items'[w.id] # None => items[w.id] # None /\ items'[w.id].file = items[w.id].file,
           Erases(w) <=> w.by \in {"forget", "remove"}, Same(w.item, stored[w.id]),
           w.by = "remove" => items'[w.id] = None,
           w.by \in {"save", "forget"} => /\ NotWriting(active) /\ active' # None /\ active'.id = w.id
                                          /\ active'.at = IF w.by = "save" THEN "saving" ELSE "forgetting",
           w.by \notin {"save", "forget"} => active' = active,
           gone \subseteq gone', gone' \subseteq gone \cup {w.id}, w.id \in gone' \ gone => Erases(w) /\ items'[w.id] = None,
           IF w.by = "add" THEN w.id = nextId
           ELSE items[w.id] # None /\ ~(active # None /\ active.id = w.id /\ active.at = "forgetting")
    PROVE  /\ ItemsStored' /\ WritesFit' /\ WritesOfOneItem' /\ GoneErased'
           /\ \A i \in Ids, f \in Files : Keeps(i, f) /\ (i # w.id \/ ~Erases(w)) => Keeps(i, f)'
<1>1. TypeOK /\ Queueing /\ Promised BY DEF UploadsInv
<1> DEFINE top == Len(writes) + 1
<1>2. /\ top \in Places' /\ writes'[top] = w
      /\ \A k \in Places : k \in Places' /\ k # top /\ writes'[k] = writes[k]
      /\ \A k \in Places' : k = top \/ k \in Places
      /\ \A k, l \in Places' : k < l => k \in Places
    <2>1. Len(writes) \in Nat /\ Len(writes') = top /\ writes'[top] = w
          /\ \A k \in 1..Len(writes) : writes'[k] = writes[k]
        BY <1>1, Appended DEF TypeOK
    <2> QED BY <2>1 DEF Places
<1> HIDE DEF top
<1>3. \A k \in Places : writes[k] \in Writes /\ writes[k].id \in Ids /\ writes[k].id < nextId
    BY <1>1, TypeFacts, WriteFields DEF Queueing, WritesFit
<1>4. w.id \in Ids /\ w.item \in Items \cup {None} BY WriteFields
<1>5. nextId \in Nat /\ nextId' \in Nat BY <1>1, BoundAssumption DEF TypeOK
<1>6. \A k \in Places : writes[k].id = w.id =>
          w.by # "add" /\ ~Erases(writes[k]) /\ writes[k].by # "add" /\ Same(writes[k].item, items[w.id])
    BY <1>3, <1>4, <1>5, ItemQuiet DEF Ids
<1>7. w.by # "add" => stored[w.id] # None /\ stored[w.id].file = items[w.id].file /\ items[w.id] # None
    BY <1>4, ItemQuiet
<1>8. w.by = "add" => stored[w.id] = None /\ items[w.id] = None /\ w.id \notin gone
    BY <1>1, <1>4, <1>5 DEF Queueing, ItemsStored, Promised, GoneErased, Ids
<1>9. ItemsStored' BY <1>1, <1>4, <1>5, <1>7 DEF Queueing, ItemsStored, Same, Ids
<1>10. \A k \in Places : writes[k].by \in {"save", "forget"} => ~NotWriting(active)
    BY <1>1 DEF Queueing, WritesFit, NotWriting
<1>11. WritesFit'
    <2>1. ASSUME NEW k \in Places, writes[k].by \in {"save", "forget"} PROVE active' = active
        BY <1>10, <2>1
    <2>2. ASSUME NEW k \in Places
          PROVE  LET v == writes[k]
                 IN  /\ v.id < nextId'
                     /\ Erases(v) <=> v.by \in {"forget", "remove"}
                     /\ Same(v.item, stored[v.id])
                     /\ v.by = "remove" => items'[v.id] = None
                     /\ v.by = "forget" => active' # None /\ active'.id = v.id /\ active'.at = "forgetting"
                     /\ v.by = "save" => active' # None /\ active'.id = v.id /\ active'.at = "saving"
                     /\ v.by = "add" => items'[v.id] = None /\ stored[v.id] = None /\ v.id \notin gone'
        <3>1. writes[k].id \in Ids /\ writes[k].id < nextId' BY <1>3, <1>5 DEF Ids
        <3>2. writes[k].by \in {"add", "remove"} => items'[writes[k].id] = None
            BY <1>1, <3>1, <1>4 DEF Queueing, WritesFit
        <3>3. writes[k].by = "add" => writes[k].id \notin gone'
            BY <1>1, <1>6, <3>1 DEF Queueing, WritesFit
        <3>4. writes[k].by \in {"forget", "save"} => active' = active BY <2>1
        <3> QED BY <1>1, <3>1, <3>2, <3>3, <3>4 DEF Queueing, WritesFit
    <2>3. LET v == w
          IN  /\ v.id < nextId'
              /\ Erases(v) <=> v.by \in {"forget", "remove"}
              /\ Same(v.item, stored[v.id])
              /\ v.by = "remove" => items'[v.id] = None
              /\ v.by = "forget" => active' # None /\ active'.id = v.id /\ active'.at = "forgetting"
              /\ v.by = "save" => active' # None /\ active'.id = v.id /\ active'.at = "saving"
              /\ v.by = "add" => items'[v.id] = None /\ stored[v.id] = None /\ v.id \notin gone'
        BY <1>8
    <2>4. ASSUME NEW k \in Places'
          PROVE  LET v == writes'[k]
                 IN  /\ v.id < nextId'
                     /\ Erases(v) <=> v.by \in {"forget", "remove"}
                     /\ Same(v.item, stored'[v.id])
                     /\ v.by = "remove" => items'[v.id] = None
                     /\ v.by = "forget" => active' # None /\ active'.id = v.id /\ active'.at = "forgetting"
                     /\ v.by = "save" => active' # None /\ active'.id = v.id /\ active'.at = "saving"
                     /\ v.by = "add" => items'[v.id] = None /\ stored'[v.id] = None /\ v.id \notin gone'
        <3>1. CASE k = top BY <1>2, <2>3, <3>1
        <3>2. CASE k \in Places BY <1>2, <2>2, <3>2
        <3> QED BY <1>2, <3>1, <3>2
    <2> QED BY <2>4 DEF WritesFit
<1>12. WritesOfOneItem'
    <2>1. ASSUME NEW k \in Places', NEW l \in Places', k < l, l = top
          PROVE  /\ writes'[k].id = writes'[l].id =>
                       /\ Same(writes'[k].item, writes'[l].item)
                       /\ writes'[k].by # "add" /\ writes'[l].by # "add" /\ ~Erases(writes'[k])
                 /\ writes'[k].by \in {"save", "forget"} => writes'[l].by \notin {"save", "forget"}
        <3>1. k \in Places /\ writes'[k] = writes[k] /\ writes'[l] = w BY <1>2, <2>1
        <3>2. writes[k].by \in {"save", "forget"} => w.by \notin {"save", "forget"} BY <1>10, <3>1
        <3>3. ASSUME writes[k].id = w.id PROVE Same(writes[k].item, w.item)
            BY <1>6, <1>7, <3>1, <3>3 DEF Same
        <3> QED BY <1>6, <3>1, <3>2, <3>3
    <2>2. ASSUME NEW k \in Places', NEW l \in Places', k < l, l # top
          PROVE  /\ writes'[k].id = writes'[l].id =>
                       /\ Same(writes'[k].item, writes'[l].item)
                       /\ writes'[k].by # "add" /\ writes'[l].by # "add" /\ ~Erases(writes'[k])
                 /\ writes'[k].by \in {"save", "forget"} => writes'[l].by \notin {"save", "forget"}
        <3>1. k \in Places /\ l \in Places /\ writes'[k] = writes[k] /\ writes'[l] = writes[l] BY <1>2, <2>2
        <3> QED BY <1>1, <2>2, <3>1 DEF Queueing, WritesOfOneItem
    <2> QED BY <2>1, <2>2 DEF WritesOfOneItem
<1>13. GoneErased'
    <2>1. ASSUME NEW i \in gone PROVE i < nextId' /\ items'[i] = None /\ i \in Ids
        BY <1>1, <1>4, <1>5 DEF TypeOK, Promised, GoneErased, Ids
    <2>2. ASSUME NEW i \in gone
          PROVE  \/ faults' > 0 \/ \E k \in Places' : writes'[k].id = i /\ Erases(writes'[k])
                 \/ stored[i] = None /\ \A k \in Places' : writes'[k].id # i
        <3>1. w.id # i
            BY <1>1, <1>5, <1>8, <2>1 DEF Promised, GoneErased
        <3>2. \A k \in Places' : (k \in Places /\ writes'[k] = writes[k]) \/ writes'[k] = w BY <1>2
        <3>3. \A k \in Places : k \in Places' /\ writes'[k] = writes[k] BY <1>2
        <3>6. faults > 0 => faults' > 0
            <4>1. faults \in Nat /\ faults' \in Nat BY <1>1, BoundAssumption DEF TypeOK
            <4> QED BY <4>1
        <3>4. CASE stored[i] = None /\ \A k \in Places : writes[k].id # i BY <3>1, <3>2, <3>4
        <3>5. CASE \E k \in Places : writes[k].id = i /\ Erases(writes[k]) BY <3>3, <3>5
        <3> QED BY <1>1, <3>4, <3>5, <3>6 DEF Promised, GoneErased
    <2>3. ASSUME w.id \in gone', w.id \notin gone
          PROVE  \E k \in Places' : writes'[k].id = w.id /\ Erases(writes'[k])
        BY <1>2, <2>3
    <2>4. ASSUME NEW i \in gone', i \notin gone PROVE i = w.id /\ items'[i] = None /\ i < nextId'
        BY <2>4
    <2>5. ASSUME NEW i \in gone'
          PROVE  /\ i < nextId' /\ items'[i] = None
                 /\ \/ faults' > 0
                    \/ \E k \in Places' : writes'[k].id = i /\ Erases(writes'[k])
                    \/ stored'[i] = None /\ \A k \in Places' : writes'[k].id # i
        <3>1. CASE i \in gone BY <2>1, <2>2, <3>1
        <3>2. CASE i \notin gone BY <2>3, <2>4, <3>2
        <3> QED BY <3>1, <3>2
    <2> QED BY <2>5 DEF GoneErased
<1>14. \A i \in Ids, f \in Files : Keeps(i, f) /\ (i # w.id \/ ~Erases(w)) => Keeps(i, f)'
    BY <1>2 DEF Keeps
<1> QED BY <1>9, <1>11, <1>12, <1>13, <1>14

\* The first write commits, or fails.
LEMMA QueueCommits ==
    ASSUME UploadsInv, TypeOK', NEW w, writes # <<>>, w = Head(writes), writes' = Tail(writes), NEW ok \in BOOLEAN,
           stored' = IF ok THEN [stored EXCEPT ![w.id] = w.item] ELSE stored,
           faults <= faults', ~ok => faults' > 0, UNCHANGED <<nextId, gone>>,
           \A i \in Ids \ {w.id} : items'[i] = items[i],
           items'[w.id] = IF w.by = "forget" THEN None
                          ELSE IF w.by = "add" /\ ok THEN w.item ELSE items[w.id],
           w.by \notin {"save", "forget"} => active' = active \/ NotWriting(active)
    PROVE  /\ ItemsStored' /\ WritesFit' /\ WritesOfOneItem' /\ GoneErased'
           /\ \A i \in Ids, f \in Files : Keeps(i, f) => Keeps(i, f)'
           /\ w.by = "add" /\ ok => Keeps(w.id, w.item.file)'
<1>1. TypeOK /\ Queueing /\ Promised BY DEF UploadsInv
<1>2. \A k \in Places' : k \in Nat /\ k + 1 \in Places /\ writes'[k] = writes[k + 1] /\ 1 < k + 1
    BY <1>1, Headless DEF TypeOK, Places
<1>3. \A k \in Places : k = 1 \/ \E l \in Places' : l + 1 = k /\ writes'[l] = writes[k]
    <2>1. ASSUME NEW k \in Places, k # 1 PROVE k - 1 \in Places' /\ (k - 1) + 1 = k /\ writes'[k - 1] = writes[k]
        <3>1. Len(writes) \in Nat /\ Len(writes') = Len(writes) - 1 BY <1>1, Headless DEF TypeOK
        <3>2. k - 1 \in 1..(Len(writes) - 1) /\ (k - 1) + 1 = k BY <2>1, <3>1 DEF Places
        <3>3. writes'[k - 1] = writes[(k - 1) + 1] BY <1>1, <3>2, Headless DEF TypeOK
        <3> QED BY <3>1, <3>2, <3>3 DEF Places
    <2> QED BY <2>1
<1>4. 1 \in Places /\ writes[1] = w BY <1>1, Headless DEF TypeOK, Places
<1>5. w \in Writes /\ w.id \in Ids /\ w.item \in Items \cup {None} /\ w.id < nextId
    BY <1>1, <1>4, TypeFacts, WriteFields DEF Queueing, WritesFit
<1>6. /\ Erases(w) <=> w.by \in {"forget", "remove"}
      /\ Same(w.item, stored[w.id])
      /\ w.by = "remove" => items[w.id] = None
      /\ w.by = "add" => items[w.id] = None /\ stored[w.id] = None /\ w.id \notin gone
    BY <1>1, <1>4 DEF Queueing, WritesFit
<1>7. \A k \in Places' :
          /\ writes'[k].id = w.id => /\ Same(w.item, writes'[k].item)
                                     /\ w.by # "add" /\ writes'[k].by # "add" /\ ~Erases(w)
          /\ w.by \in {"save", "forget"} => writes'[k].by \notin {"save", "forget"}
    <2>1. ASSUME NEW k \in Places'
          PROVE  /\ writes'[k].id = w.id => /\ Same(w.item, writes'[k].item)
                                            /\ w.by # "add" /\ writes'[k].by # "add" /\ ~Erases(w)
                 /\ w.by \in {"save", "forget"} => writes'[k].by \notin {"save", "forget"}
        <3>1. k + 1 \in Places /\ writes'[k] = writes[k + 1] /\ 1 < k + 1 BY <1>2
        <3> QED BY <1>1, <1>4, <3>1 DEF Queueing, WritesOfOneItem
    <2> QED BY <2>1
<1>8. /\ \A i \in Ids \ {w.id} : stored'[i] = stored[i]
      /\ stored'[w.id] = IF ok THEN w.item ELSE stored[w.id]
    BY <1>1, <1>5 DEF TypeOK
<1>9. /\ items[w.id] # None => stored[w.id] # None
      /\ Same(items[w.id], stored[w.id])
    BY <1>1, <1>5 DEF Queueing, ItemsStored
<1>10. ItemsStored'
    <2>1. /\ items'[w.id] # None => stored'[w.id] # None
          /\ Same(items'[w.id], stored'[w.id])
        BY <1>6, <1>8, <1>9 DEF Same, Erases
    <2>2. w.id >= nextId' => stored'[w.id] = None BY <1>1, <1>5, TypeFacts DEF Ids
    <2>3. ASSUME NEW i \in Ids
          PROVE  /\ items'[i] # None => stored'[i] # None
                 /\ Same(items'[i], stored'[i])
                 /\ i >= nextId' => stored'[i] = None
        <3>1. CASE i = w.id BY <2>1, <2>2, <3>1
        <3>2. CASE i # w.id BY <1>1, <1>8, <3>2 DEF Queueing, ItemsStored
        <3> QED BY <3>1, <3>2
    <2> QED BY <2>3 DEF ItemsStored
<1>11. WritesFit'
    <2>1. ASSUME NEW k \in Places'
          PROVE  LET v == writes'[k]
                 IN  /\ v.id < nextId'
                     /\ Erases(v) <=> v.by \in {"forget", "remove"}
                     /\ Same(v.item, stored'[v.id])
                     /\ v.by = "remove" => items'[v.id] = None
                     /\ v.by = "forget" => active' # None /\ active'.id = v.id /\ active'.at = "forgetting"
                     /\ v.by = "save" => active' # None /\ active'.id = v.id /\ active'.at = "saving"
                     /\ v.by = "add" => items'[v.id] = None /\ stored'[v.id] = None /\ v.id \notin gone'
        <3>1. PICK v : v = writes'[k] OBVIOUS
        <3>2. k + 1 \in Places /\ v = writes[k + 1] BY <1>2, <3>1
        <3>3. /\ v.id < nextId
              /\ Erases(v) <=> v.by \in {"forget", "remove"}
              /\ Same(v.item, stored[v.id])
              /\ v.by = "remove" => items[v.id] = None
              /\ v.by = "forget" => active # None /\ active.id = v.id /\ active.at = "forgetting"
              /\ v.by = "save" => active # None /\ active.id = v.id /\ active.at = "saving"
              /\ v.by = "add" => items[v.id] = None /\ stored[v.id] = None /\ v.id \notin gone
            BY <1>1, <3>2 DEF Queueing, WritesFit
        <3>4. v.id \in Ids BY <1>1, <3>2, TypeFacts, WriteFields
        <3>5. v.by \in {"save", "forget"} => active' = active BY <1>7, <3>1, <3>3 DEF NotWriting
        <3>6. Same(v.item, stored'[v.id])
            <4>1. CASE v.id = w.id /\ ok
                <5>1. Same(w.item, v.item) /\ stored'[v.id] = w.item BY <1>7, <1>8, <3>1, <4>1
                <5> QED BY <5>1 DEF Same
            <4>2. CASE ~(v.id = w.id /\ ok)
                <5>1. stored'[v.id] = stored[v.id] BY <1>8, <3>4, <4>2
                <5> QED BY <3>3, <5>1
            <4> QED BY <4>1, <4>2
        <3>7. v.by = "remove" => items'[v.id] = None BY <1>7, <3>1, <3>3, <3>4
        <3>8. v.by = "add" => items'[v.id] = None /\ stored'[v.id] = None /\ v.id \notin gone'
            BY <1>7, <1>8, <3>1, <3>3, <3>4
        <3> QED BY <3>1, <3>3, <3>5, <3>6, <3>7, <3>8
    <2> QED BY <2>1 DEF WritesFit
<1>12. WritesOfOneItem'
    <2>1. ASSUME NEW k \in Places', NEW l \in Places', k < l
          PROVE  /\ writes'[k].id = writes'[l].id =>
                       /\ Same(writes'[k].item, writes'[l].item)
                       /\ writes'[k].by # "add" /\ writes'[l].by # "add" /\ ~Erases(writes'[k])
                 /\ writes'[k].by \in {"save", "forget"} => writes'[l].by \notin {"save", "forget"}
        <3>1. /\ k + 1 \in Places /\ writes'[k] = writes[k + 1]
              /\ l + 1 \in Places /\ writes'[l] = writes[l + 1]
              /\ k \in Nat /\ l \in Nat
            BY <1>2, <2>1
        <3>2. k + 1 < l + 1 BY <2>1, <3>1
        <3> QED BY <1>1, <3>1, <3>2 DEF Queueing, WritesOfOneItem
    <2> QED BY <2>1 DEF WritesOfOneItem
<1>13. GoneErased'
    <2>1. ASSUME NEW i \in gone
          PROVE  /\ i < nextId' /\ items'[i] = None
                 /\ \/ faults' > 0
                    \/ \E k \in Places' : writes'[k].id = i /\ Erases(writes'[k])
                    \/ stored'[i] = None /\ \A k \in Places' : writes'[k].id # i
        <3>1. i \in Ids /\ i < nextId /\ items[i] = None BY <1>1 DEF TypeOK, Promised, GoneErased
        <3>2. items'[i] = None BY <1>6, <3>1
        <3>3. CASE faults > 0
            <4>1. faults \in Nat /\ faults' \in Nat BY <1>1, BoundAssumption DEF TypeOK
            <4> QED BY <3>1, <3>2, <3>3, <4>1
        <3>4. CASE ~ok BY <3>1, <3>2, <3>4
        <3>5. ASSUME NEW k \in Places, writes[k].id = i, Erases(writes[k]), ok
              PROVE  \/ \E l \in Places' : writes'[l].id = i /\ Erases(writes'[l])
                     \/ stored'[i] = None /\ \A l \in Places' : writes'[l].id # i
            <4>1. CASE k = 1
                <5>1. w.id = i /\ Erases(w) BY <1>4, <3>5, <4>1
                <5> QED BY <1>7, <1>8, <3>5, <5>1 DEF Erases
            <4>2. CASE k # 1 BY <1>3, <3>5, <4>2
            <4> QED BY <4>1, <4>2
        <3>6. CASE stored[i] = None /\ \A k \in Places : writes[k].id # i
            <4>1. w.id # i BY <1>4, <3>6
            <4>2. \A k \in Places' : writes'[k].id # i BY <1>2, <3>6
            <4> QED BY <1>8, <3>1, <3>2, <3>6, <4>1, <4>2
        <3> QED BY <1>1, <3>1, <3>2, <3>3, <3>4, <3>5, <3>6 DEF Promised, GoneErased
    <2> QED BY <2>1 DEF GoneErased
<1>14. ASSUME NEW i \in Ids, NEW f \in Files, Keeps(i, f) PROVE Keeps(i, f)'
    <2>1. stored[i] # None /\ stored[i].file = f /\ \A k \in Places : writes[k].id = i => ~Erases(writes[k])
        BY <1>14 DEF Keeps
    <2>2. \A k \in Places' : writes'[k].id = i => ~Erases(writes'[k]) BY <1>2, <2>1
    <2>3. stored'[i] # None /\ stored'[i].file = f
        <3>1. CASE i = w.id BY <1>4, <1>6, <1>8, <2>1, <3>1 DEF Same, Erases
        <3>2. CASE i # w.id BY <1>8, <2>1, <3>2
        <3> QED BY <3>1, <3>2
    <2> QED BY <2>2, <2>3 DEF Keeps
<1>15. ASSUME w.by = "add", ok PROVE Keeps(w.id, w.item.file)'
    <2>1. stored'[w.id] = w.item /\ w.item # None BY <1>6, <1>8, <1>15 DEF Erases
    <2>2. \A k \in Places' : writes'[k].id # w.id BY <1>7, <1>15
    <2> QED BY <2>1, <2>2 DEF Keeps
<1> QED BY <1>10, <1>11, <1>12, <1>13, <1>14, <1>15

\* The steps of accepted(): delete the scan, forget the upload, done.
LEMMA FollowFacts ==
    ASSUME NEW w
    PROVE  /\ Follow(0, w) => /\ writes' = w /\ active' = [active EXCEPT !.at = "deleting"]
                              /\ UNCHANGED <<sentScans, items, reached, signing, online, timer>>
           /\ Follow(1, w) => /\ writes' = Append(w, Forget(active.id)) /\ active' = [active EXCEPT !.at = "forgetting"]
                              /\ UNCHANGED <<sentScans, items, reached, signing, online, timer>>
           /\ Follow(2, w) => /\ sentScans' = sentScans \cup ({active.item.file} \cap Scans)
                              /\ items' = [items EXCEPT ![active.id] = None] /\ reached' = reached \ {active.id}
                              /\ writes' = w /\ UNCHANGED <<signing, online>> /\ Kick(None)
<1>1. Len(FollowUps) = 2 /\ FollowUps[1] = "deleting" /\ FollowUps[2] = "forgetting" BY DEF FollowUps
<1>2. 0 # 2 /\ 1 # 2 /\ 0 + 1 = 1 /\ 1 + 1 = 2 /\ "deleting" # "forgetting" OBVIOUS
<1> QED BY <1>1, <1>2 DEF Follow
LEMMA DoneFacts == Done("deleting") = 1 /\ Done("forgetting") = 2
<1>1. Len(FollowUps) = 2 /\ FollowUps[1] = "deleting" /\ FollowUps[2] = "forgetting" BY DEF FollowUps
<1>2. 1..2 = {1, 2} /\ "deleting" # "forgetting" OBVIOUS
<1> HIDE DEF FollowUps
<1>3. \A k \in 1..2 : (FollowUps[k] = "deleting" <=> k = 1) /\ (FollowUps[k] = "forgetting" <=> k = 2)
    BY <1>1, <1>2
<1> QED BY <1>1, <1>2, <1>3 DEF Done

-----------------------------------------------------------------------------
(* Every action keeps the invariant: first those that write nothing.       *)

\* The queue itself is left alone.
LEMMA QueueRests ==
    ASSUME UploadsInv, TypeOK', UNCHANGED <<items, stored, writes, active, nextId, gone, owed, excused, paused, session>>,
           faults <= faults', running' => running, signedIn' => signedIn, loading' # "done" => loading # "done",
           \A f \in Files : doc[f] # "none" <=> doc'[f] # "none",
           \A s \in device' : s \in device \/ doc[s] = "none",
           \A s \in scanned' : s \in device' \/ s \in scanned \ device
    PROVE  UploadsInv'
<1>1. TypeOK /\ Queueing /\ SessionGoesOn /\ Promised /\ ScanKept /\ PausedOnlySignedOut BY DEF UploadsInv
<1>2. device' \subseteq Files /\ scanned' \subseteq Files BY FileAssumption DEF TypeOK
<1>3. ItemsStored' /\ WritesFit' /\ WritesOfOneItem' /\ OwedKept' /\ ScansKept' /\ GoneErased'
    <2>1. \A s \in device' : doc'[s] # "none" => (s \in device /\ doc[s] # "none") BY <1>2
    <2>2. \A i \in Ids : (items'[i] # None <=> items[i] # None) /\ Same(items'[i], items[i]) BY DEF Same
    <2> QED BY <2>1, <2>2, QueueStays
<1>4. ActiveKnown'
    <2>1. active # None => active.item.file \in Files BY <1>1, UploadFields, ItemFields DEF TypeOK
    <2> QED BY <1>1, <2>1 DEF Queueing, ActiveKnown
<1>5. Unloaded' BY <1>1 DEF Queueing, Unloaded
<1>6. SessionGoesOn' /\ PausedOnlySignedOut' BY <1>1 DEF SessionGoesOn, PausedOnlySignedOut
<1>7. ScanKept' BY <1>1, <1>2 DEF ScanKept
<1> QED BY <1>3, <1>4, <1>5, <1>6, <1>7 DEF UploadsInv, Queueing, Promised

LEMMA LoadFailsKeeps == ASSUME UploadsInv, LoadFails PROVE UploadsInv'
<1>1. TypeOK /\ ScanKept BY DEF UploadsInv
<1>2. faults \in Nat /\ faults + 1 \in 0..MaxFaults /\ faults <= faults + 1
    BY <1>1, BoundAssumption DEF LoadFails, TypeOK
<1>3. coming' \in [Files -> {"no", "building", "ready", "putting"}] BY <1>1 DEF LoadFails, TypeOK
<1>4. TypeOK' BY <1>1, <1>2, <1>3 DEF LoadFails, TypeOK, queue, sending, signing, local, told
<1> QED BY <1>1, <1>2, <1>4, QueueRests DEF LoadFails, queue, sending, signing, local, told
LEMMA AddsKeep ==
    ASSUME UploadsInv, \/ \E f \in Files : Pick(f)
                       \/ \E s \in Scans : SendScan(s) \/ Built(s) \/ NotBuilt(s)
    PROVE  UploadsInv'
<1>1. TypeOK BY DEF UploadsInv
<1>2. \E f \in Files, c \in {"no", "building", "ready"} : coming' = [coming EXCEPT ![f] = c]
    BY FileAssumption DEF Pick, SendScan, Built, NotBuilt
<1>3. coming' \in [Files -> {"no", "building", "ready", "putting"}] BY <1>1, <1>2 DEF TypeOK
<1>4. loading' \in {"no", "reading", "done"} /\ (loading' # "done" => loading # "done")
    BY <1>1 DEF Pick, SendScan, Built, NotBuilt, Load, TypeOK
<1>5. UNCHANGED <<queue, startWaits, sending, signing, online, local, doc, nextId, closes, faults, told>>
    BY DEF Pick, SendScan, Built, NotBuilt
<1>6. TypeOK' BY <1>1, <1>3, <1>4, <1>5 DEF TypeOK, queue, sending, signing, local, told
<1>7. faults <= faults' BY <1>1, <1>5, BoundAssumption DEF TypeOK
<1> QED BY <1>1, <1>4, <1>5, <1>6, <1>7, QueueRests DEF queue, sending, signing, local, told, UploadsInv, ScanKept
LEMMA DeviceKeeps ==
    ASSUME UploadsInv, ReadList \/ \E s \in Scans : FinishScan(s) \/ DeleteScan(s)
    PROVE  UploadsInv'
<1>1. TypeOK BY DEF UploadsInv
<1>2. faults <= faults BY <1>1, BoundAssumption DEF TypeOK
<1>3. CASE ReadList
    <2>1. TypeOK' BY <1>1, <1>3 DEF ReadList, TypeOK, queue, loads, sending, signing, told
    <2> QED BY <1>1, <1>2, <1>3, <2>1, QueueRests DEF ReadList, queue, loads, sending, signing, told
<1>4. ASSUME NEW s \in Scans, FinishScan(s) PROVE UploadsInv'
    <2>1. coming' \in [Files -> {"no", "building", "ready", "putting"}]
        BY <1>1, <1>4, FileAssumption DEF FinishScan, TypeOK
    <2>2. TypeOK' BY <1>1, <1>4, <2>1 DEF FinishScan, TypeOK, queue, sending, signing
    <2> QED BY <1>1, <1>2, <1>4, <2>2, QueueRests DEF FinishScan, queue, sending, signing
<1>5. ASSUME NEW s \in Scans, DeleteScan(s) PROVE UploadsInv'
    <2>1. TypeOK' BY <1>1, <1>5 DEF DeleteScan, TypeOK, queue, loads, sending, signing
    <2> QED BY <1>1, <1>2, <1>5, <2>1, QueueRests DEF DeleteScan, queue, loads, sending, signing
<1> QED BY <1>3, <1>4, <1>5
LEMMA SignedOutKeeps ==
    ASSUME UploadsInv, Stop \/ SessionEnds \/ \E f \in Files : Discard(f)
    PROVE  UploadsInv'
<1>1. TypeOK BY DEF UploadsInv
<1>2. faults <= faults BY <1>1, BoundAssumption DEF TypeOK
<1>3. CASE Stop
    <2>1. TypeOK' BY <1>1, <1>3 DEF Stop, TypeOK, queue, loads, local, told
    <2> QED BY <1>1, <1>2, <1>3, <2>1, QueueRests DEF Stop, queue, loads, local, told
<1>4. CASE SessionEnds
    <2>1. TypeOK' BY <1>1, <1>4 DEF SessionEnds, TypeOK, queue, loads, sending, local, told
    <2> QED BY <1>1, <1>2, <1>4, <2>1, QueueRests DEF SessionEnds, queue, loads, sending, local, told
<1>5. ASSUME NEW f \in Files, Discard(f) PROVE UploadsInv'
    <2>1. doc' \in [Files -> {"none", "kept", "discarded"}] BY <1>1, <1>5 DEF Discard, TypeOK
    <2>2. \A g \in Files : doc[g] # "none" <=> doc'[g] # "none" BY <1>1, <1>5 DEF Discard, TypeOK
    <2>3. TypeOK' BY <1>1, <1>5, <2>1 DEF Discard, TypeOK, queue, loads, sending, signing, local, told
    <2> QED BY <1>1, <1>2, <1>5, <2>2, <2>3, QueueRests DEF Discard, queue, loads, sending, signing, local, told
<1> QED BY <1>3, <1>4, <1>5

\* Nothing is written, and perhaps kick() begins an upload.
LEMMA QueueKicks ==
    ASSUME UploadsInv, items' \in [Ids -> Items \cup {None}],
           \A i \in Ids : (items'[i] # None <=> items[i] # None) /\ Same(items'[i], items[i]),
           UNCHANGED <<stored, writes, coming, local, doc, nextId, closes, faults, told>>,
           NEW act, act = active \/ (act = None /\ NotWriting(active)), Kick(act) \/ UNCHANGED sending,
           loading' \in {"no", "reading", "done"}, loading' # "done" => loading # "done", startWaits' \in BOOLEAN,
           online' \in BOOLEAN, running' \in BOOLEAN, paused' \in BOOLEAN, session' \in 0..MaxSessions,
           signedIn' \in BOOLEAN, running' => session' # 0, PausedOnlySignedOut'
    PROVE  UploadsInv'
<1>1. TypeOK /\ Queueing /\ SessionGoesOn /\ Promised /\ ScanKept BY DEF UploadsInv
<1>2. active \in Uploads \cup {None} /\ timer \in BOOLEAN BY <1>1 DEF TypeOK
<1>3. /\ active' \in Uploads \cup {None} /\ timer' \in BOOLEAN
      /\ \/ active' = active
         \/ NotWriting(active) /\ active' = None
         \/ /\ NotWriting(active) /\ active' # None /\ active'.at = "sending"
            /\ active'.id \in Ids /\ items'[active'.id] # None /\ active'.item = items'[active'.id]
    <2>1. CASE Kick(act)
        <3>1. act \in Uploads \cup {None} BY <1>2
        <3>2. /\ active' \in Uploads \cup {None} /\ timer' \in BOOLEAN
              /\ \/ active' = act
                 \/ /\ act = None /\ active' # None /\ active'.at = "sending"
                    /\ active'.id \in Ids /\ items'[active'.id] # None /\ active'.item = items'[active'.id]
            BY <1>2, <2>1, <3>1, KickFacts
        <3> QED BY <3>2 DEF NotWriting
    <2>2. CASE UNCHANGED sending BY <1>2, <2>2 DEF sending
    <2> QED BY <2>1, <2>2
<1>4. ActiveKnown'
    <2>1. CASE active' = active
        <3>1. active # None => active.id \in Ids BY <1>2, UploadFields
        <3>2. active # None => items[active.id].file = items'[active.id].file /\ items'[active.id] # None
            BY <1>1, <3>1 DEF Queueing, ActiveKnown, Same
        <3>3. doc' = doc OBVIOUS
        <3> QED BY <1>1, <2>1, <3>2, <3>3 DEF Queueing, ActiveKnown
    <2>2. CASE active' # active BY <1>3, <2>2 DEF ActiveKnown
    <2> QED BY <2>1, <2>2
<1>5. TypeOK'
    <2>1. active' # None => items'[active'.id] # None BY <1>4 DEF ActiveKnown
    <2> QED BY <1>1, <1>3, <2>1 DEF TypeOK, local, told
<1>6. ItemsStored' /\ WritesFit' /\ WritesOfOneItem' /\ OwedKept' /\ ScansKept' /\ GoneErased'
    <2>1. faults <= faults' BY <1>1, BoundAssumption DEF TypeOK
    <2>2. active' = active \/ NotWriting(active) BY <1>3
    <2> QED BY <1>5, <2>1, <2>2, QueueStays DEF local, told
<1>7. Unloaded' BY <1>1, <1>3 DEF Queueing, Unloaded, told
<1> QED BY <1>1, <1>4, <1>5, <1>6, <1>7
    DEF UploadsInv, Queueing, Promised, SessionGoesOn, ScanKept, local, told

LEMMA StartKeeps == ASSUME UploadsInv, Start PROVE UploadsInv'
<1>1. TypeOK BY DEF UploadsInv
<1>2. session' \in 0..MaxSessions /\ session' # 0 BY <1>1, BoundAssumption DEF Start, TypeOK
<1>3. items' \in [Ids -> Items \cup {None}]
      /\ \A i \in Ids : (items'[i] # None <=> items[i] # None) /\ Same(items'[i], items[i])
    BY <1>1 DEF Start, TypeOK, Same
<1>4. PausedOnlySignedOut' BY DEF Start, PausedOnlySignedOut
<1>5. loading' \in {"no", "reading", "done"} /\ (loading' # "done" => loading # "done")
    BY <1>1 DEF Start, Load, TypeOK
<1>6. Kick(active) \/ UNCHANGED sending BY DEF Start
<1> QED BY <1>1, <1>2, <1>3, <1>4, <1>5, <1>6, QueueKicks DEF Start, TypeOK
LEMMA TimersKeep ==
    ASSUME UploadsInv, TimerFires \/ \E i \in Ids : BecomesDue(i)
    PROVE  UploadsInv'
<1>1. TypeOK /\ SessionGoesOn /\ PausedOnlySignedOut BY DEF UploadsInv
<1>2. items' \in [Ids -> Items \cup {None}]
      /\ \A i \in Ids : (items'[i] # None <=> items[i] # None) /\ Same(items'[i], items[i])
    <2>1. CASE TimerFires BY <1>1, <2>1 DEF TimerFires, TypeOK, Same
    <2>2. ASSUME NEW i \in Ids, BecomesDue(i)
          PROVE  items' \in [Ids -> Items \cup {None}]
                 /\ \A j \in Ids : (items'[j] # None <=> items[j] # None) /\ Same(items'[j], items[j])
        <3>1. items[i] \in Items BY <1>1, <2>2 DEF BecomesDue, Queued, TypeOK
        <3>2. [items[i] EXCEPT !.due = TRUE] \in Items /\ [items[i] EXCEPT !.due = TRUE].file = items[i].file
            BY <3>1, ItemChanged, ItemFields
        <3>3. items' = [items EXCEPT ![i] = [items[i] EXCEPT !.due = TRUE]] BY <1>1, <2>2 DEF BecomesDue, TypeOK
        <3>4. [items[i] EXCEPT !.due = TRUE] # None /\ items[i] # None BY <3>1, <3>2, ItemFields
        <3> HIDE <2>2
        <3> QED BY <1>1, <3>2, <3>3, <3>4 DEF TypeOK, Same
    <2> QED BY <2>1, <2>2
<1>3. Kick(active) \/ UNCHANGED sending BY DEF TimerFires, BecomesDue
<1>4. UNCHANGED <<loads, signing, online, stored, writes, local, doc, nextId, closes, faults, told>>
    BY DEF TimerFires, BecomesDue
<1> QED BY <1>1, <1>2, <1>3, <1>4, QueueKicks DEF TypeOK, SessionGoesOn, PausedOnlySignedOut, loads, signing
LEMMA ConnectionKeeps == ASSUME UploadsInv, Connection PROVE UploadsInv'
<1>1. TypeOK /\ SessionGoesOn /\ PausedOnlySignedOut BY DEF UploadsInv
<1>2. items' \in [Ids -> Items \cup {None}]
      /\ \A i \in Ids : (items'[i] # None <=> items[i] # None) /\ Same(items'[i], items[i])
    <2>1. CASE items' = items BY <1>1, <2>1 DEF TypeOK, Same
    <2>2. CASE items' = [i \in Ids |-> IF i \in Queued(items) THEN [items[i] EXCEPT !.due = TRUE] ELSE items[i]]
        <3>1. ASSUME NEW i \in Queued(items)
              PROVE  /\ items[i] \in Items /\ [items[i] EXCEPT !.due = TRUE] \in Items
                     /\ [items[i] EXCEPT !.due = TRUE].file = items[i].file
                     /\ [items[i] EXCEPT !.due = TRUE] # None /\ items[i] # None
            <4>1. items[i] \in Items BY <1>1, <3>1 DEF Queued, TypeOK
            <4> QED BY <4>1, ItemChanged, ItemFields
        <3> HIDE DEF Queued
        <3> QED BY <1>1, <2>2, <3>1 DEF TypeOK, Same
    <2> QED BY <2>1, <2>2 DEF Connection
<1>3. Kick(active) \/ UNCHANGED sending BY DEF Connection
<1>4. UNCHANGED <<loads, signing, stored, writes, local, doc, nextId, closes, faults, told>>
    BY DEF Connection
<1>5. online' \in BOOLEAN BY <1>1 DEF Connection, TypeOK
<1> QED BY <1>1, <1>2, <1>3, <1>4, <1>5, QueueKicks DEF TypeOK, SessionGoesOn, PausedOnlySignedOut, loads, signing

\* A 401 of this session pauses the queue: the server has ended the session.
LEMMA UnauthorizedKeeps == ASSUME UploadsInv, UploadUnauthorized PROVE UploadsInv'
<1>1. TypeOK /\ SessionGoesOn /\ PausedOnlySignedOut BY DEF UploadsInv
<1>2. items' \in [Ids -> Items \cup {None}]
      /\ \A i \in Ids : (items'[i] # None <=> items[i] # None) /\ Same(items'[i], items[i])
    BY <1>1 DEF UploadUnauthorized, TypeOK, Same
<1>3. active.at = "sending" /\ (~signedIn \/ active.session # session) BY DEF UploadUnauthorized, CanAnswer
<1>4. PausedOnlySignedOut' BY <1>1, <1>3 DEF UploadUnauthorized, PausedOnlySignedOut, OwnSession
<1>5. paused' \in BOOLEAN BY <1>1 DEF UploadUnauthorized, TypeOK
<1>6. NotWriting(active) BY <1>3 DEF NotWriting
<1>7. Kick(None) /\ UNCHANGED <<running, session, signedIn, online, stored, writes, loads, local, doc, nextId, closes, faults, told>>
    BY DEF UploadUnauthorized
<1> QED BY <1>1, <1>2, <1>4, <1>5, <1>6, <1>7, QueueKicks DEF TypeOK, SessionGoesOn, loads

\* The server takes the file, and its answer comes: the scan's copy is next.
LEMMA TakenKeeps == ASSUME UploadsInv, ServerTakes PROVE UploadsInv'
<1>1. TypeOK /\ Queueing /\ SessionGoesOn /\ Promised /\ ScanKept /\ PausedOnlySignedOut BY DEF UploadsInv
<1>2. active \in Uploads /\ active.id \in Ids /\ active.item \in Items /\ active.at = "sending"
    BY <1>1, UploadFields DEF ServerTakes, TypeOK
<1>3. active' \in Uploads /\ active'.id = active.id /\ active'.item = active.item /\ active'.at = "taken"
      /\ active' # None
    BY <1>2, UploadMoves, UploadFields DEF ServerTakes
<1> DEFINE f == active.item.file
<1>4. f \in Files BY <1>2, ItemFields
<1>5. /\ doc' \in [Files -> {"none", "kept", "discarded"}] /\ doc'[f] # "none"
      /\ \A g \in Files \ {f} : doc'[g] = doc[g]
    BY <1>1, <1>4 DEF ServerTakes, TypeOK
<1>6. items[active.id] # None /\ items[active.id].file = f BY <1>1, <1>2, NoneAssumption DEF Queueing, ActiveKnown, ServerTakes
<1>7. reached' \subseteq Ids BY <1>1, <1>2 DEF ServerTakes, TypeOK
<1>8. /\ UNCHANGED <<items, stored, writes, loading, startWaits, coming, timer, running, paused, session, signedIn,
                     online, local, nextId, closes, faults, owed, scanned, gone, excused>>
    BY DEF ServerTakes, queue, loads, signing
<1>9. TypeOK' BY <1>1, <1>3, <1>5, <1>6, <1>7, <1>8 DEF TypeOK, local
<1>10. KeptFor(f) BY <1>2, <1>6, ItemQuiet DEF KeptFor
<1>11. ItemsStored' /\ WritesFit' /\ WritesOfOneItem' /\ OwedKept' /\ ScansKept' /\ GoneErased'
    <2>1. faults <= faults' BY <1>1, <1>8, BoundAssumption DEF TypeOK
    <2>2. NotWriting(active) BY <1>2 DEF NotWriting
    <2>3. \A s \in device' : doc'[s] # "none" => (s \in device /\ doc[s] # "none") \/ KeptFor(s)
        BY <1>1, <1>5, <1>8, <1>10, FileAssumption DEF TypeOK, local
    <2>4. \A g \in Files : doc[g] # "none" => doc'[g] # "none" BY <1>5
    <2>5. \A i \in Ids : (items'[i] # None <=> items[i] # None) /\ Same(items'[i], items[i]) BY <1>8 DEF Same
    <2> QED BY <1>8, <1>9, <2>1, <2>2, <2>3, <2>4, <2>5, QueueStays
<1>12. ActiveKnown' BY <1>3, <1>5, <1>6, <1>8 DEF ActiveKnown
<1>13. Unloaded' BY <1>1, <1>2, <1>8, UploadFields DEF Queueing, Unloaded
<1>14. ScanKept' BY <1>1, <1>5, <1>8, FileAssumption DEF ScanKept, TypeOK, local
<1> QED BY <1>1, <1>8, <1>9, <1>11, <1>12, <1>13, <1>14
    DEF UploadsInv, Queueing, Promised, SessionGoesOn, PausedOnlySignedOut
LEMMA AcceptedKeeps == ASSUME UploadsInv, NEW a, UploadAccepted(a) PROVE UploadsInv'
<1>1. TypeOK /\ Queueing /\ SessionGoesOn /\ Promised /\ ScanKept /\ PausedOnlySignedOut BY DEF UploadsInv
<1>2. active \in Uploads /\ active.id \in Ids /\ active.item \in Items /\ active.at = "taken"
    BY <1>1, UploadFields DEF UploadAccepted, Accepts, CanAnswer, TypeOK
<1>3. /\ active' = [active EXCEPT !.at = "deleting"] /\ writes' = writes
      /\ UNCHANGED <<sentScans, items, reached, signing, online, timer, stored, loads, device, listed, doc,
                     nextId, closes, faults, owed, scanned, gone, excused>>
    BY FollowFacts DEF UploadAccepted
<1>4. active' \in Uploads /\ active'.id = active.id /\ active'.item = active.item /\ active'.at = "deleting"
      /\ active' # None
    BY <1>2, <1>3, UploadMoves, UploadFields
<1>5. active # None BY <1>2, UploadFields
<1>6. TypeOK' BY <1>1, <1>3, <1>4, <1>5 DEF TypeOK, signing, loads
<1>7. ItemsStored' /\ WritesFit' /\ WritesOfOneItem' /\ OwedKept' /\ ScansKept' /\ GoneErased'
    <2>1. faults <= faults' BY <1>1, <1>3, BoundAssumption DEF TypeOK
    <2>2. NotWriting(active)' /\ \A k \in Places : writes[k].by \notin {"save", "forget"}
        BY <1>1, <1>2, <1>4 DEF NotWriting, Queueing, WritesFit
    <2>3. \A i \in Ids : (items'[i] # None <=> items[i] # None) /\ Same(items'[i], items[i]) BY <1>3 DEF Same
    <2>4. NotWriting(active) BY <1>2 DEF NotWriting
    <2> QED BY <1>3, <1>6, <2>1, <2>3, <2>4, QueueStays
<1>8. ActiveKnown' BY <1>1, <1>2, <1>3, <1>4, <1>5 DEF Queueing, ActiveKnown
<1>9. Unloaded' BY <1>1, <1>3, <1>5 DEF Queueing, Unloaded, loads
<1> QED BY <1>1, <1>3, <1>6, <1>7, <1>8, <1>9
    DEF UploadsInv, Queueing, Promised, SessionGoesOn, PausedOnlySignedOut, ScanKept, signing

-----------------------------------------------------------------------------
(* The actions that ask for a write.                                       *)

\* What is promised of files and scans stays promised, except of a file x that its
\* owner removed, or that the server has and whose copy is gone.
LEMMA PromisesStay ==
    ASSUME UploadsInv, TypeOK', NEW x, \A i \in Ids, f \in Files : f # x /\ Keeps(i, f) => Keeps(i, f)',
           \A f \in owed' : f \in owed \/ KeptFor(f)', excused \subseteq excused', device' \subseteq device,
           doc' = doc, scanned' = scanned,
           x \in owed' => doc[x] # "none", x \in device' => x \in excused',
           \A s \in device \ device' : doc[s] # "none"
    PROVE  OwedKept' /\ ScansKept' /\ ScanKept'
<1>1. TypeOK /\ OwedKept /\ ScansKept /\ ScanKept BY DEF UploadsInv, Promised
<1>2. \A f \in Files \ {x} : KeptFor(f) => KeptFor(f)' BY DEF KeptFor
<1>3. OwedKept'
    <2>1. ASSUME NEW f \in owed' PROVE doc'[f] # "none" \/ KeptFor(f)'
        BY <1>1, <1>2, <2>1 DEF OwedKept, TypeOK
    <2> QED BY <2>1 DEF OwedKept
<1>4. ScansKept'
    <2>1. ASSUME NEW s \in device', doc'[s] # "none" PROVE KeptFor(s)' \/ s \in excused'
        BY <1>1, <1>2, <2>1, FileAssumption DEF ScansKept, TypeOK
    <2> QED BY <2>1 DEF ScansKept
<1>5. ScanKept' BY <1>1 DEF ScanKept
<1> QED BY <1>3, <1>4, <1>5
LEMMA AddPutsKeeps == ASSUME UploadsInv, NEW f \in Files, AddPuts(f) PROVE UploadsInv'
<1>1. TypeOK /\ Queueing /\ SessionGoesOn /\ Promised /\ PausedOnlySignedOut BY DEF UploadsInv
<1> DEFINE new == [file |-> f, state |-> IF f \in TooLarge THEN "failed" ELSE "queued", due |-> TRUE]
           w == [id |-> nextId, item |-> new, by |-> "add"]
<1>2. new \in Items BY DEF Items
<1>3. nextId \in Ids /\ nextId' \in 1..(MaxItems + 1) /\ nextId <= nextId' /\ nextId < nextId'
    BY <1>1, BoundAssumption DEF AddPuts, TypeOK, Ids
<1>4. w \in Writes /\ w.id = nextId /\ w.item = new /\ w.by = "add" BY <1>2, <1>3 DEF Writes
<1>5. writes' = Append(writes, w) /\ loading = "done"
      /\ UNCHANGED <<items, stored, loading, startWaits, sending, signing, online, local, doc, closes, faults, told>>
    BY DEF AddPuts
<1>6. ~Erases(w) BY <1>2, <1>4, ItemFields DEF Erases
<1> HIDE DEF w, new
<1>7. coming' \in [Files -> {"no", "building", "ready", "putting"}] BY <1>1 DEF AddPuts, TypeOK
<1>8. writes' \in Seq(Writes) BY <1>1, <1>4, <1>5, Appended DEF TypeOK
<1>9. TypeOK' BY <1>1, <1>3, <1>5, <1>7, <1>8 DEF TypeOK, sending, signing, local, told
<1>10. items[nextId] = None /\ stored[nextId] = None
    BY <1>1, <1>3, BoundAssumption DEF Queueing, ItemsStored, Ids
<1>11. /\ ItemsStored' /\ WritesFit' /\ WritesOfOneItem' /\ GoneErased'
       /\ \A i \in Ids, g \in Files : Keeps(i, g) => Keeps(i, g)'
    <2>1. Same(w.item, stored[w.id]) BY <1>4, <1>10 DEF Same
    <2>2. faults <= faults' BY <1>1, <1>5, BoundAssumption DEF TypeOK
    <2> QED BY <1>3, <1>4, <1>5, <1>6, <1>9, <1>10, <2>1, <2>2, QueueAppends DEF sending, told
<1>12. OwedKept' /\ ScansKept' /\ ScanKept'
    <2>1. None \notin owed' /\ None \notin device' BY <1>9, FileAssumption DEF TypeOK
    <2> QED BY <1>5, <1>9, <1>11, <2>1, PromisesStay DEF local, told
<1>13. ActiveKnown' /\ Unloaded' BY <1>1, <1>5 DEF Queueing, ActiveKnown, Unloaded, sending
<1> QED BY <1>1, <1>5, <1>9, <1>11, <1>12, <1>13
    DEF UploadsInv, Queueing, Promised, SessionGoesOn, PausedOnlySignedOut, signing
LEMMA RefusedKeeps == ASSUME UploadsInv, NEW a \in Answers, UploadRefused(a) PROVE UploadsInv'
<1>1. TypeOK /\ Queueing /\ SessionGoesOn /\ Promised /\ PausedOnlySignedOut BY DEF UploadsInv
<1>2. active \in Uploads /\ active.id \in Ids /\ active.item \in Items /\ active.at \in {"sending", "taken"}
      /\ active # None
    BY <1>1, UploadFields DEF UploadRefused, CanAnswer, Answers, TypeOK
<1>3. items[active.id] # None /\ items[active.id].file = active.item.file BY <1>1, <1>2 DEF Queueing, ActiveKnown
<1> DEFINE new == IF Transient(a) THEN [active.item EXCEPT !.due = FALSE] ELSE [active.item EXCEPT !.state = "failed"]
           w == [id |-> active.id, item |-> new, by |-> "save"]
<1>4. new \in Items /\ new.file = active.item.file /\ new # None BY <1>2, ItemChanged, ItemFields
<1>5. items' = [items EXCEPT ![active.id] = new] /\ writes' = Append(writes, w)
      /\ active' = [active EXCEPT !.at = "saving"]
      /\ UNCHANGED <<timer, signing, online, stored, loads, local, doc, nextId, closes, faults, told>>
    BY <1>3 DEF UploadRefused
<1> HIDE DEF new
<1>6. w \in Writes /\ w.id = active.id /\ w.item = new /\ w.by = "save" BY <1>2, <1>4 DEF Writes
<1> HIDE DEF w
<1>7. active' \in Uploads /\ active'.id = active.id /\ active'.item = active.item /\ active'.at = "saving"
      /\ active' # None
    BY <1>2, <1>5, UploadMoves, UploadFields
<1>8. items' \in [Ids -> Items \cup {None}] /\ items'[active.id] = new /\ \A i \in Ids \ {active.id} : items'[i] = items[i]
    BY <1>1, <1>2, <1>4, <1>5 DEF TypeOK
<1>9. writes' \in Seq(Writes) BY <1>1, <1>5, <1>6, Appended DEF TypeOK
<1>10. TypeOK' BY <1>1, <1>4, <1>5, <1>7, <1>8, <1>9 DEF TypeOK, signing, loads, local, told
<1>11. /\ ItemsStored' /\ WritesFit' /\ WritesOfOneItem' /\ GoneErased'
       /\ \A i \in Ids, g \in Files : Keeps(i, g) => Keeps(i, g)'
    <2>1. Same(w.item, stored[w.id])
        <3>1. stored[active.id].file = items[active.id].file BY <1>2, <1>3, ItemQuiet
        <3> QED BY <1>3, <1>4, <1>6, <3>1 DEF Same
    <2>2. ~Erases(w) /\ NotWriting(active) BY <1>2, <1>4, <1>6 DEF Erases, NotWriting
    <2>3. nextId <= nextId' /\ active.id < nextId'
        <3>1. nextId \in Nat /\ active.id < nextId BY <1>1, <1>2, <1>3, ItemQuiet, TypeFacts
        <3> QED BY <1>5, <3>1
    <2>4. active.at # "forgetting" BY <1>2
    <2>5. faults <= faults' BY <1>1, <1>5, BoundAssumption DEF TypeOK
    <2> QED BY <1>2, <1>3, <1>4, <1>5, <1>6, <1>7, <1>8, <1>10, <2>1, <2>2, <2>3, <2>4, <2>5, QueueAppends
        DEF told
<1>12. OwedKept' /\ ScansKept' /\ ScanKept'
    <2>1. None \notin owed' /\ None \notin device' BY <1>10, FileAssumption DEF TypeOK
    <2> QED BY <1>5, <1>10, <1>11, <2>1, PromisesStay DEF local, told
<1>13. ActiveKnown' BY <1>3, <1>4, <1>7, <1>8 DEF ActiveKnown
<1>14. Unloaded' BY <1>1, <1>2, <1>5 DEF Queueing, Unloaded, loads
<1> QED BY <1>1, <1>5, <1>10, <1>11, <1>12, <1>13, <1>14
    DEF UploadsInv, Queueing, Promised, SessionGoesOn, PausedOnlySignedOut, signing
\* The scan's copy is gone, or its deletion failed: the upload is forgotten next.
LEMMA ScanDeletedKeeps == ASSUME UploadsInv, ScanDeleted \/ ScanNotDeleted PROVE UploadsInv'
<1>1. TypeOK /\ Queueing /\ SessionGoesOn /\ Promised /\ PausedOnlySignedOut BY DEF UploadsInv
<1>2. active \in Uploads /\ active.id \in Ids /\ active.item \in Items /\ active.at = "deleting" /\ active # None
    BY <1>1, UploadFields DEF ScanDeleted, ScanNotDeleted, TypeOK
<1>3. items[active.id] # None /\ items[active.id].file = active.item.file /\ doc[active.item.file] # "none"
    BY <1>1, <1>2 DEF Queueing, ActiveKnown
<1> DEFINE w == Forget(active.id)
           f == active.item.file
<1>4. /\ writes' = Append(writes, w) /\ active' = [active EXCEPT !.at = "forgetting"]
      /\ UNCHANGED <<sentScans, items, reached, signing, online, timer, stored, loads, listed, doc, nextId, closes,
                     owed, scanned, gone>>
    BY FollowFacts, DoneFacts DEF ScanDeleted, ScanNotDeleted
<1>5. /\ device' \subseteq device /\ excused \subseteq excused' /\ excused' \subseteq excused \cup ({f} \cap Scans)
      /\ faults \in Nat /\ faults' \in 0..MaxFaults /\ faults <= faults'
      /\ f \in device' => f \in excused'
      /\ \A s \in device \ device' : doc[s] # "none"
    <2>1. MaxFaults \in Nat /\ faults \in 0..MaxFaults /\ faults \in Nat BY <1>1, BoundAssumption DEF TypeOK
    <2>2. CASE ScanDeleted BY <1>3, <2>1, <2>2 DEF ScanDeleted
    <2>3. CASE ScanNotDeleted BY <2>1, <2>3 DEF ScanNotDeleted
    <2> QED BY <2>2, <2>3
<1>6. w \in Writes /\ w.id = active.id /\ w.item = None /\ w.by = "forget" BY <1>2 DEF Writes, Forget
<1> HIDE DEF w
<1>7. active' \in Uploads /\ active'.id = active.id /\ active'.item = active.item /\ active'.at = "forgetting"
      /\ active' # None
    BY <1>2, <1>4, UploadMoves, UploadFields
<1>8. writes' \in Seq(Writes) BY <1>1, <1>4, <1>6, Appended DEF TypeOK
<1>9. TypeOK' BY <1>1, <1>3, <1>4, <1>5, <1>7, <1>8 DEF TypeOK, signing, loads
<1>10. /\ ItemsStored' /\ WritesFit' /\ WritesOfOneItem' /\ GoneErased'
       /\ \A i \in Ids, g \in Files : Keeps(i, g) /\ i # active.id => Keeps(i, g)'
    <2>1. Same(w.item, stored[w.id]) /\ Erases(w) BY <1>6 DEF Same, Erases
    <2>2. NotWriting(active) BY <1>2 DEF NotWriting
    <2>3. nextId <= nextId' /\ active.id < nextId'
        <3>1. nextId \in Nat /\ active.id < nextId BY <1>1, <1>2, <1>3, ItemQuiet, TypeFacts
        <3> QED BY <1>4, <3>1
    <2>4. active.at # "forgetting" BY <1>2
    <2>5. faults <= faults' /\ UNCHANGED stored BY <1>4, <1>5
    <2> QED BY <1>2, <1>3, <1>4, <1>6, <1>7, <1>9, <2>1, <2>2, <2>3, <2>4, <2>5, QueueAppends
<1>11. \A i \in Ids, g \in Files : g # f /\ Keeps(i, g) => Keeps(i, g)'
    <2>1. stored[active.id].file = f BY <1>2, <1>3, ItemQuiet
    <2>2. \A g \in Files : Keeps(active.id, g) => g = f BY <2>1 DEF Keeps
    <2> QED BY <1>10, <2>2
<1>12. OwedKept' /\ ScansKept' /\ ScanKept'
    BY <1>3, <1>4, <1>5, <1>9, <1>11, PromisesStay
<1>13. ActiveKnown' BY <1>3, <1>4, <1>7 DEF ActiveKnown
<1>14. Unloaded' BY <1>1, <1>2, <1>4 DEF Queueing, Unloaded, loads
<1> QED BY <1>1, <1>4, <1>9, <1>10, <1>12, <1>13, <1>14
    DEF UploadsInv, Queueing, Promised, SessionGoesOn, PausedOnlySignedOut, signing
LEMMA RetryKeeps == ASSUME UploadsInv, NEW i \in Ids, Retry(i) PROVE UploadsInv'
<1>1. TypeOK /\ Queueing /\ SessionGoesOn /\ Promised /\ PausedOnlySignedOut BY DEF UploadsInv
<1>2. items[i] \in Items /\ items[i] # None /\ ~(active # None /\ active.id = i)
    BY <1>1 DEF Retry, TypeOK, IsActive
<1> DEFINE new == [items[i] EXCEPT !.state = "queued", !.due = TRUE]
           w == [id |-> i, item |-> new, by |-> "retry"]
<1>3. new \in Items /\ new.file = items[i].file /\ new # None BY <1>2, ItemChanged, ItemFields
<1>4. items' = [items EXCEPT ![i] = new] /\ writes' = Append(writes, w)
      /\ UNCHANGED <<stored, loads, sending, signing, online, local, doc, nextId, closes, faults, told>>
    BY DEF Retry
<1> HIDE DEF new
<1>5. w \in Writes /\ w.id = i /\ w.item = new /\ w.by = "retry" BY <1>3 DEF Writes
<1> HIDE DEF w
<1>6. items' \in [Ids -> Items \cup {None}] /\ items'[i] = new /\ \A j \in Ids \ {i} : items'[j] = items[j]
    BY <1>1, <1>3, <1>4 DEF TypeOK
<1>7. writes' \in Seq(Writes) BY <1>1, <1>4, <1>5, Appended DEF TypeOK
<1>8. active # None => active.id \in Ids /\ items'[active.id] = items[active.id] /\ items[active.id] # None
    BY <1>1, <1>2, <1>6, UploadFields DEF TypeOK
<1>9. TypeOK' BY <1>1, <1>4, <1>6, <1>7, <1>8 DEF TypeOK, sending, signing, loads, local, told
<1>10. /\ ItemsStored' /\ WritesFit' /\ WritesOfOneItem' /\ GoneErased'
       /\ \A j \in Ids, g \in Files : Keeps(j, g) => Keeps(j, g)'
    <2>1. Same(w.item, stored[w.id])
        <3>1. stored[i].file = items[i].file BY <1>2, ItemQuiet
        <3> QED BY <1>3, <1>5, <3>1 DEF Same
    <2>2. ~Erases(w) BY <1>3, <1>5 DEF Erases
    <2>3. nextId <= nextId' /\ i < nextId'
        <3>1. nextId \in Nat /\ i < nextId BY <1>1, <1>2, ItemQuiet, TypeFacts
        <3> QED BY <1>4, <3>1
    <2>4. faults <= faults' BY <1>1, <1>4, BoundAssumption DEF TypeOK
    <2> QED BY <1>2, <1>3, <1>4, <1>5, <1>6, <1>9, <2>1, <2>2, <2>3, <2>4, QueueAppends DEF sending, told
<1>11. OwedKept' /\ ScansKept' /\ ScanKept'
    <2>1. None \notin owed' /\ None \notin device' BY <1>9, FileAssumption DEF TypeOK
    <2> QED BY <1>4, <1>9, <1>10, <2>1, PromisesStay DEF local, told
<1>12. ActiveKnown' BY <1>1, <1>4, <1>8 DEF Queueing, ActiveKnown, sending
<1>13. Unloaded' BY <1>1, <1>2, <1>4 DEF Queueing, Unloaded, loads
<1> QED BY <1>1, <1>4, <1>9, <1>10, <1>11, <1>12, <1>13
    DEF UploadsInv, Queueing, Promised, SessionGoesOn, PausedOnlySignedOut, signing
LEMMA RemoveKeeps == ASSUME UploadsInv, NEW i \in Ids, Remove(i) PROVE UploadsInv'
<1>1. TypeOK /\ Queueing /\ SessionGoesOn /\ Promised /\ PausedOnlySignedOut BY DEF UploadsInv
<1>2. items[i] \in Items /\ items[i] # None /\ ~(active # None /\ active.id = i)
    BY <1>1 DEF Remove, Removable, TypeOK, IsActive
<1> DEFINE w == [id |-> i, item |-> None, by |-> "remove"]
           f == items[i].file
<1>3. f \in Files BY <1>2, ItemFields
<1>4. /\ items' = [items EXCEPT ![i] = None] /\ writes' = Append(writes, w)
      /\ owed' = owed \ {f} /\ excused' = excused \cup ({f} \cap Scans)
      /\ reached' = reached \ {i} /\ gone' = gone \cup {i}
      /\ UNCHANGED <<stored, loads, sending, signing, online, local, doc, nextId, closes, faults, scanned>>
    BY DEF Remove
<1>5. w \in Writes /\ w.id = i /\ w.item = None /\ w.by = "remove" BY DEF Writes
<1> HIDE DEF w
<1>6. items' \in [Ids -> Items \cup {None}] /\ items'[i] = None /\ \A j \in Ids \ {i} : items'[j] = items[j]
    BY <1>1, <1>4 DEF TypeOK
<1>7. writes' \in Seq(Writes) BY <1>1, <1>4, <1>5, Appended DEF TypeOK
<1>8. active # None => active.id \in Ids /\ items'[active.id] = items[active.id] /\ items[active.id] # None
    BY <1>1, <1>2, <1>6, UploadFields DEF TypeOK
<1>9. TypeOK' BY <1>1, <1>4, <1>6, <1>7, <1>8 DEF TypeOK, sending, signing, loads, local
<1>10. /\ ItemsStored' /\ WritesFit' /\ WritesOfOneItem' /\ GoneErased'
       /\ \A j \in Ids, g \in Files : Keeps(j, g) /\ j # i => Keeps(j, g)'
    <2>1. Same(w.item, stored[w.id]) /\ Erases(w) BY <1>5 DEF Same, Erases
    <2>2. nextId <= nextId' /\ i < nextId'
        <3>1. nextId \in Nat /\ i < nextId BY <1>1, <1>2, ItemQuiet, TypeFacts
        <3> QED BY <1>4, <3>1
    <2>3. faults <= faults' BY <1>1, <1>4, BoundAssumption DEF TypeOK
    <2> QED BY <1>2, <1>4, <1>5, <1>6, <1>9, <2>1, <2>2, <2>3, QueueAppends DEF sending
<1>11. \A j \in Ids, g \in Files : g # f /\ Keeps(j, g) => Keeps(j, g)'
    <2>1. stored[i].file = f BY <1>2, ItemQuiet
    <2>2. \A g \in Files : Keeps(i, g) => g = f BY <2>1 DEF Keeps
    <2> QED BY <1>10, <2>2
<1>12. OwedKept' /\ ScansKept' /\ ScanKept'
    <2>1. f \in device' => f \in excused' BY <1>1, <1>4 DEF TypeOK, local
    <2> QED BY <1>4, <1>9, <1>11, <2>1, PromisesStay DEF local
<1>13. ActiveKnown' BY <1>1, <1>4, <1>8 DEF Queueing, ActiveKnown, sending
<1>14. Unloaded' BY <1>1, <1>2, <1>4 DEF Queueing, Unloaded, loads
<1> QED BY <1>1, <1>4, <1>9, <1>10, <1>12, <1>13, <1>14
    DEF UploadsInv, Queueing, Promised, SessionGoesOn, PausedOnlySignedOut, signing

-----------------------------------------------------------------------------
(* The actions of a write's end.                                           *)

LEMMA CommitTypes ==
    ASSUME TypeOK, NEW ok \in BOOLEAN, writes # <<>>, writes' = Tail(writes),
           IF ok THEN stored' = Committed(stored, Head(writes)) /\ UNCHANGED faults
                 ELSE UNCHANGED stored /\ faults < MaxFaults /\ faults' = faults + 1
    PROVE  /\ Head(writes) \in Writes /\ writes[1] = Head(writes) /\ 1 \in Places
           /\ writes' \in Seq(Writes)
           /\ stored' \in [Ids -> Items \cup {None}]
           /\ stored' = IF ok THEN [stored EXCEPT ![Head(writes).id] = Head(writes).item] ELSE stored
           /\ faults \in Nat /\ faults' \in 0..MaxFaults /\ faults <= faults' /\ (~ok => faults' > 0)
<1>1. /\ Head(writes) \in Writes /\ writes[1] = Head(writes) /\ 1 \in Places /\ writes' \in Seq(Writes)
    BY Headless DEF TypeOK, Places
<1>2. PICK w : w = Head(writes) OBVIOUS
<1>3. w.id \in Ids /\ w.item \in Items \cup {None} BY <1>1, <1>2, WriteFields
<1>4. stored' = IF ok THEN [stored EXCEPT ![w.id] = w.item] ELSE stored BY <1>2 DEF Committed
<1>5. stored' \in [Ids -> Items \cup {None}] BY <1>3, <1>4 DEF TypeOK
<1>6. MaxFaults \in Nat /\ faults \in 0..MaxFaults BY BoundAssumption DEF TypeOK
<1>7. faults \in Nat /\ faults' \in 0..MaxFaults /\ faults <= faults' /\ (~ok => faults' > 0) BY <1>6
<1> QED BY <1>1, <1>2, <1>4, <1>5, <1>7

LEMMA AddWrittenKeeps == ASSUME UploadsInv, NEW ok \in BOOLEAN, AddWritten(ok) PROVE UploadsInv'
<1>1. TypeOK /\ Queueing /\ SessionGoesOn /\ Promised /\ PausedOnlySignedOut BY DEF UploadsInv
<1>2. PICK w : w = Head(writes) OBVIOUS
<1>3. /\ w \in Writes /\ writes[1] = w /\ 1 \in Places /\ writes' \in Seq(Writes)
      /\ stored' \in [Ids -> Items \cup {None}]
      /\ stored' = IF ok THEN [stored EXCEPT ![w.id] = w.item] ELSE stored
      /\ faults \in Nat /\ faults' \in 0..MaxFaults /\ faults <= faults' /\ (~ok => faults' > 0)
    BY <1>1, <1>2, CommitTypes DEF AddWritten, Written
<1>4. /\ writes # <<>> /\ w.by = "add" /\ writes' = Tail(writes)
      /\ items' = IF ok THEN [items EXCEPT ![w.id] = w.item] ELSE items
      /\ owed' = IF ok THEN owed \cup {w.item.file} ELSE owed
      /\ coming' = [coming EXCEPT ![w.item.file] = "no"]
      /\ UNCHANGED <<signing, online>> /\ Kick(active)
      /\ UNCHANGED <<loading, startWaits, local, doc, nextId, closes, scanned, reached, gone, excused>>
    BY <1>2 DEF AddWritten, Written, Committed
<1>5. w.id \in Ids /\ w.item \in Items /\ w.item.file \in Files /\ items[w.id] = None
    BY <1>1, <1>3, <1>4, WriteFields, ItemFields DEF Queueing, WritesFit, Erases
<1>6. /\ items' \in [Ids -> Items \cup {None}] /\ \A i \in Ids \ {w.id} : items'[i] = items[i]
      /\ items'[w.id] = IF ok THEN w.item ELSE items[w.id]
    BY <1>1, <1>4, <1>5 DEF TypeOK
<1>7. coming' \in [Files -> {"no", "building", "ready", "putting"}] /\ owed' \subseteq Files
    BY <1>1, <1>4, <1>5 DEF TypeOK
<1>8. /\ active' \in Uploads \cup {None} /\ timer' \in BOOLEAN
      /\ \/ active' = active
         \/ /\ active = None /\ active' # None /\ active'.at = "sending"
            /\ active'.id \in Ids /\ items'[active'.id] # None /\ active'.item = items'[active'.id]
    BY <1>1, <1>4, <1>6, KickFacts DEF TypeOK, SessionGoesOn, signing
<1>9. ActiveKnown'
    <2>1. CASE active' = active
        <3>1. active # None => active.id \in Ids /\ items'[active.id] = items[active.id]
            BY <1>1, <1>5, <1>6, UploadFields DEF TypeOK
        <3> QED BY <1>1, <1>4, <2>1, <3>1 DEF Queueing, ActiveKnown
    <2>2. CASE active' # active BY <1>8, <2>2 DEF ActiveKnown
    <2> QED BY <2>1, <2>2
<1>10. TypeOK'
    <2>1. active' # None => items'[active'.id] # None BY <1>9 DEF ActiveKnown
    <2> QED BY <1>1, <1>3, <1>4, <1>6, <1>7, <1>8, <2>1 DEF TypeOK, signing, local
<1>11. /\ ItemsStored' /\ WritesFit' /\ WritesOfOneItem' /\ GoneErased'
       /\ \A i \in Ids, f \in Files : Keeps(i, f) => Keeps(i, f)'
       /\ ok => Keeps(w.id, w.item.file)'
    <2>1. active' = active \/ NotWriting(active) BY <1>8 DEF NotWriting
    <2> QED BY <1>2, <1>3, <1>4, <1>6, <1>10, <2>1, QueueCommits
<1>12. OwedKept' /\ ScansKept' /\ ScanKept'
    <2>1. None \notin owed' /\ None \notin device' BY <1>10, FileAssumption DEF TypeOK
    <2>2. ok => KeptFor(w.item.file)' BY <1>5, <1>11 DEF KeptFor
    <2>3. \A f \in owed' : f \in owed \/ KeptFor(f)' BY <1>4, <2>2
    <2> QED BY <1>4, <1>10, <1>11, <2>1, <2>3, PromisesStay DEF local
<1>13. Unloaded' BY <1>1, <1>4 DEF Queueing, Unloaded
<1> QED BY <1>1, <1>4, <1>9, <1>10, <1>11, <1>12, <1>13
    DEF UploadsInv, Queueing, Promised, SessionGoesOn, PausedOnlySignedOut, signing

\* The other writes that leave memory as it is: a retry and a refusal may begin an upload.
LEMMA WrittenKeeps ==
    ASSUME UploadsInv, NEW ok \in BOOLEAN, RetryWritten(ok) \/ RemoveWritten(ok) \/ SaveWritten(ok)
    PROVE  UploadsInv'
<1>1. TypeOK /\ Queueing /\ SessionGoesOn /\ Promised /\ PausedOnlySignedOut BY DEF UploadsInv
<1>2. PICK w : w = Head(writes) OBVIOUS
<1>3. /\ w \in Writes /\ writes[1] = w /\ 1 \in Places /\ writes' \in Seq(Writes)
      /\ stored' \in [Ids -> Items \cup {None}]
      /\ stored' = IF ok THEN [stored EXCEPT ![w.id] = w.item] ELSE stored
      /\ faults \in Nat /\ faults' \in 0..MaxFaults /\ faults <= faults' /\ (~ok => faults' > 0)
    BY <1>1, <1>2, CommitTypes DEF RetryWritten, RemoveWritten, SaveWritten, Written
<1>4. /\ writes # <<>> /\ w.by \in {"retry", "remove", "save"} /\ writes' = Tail(writes)
      /\ UNCHANGED <<items, loads, signing, online, local, doc, nextId, closes, told>>
    BY <1>2 DEF RetryWritten, RemoveWritten, SaveWritten, Written
<1>5. Kick(active) \/ UNCHANGED sending \/ (w.by = "save" /\ Kick(None))
    BY <1>2 DEF RetryWritten, RemoveWritten, SaveWritten, Written
<1>6. w.id \in Ids BY <1>3, WriteFields
<1>7. /\ active' \in Uploads \cup {None} /\ timer' \in BOOLEAN
      /\ \/ active' = active
         \/ (active = None \/ w.by = "save") /\ active' = None
         \/ /\ active = None \/ w.by = "save"
            /\ active' # None /\ active'.at = "sending"
            /\ active'.id \in Ids /\ items'[active'.id] # None /\ active'.item = items'[active'.id]
    <2>1. /\ active \in Uploads \cup {None} /\ None \in Uploads \cup {None} /\ items' \in [Ids -> Items \cup {None}]
          /\ timer \in BOOLEAN /\ online' \in BOOLEAN /\ session' \in 0..MaxSessions /\ (running' => session' # 0)
        BY <1>1, <1>4 DEF TypeOK, SessionGoesOn, signing
    <2>2. CASE Kick(active) BY <2>1, <2>2, KickFacts
    <2>3. CASE UNCHANGED sending BY <2>1, <2>3 DEF sending
    <2>4. CASE w.by = "save" /\ Kick(None)
        <3>1. /\ active' \in Uploads \cup {None} /\ timer' \in BOOLEAN
              /\ \/ active' = None
                 \/ /\ active' # None /\ active'.at = "sending"
                    /\ active'.id \in Ids /\ items'[active'.id] # None /\ active'.item = items'[active'.id]
            BY <2>1, <2>4, KickFacts
        <3> QED BY <2>4, <3>1
    <2> QED BY <1>5, <2>2, <2>3, <2>4
<1>8. ActiveKnown' BY <1>1, <1>4, <1>7 DEF Queueing, ActiveKnown
<1>9. TypeOK'
    <2>1. active' # None => items'[active'.id] # None BY <1>8 DEF ActiveKnown
    <2> QED BY <1>1, <1>3, <1>4, <1>7, <2>1 DEF TypeOK, signing, local, loads, told
<1>10. /\ ItemsStored' /\ WritesFit' /\ WritesOfOneItem' /\ GoneErased'
       /\ \A i \in Ids, f \in Files : Keeps(i, f) => Keeps(i, f)'
    <2>1. w.by # "save" => active' = active \/ NotWriting(active) BY <1>7 DEF NotWriting
    <2> QED BY <1>2, <1>3, <1>4, <1>9, <2>1, QueueCommits DEF told
<1>11. OwedKept' /\ ScansKept' /\ ScanKept'
    <2>1. None \notin owed' /\ None \notin device' BY <1>9, FileAssumption DEF TypeOK
    <2> QED BY <1>4, <1>9, <1>10, <2>1, PromisesStay DEF local, told
<1>12. Unloaded' BY <1>1, <1>4 DEF Queueing, Unloaded, loads
<1> QED BY <1>1, <1>4, <1>8, <1>9, <1>10, <1>11, <1>12
    DEF UploadsInv, Queueing, Promised, SessionGoesOn, PausedOnlySignedOut, signing

\* The upload is forgotten, in memory whatever the store says.
LEMMA ForgottenKeeps == ASSUME UploadsInv, NEW ok \in BOOLEAN, Forgotten(ok) PROVE UploadsInv'
<1>1. TypeOK /\ Queueing /\ SessionGoesOn /\ Promised /\ PausedOnlySignedOut BY DEF UploadsInv
<1>2. PICK w : w = Head(writes) OBVIOUS
<1>3. /\ writes # <<>> /\ w.by = "forget"
      /\ IF ok THEN stored' = Committed(stored, Head(writes)) /\ UNCHANGED faults
               ELSE UNCHANGED stored /\ faults < MaxFaults /\ faults' = faults + 1
      /\ UNCHANGED <<loads, device, listed, doc, nextId, closes, owed, scanned, gone, excused>>
    BY <1>2 DEF Forgotten
<1>4. /\ sentScans' = sentScans \cup ({active.item.file} \cap Scans)
      /\ items' = [items EXCEPT ![active.id] = None] /\ reached' = reached \ {active.id}
      /\ writes' = Tail(writes) /\ UNCHANGED <<signing, online>> /\ Kick(None)
    BY FollowFacts, DoneFacts DEF Forgotten
<1>5. /\ w \in Writes /\ writes[1] = w /\ 1 \in Places /\ writes' \in Seq(Writes)
      /\ stored' \in [Ids -> Items \cup {None}]
      /\ stored' = IF ok THEN [stored EXCEPT ![w.id] = w.item] ELSE stored
      /\ faults \in Nat /\ faults' \in 0..MaxFaults /\ faults <= faults' /\ (~ok => faults' > 0)
    BY <1>1, <1>2, <1>3, <1>4, CommitTypes
<1>6. w.id \in Ids /\ active # None /\ active.id = w.id
    BY <1>1, <1>3, <1>5, WriteFields DEF Queueing, WritesFit
<1>7. items' \in [Ids -> Items \cup {None}] /\ items'[w.id] = None /\ \A i \in Ids \ {w.id} : items'[i] = items[i]
    BY <1>1, <1>4, <1>6 DEF TypeOK
<1>8. /\ active' \in Uploads \cup {None} /\ timer' \in BOOLEAN
      /\ \/ active' = None
         \/ /\ active' # None /\ active'.at = "sending"
            /\ active'.id \in Ids /\ items'[active'.id] # None /\ active'.item = items'[active'.id]
    BY <1>1, <1>4, <1>7, KickFacts DEF TypeOK, SessionGoesOn, signing
<1>9. ActiveKnown' BY <1>8 DEF ActiveKnown
<1>10. TypeOK'
    <2>1. active' # None => items'[active'.id] # None BY <1>9 DEF ActiveKnown
    <2>2. sentScans' \subseteq Scans /\ reached' \subseteq Ids BY <1>1, <1>4 DEF TypeOK
    <2> QED BY <1>1, <1>3, <1>4, <1>5, <1>7, <1>8, <2>1, <2>2 DEF TypeOK, signing, loads
<1>11. /\ ItemsStored' /\ WritesFit' /\ WritesOfOneItem' /\ GoneErased'
       /\ \A i \in Ids, f \in Files : Keeps(i, f) => Keeps(i, f)'
    BY <1>2, <1>3, <1>4, <1>5, <1>7, <1>10, QueueCommits
<1>12. OwedKept' /\ ScansKept' /\ ScanKept'
    <2>1. None \notin owed' /\ None \notin device' BY <1>10, FileAssumption DEF TypeOK
    <2> QED BY <1>3, <1>10, <1>11, <2>1, PromisesStay
<1>13. Unloaded' BY <1>1, <1>3, <1>6 DEF Queueing, Unloaded, loads
<1> QED BY <1>1, <1>3, <1>4, <1>9, <1>10, <1>11, <1>12, <1>13
    DEF UploadsInv, Queueing, Promised, SessionGoesOn, PausedOnlySignedOut, signing

-----------------------------------------------------------------------------
(* The page is opened, and closed.                                         *)

LEMMA LoadDoneKeeps == ASSUME UploadsInv, LoadDone PROVE UploadsInv'
<1>1. TypeOK /\ Queueing /\ SessionGoesOn /\ Promised /\ ScanKept /\ PausedOnlySignedOut BY DEF UploadsInv
<1>2. loading = "reading" /\ loading' = "done" /\ startWaits' = FALSE
      /\ UNCHANGED <<signing, online, stored, writes, coming, local, doc, nextId, closes, faults, told>>
      /\ (Kick(active) \/ UNCHANGED sending)
    BY DEF LoadDone
<1>3. writes = <<>> /\ active = None /\ gone = {} /\ \A i \in Ids : items[i] = None
    BY <1>1, <1>2 DEF Queueing, Unloaded
<1>4. items' \in [Ids -> Items \cup {None}] /\ \A i \in Ids : items'[i] = stored[i]
    BY <1>1, <1>3 DEF LoadDone, TypeOK
<1>5. /\ active' \in Uploads \cup {None} /\ timer' \in BOOLEAN
      /\ \/ active' = None
         \/ /\ active' # None /\ active'.at = "sending"
            /\ active'.id \in Ids /\ items'[active'.id] # None /\ active'.item = items'[active'.id]
    <2>1. CASE Kick(active) BY <1>1, <1>2, <1>3, <1>4, <2>1, KickFacts DEF TypeOK, SessionGoesOn, signing
    <2>2. CASE UNCHANGED sending BY <1>1, <1>3, <2>2 DEF TypeOK, sending
    <2> QED BY <1>2, <2>1, <2>2
<1>6. ActiveKnown' BY <1>5 DEF ActiveKnown
<1>7. TypeOK'
    <2>1. active' # None => items'[active'.id] # None BY <1>6 DEF ActiveKnown
    <2> QED BY <1>1, <1>2, <1>4, <1>5, <2>1 DEF TypeOK, signing, local, told
<1>8. Places = {} /\ Places' = {} BY <1>2, <1>3 DEF Places
<1>9. WritesFit' /\ WritesOfOneItem' BY <1>8 DEF WritesFit, WritesOfOneItem
<1>10. ItemsStored' BY <1>1, <1>2, <1>4 DEF Queueing, ItemsStored, Same
<1>11. GoneErased' BY <1>2, <1>3 DEF GoneErased, told
<1>12. OwedKept' /\ ScansKept'
    <2>1. \A f : KeptFor(f) <=> KeptFor(f)' BY <1>2, <1>8 DEF KeptFor, Keeps
    <2> QED BY <1>1, <1>2, <2>1 DEF Promised, OwedKept, ScansKept, local, told
<1> QED BY <1>1, <1>2, <1>6, <1>7, <1>9, <1>10, <1>11, <1>12
    DEF UploadsInv, Queueing, Promised, Unloaded, SessionGoesOn, PausedOnlySignedOut, ScanKept, signing, local, told

\* What the store holds of an item after a close: what it held, or one of its writes.
LEMMA CloseStores ==
    ASSUME TypeOK, Close
    PROVE  \A i \in Ids : \/ stored'[i] = stored[i]
                          \/ \E k \in Places : writes[k].id = i /\ stored'[i] = writes[k].item
<1>1. PICK n \in 0..Len(writes) :
          stored' = [i \in Ids |->
              LET own == {k \in 1..n : writes[k].id = i}
              IN  IF own = {} THEN stored[i] ELSE writes[CHOOSE k \in own : \A j \in own : j <= k].item]
    BY DEF Close
<1>2. ASSUME NEW i \in Ids
      PROVE  \/ stored'[i] = stored[i]
             \/ \E k \in Places : writes[k].id = i /\ stored'[i] = writes[k].item
    <2> DEFINE own == {k \in 1..n : writes[k].id = i}
    <2>1. stored'[i] = IF own = {} THEN stored[i] ELSE writes[CHOOSE k \in own : \A j \in own : j <= k].item
        BY <1>1
    <2>2. n \in Nat /\ own \subseteq 0..n /\ \A k \in own : k \in Places /\ writes[k].id = i
        BY DEF Places, TypeOK
    <2> HIDE DEF own
    <2>3. ASSUME own # {} PROVE (CHOOSE k \in own : \A j \in own : j <= k) \in own
        <3>1. \E k \in own : \A j \in own : j <= k BY <2>2, <2>3, GreatestOf
        <3> QED BY <3>1
    <2> QED BY <2>1, <2>2, <2>3
<1> QED BY <1>2
LEMMA CloseKeeps == ASSUME UploadsInv, Close PROVE UploadsInv'
<1>1. TypeOK /\ Queueing /\ SessionGoesOn /\ Promised /\ ScanKept /\ PausedOnlySignedOut BY DEF UploadsInv
<1>2. \A i \in Ids : \/ stored'[i] = stored[i]
                     \/ \E k \in Places : writes[k].id = i /\ stored'[i] = writes[k].item
    BY <1>1, CloseStores
<1>3. /\ items' = [i \in Ids |-> None] /\ writes' = <<>>
      /\ loading' = "no" /\ startWaits' = FALSE /\ coming' = [f \in Files |-> "no"]
      /\ sentScans' = {} /\ listed' = {} /\ active' = None /\ timer' = FALSE
      /\ running' = FALSE /\ paused' = FALSE /\ gone' = {}
      /\ UNCHANGED <<session, online, device, signedIn, nextId, faults, owed, scanned, excused>>
    BY DEF Close
<1>4. \A k \in Places : writes[k] \in Writes /\ writes[k].id \in Ids /\ writes[k].item \in Items \cup {None}
    BY <1>1, TypeFacts, WriteFields
<1>5. stored' \in [Ids -> Items \cup {None}]
    <2>1. \A i \in Ids : stored'[i] \in Items \cup {None} BY <1>1, <1>2, <1>4 DEF TypeOK
    <2>2. \E s : stored' = [i \in Ids |-> s[i]]
        <3>1. \E n \in 0..Len(writes) :
                  stored' = [i \in Ids |->
                      LET own == {k \in 1..n : writes[k].id = i}
                      IN  IF own = {} THEN stored[i] ELSE writes[CHOOSE k \in own : \A j \in own : j <= k].item]
            BY DEF Close
        <3>2. stored' = [i \in Ids |-> stored'[i]] BY <3>1
        <3> QED BY <3>2
    <2> QED BY <2>1, <2>2
<1>6. /\ closes' \in 0..MaxCloses
      /\ doc' \in [Files -> {"none", "kept", "discarded"}] /\ reached' \subseteq Ids
      /\ \A f \in Files : doc[f] # "none" => doc'[f] # "none"
      /\ \A f \in Files : doc[f] = "none" /\ doc'[f] # "none" => KeptFor(f)
    <2>1. closes' \in 0..MaxCloses BY <1>1, BoundAssumption DEF Close, TypeOK
    <2>2. CASE UNCHANGED <<doc, reached>> BY <1>1, <2>1, <2>2 DEF TypeOK
    <2>3. CASE ~UNCHANGED <<doc, reached>>
        <3>1. active # None /\ active.at = "sending" /\ doc' = [doc EXCEPT ![active.item.file] = "kept"]
              /\ reached' = reached \cup {active.id}
            BY <2>3 DEF Close
        <3>2. active.id \in Ids /\ active.item.file \in Files BY <1>1, <3>1, UploadFields, ItemFields DEF TypeOK
        <3>3. items[active.id] # None /\ items[active.id].file = active.item.file
            BY <1>1, <3>1 DEF Queueing, ActiveKnown
        <3>4. KeptFor(active.item.file) BY <3>1, <3>2, <3>3, ItemQuiet DEF KeptFor
        <3>5. doc' \in [Files -> {"none", "kept", "discarded"}] /\ reached' \subseteq Ids
              /\ doc'[active.item.file] = "kept" /\ \A f \in Files \ {active.item.file} : doc'[f] = doc[f]
            BY <1>1, <3>1, <3>2 DEF TypeOK
        <3> QED BY <2>1, <3>4, <3>5
    <2> QED BY <2>2, <2>3
<1>7. TypeOK'
    <2>1. writes' \in Seq(Writes) BY <1>3
    <2>2. items' \in [Ids -> Items \cup {None}] BY <1>3
    <2>3. coming' \in [Files -> {"no", "building", "ready", "putting"}] BY <1>3
    <2> QED BY <1>1, <1>3, <1>5, <1>6, <2>1, <2>2, <2>3 DEF TypeOK
<1>8. Places' = {} BY <1>3 DEF Places
<1>9. ItemsStored'
    <2>1. nextId \in Nat /\ \A i \in Ids : i \in Nat BY <1>1, TypeFacts DEF Ids
    <2>2. \A k \in Places : writes[k].id < nextId BY <1>1 DEF Queueing, WritesFit
    <2>3. ASSUME NEW i \in Ids, i >= nextId' PROVE stored'[i] = None
        BY <1>1, <1>2, <1>3, <2>1, <2>2, <2>3 DEF Queueing, ItemsStored
    <2>4. \A i \in Ids : items'[i] = None BY <1>3
    <2> QED BY <2>3, <2>4 DEF ItemsStored, Same
<1>10. WritesFit' /\ WritesOfOneItem' BY <1>8 DEF WritesFit, WritesOfOneItem
<1>11. ActiveKnown' /\ Unloaded' /\ SessionGoesOn' /\ PausedOnlySignedOut' /\ GoneErased'
    BY <1>3 DEF ActiveKnown, Unloaded, SessionGoesOn, PausedOnlySignedOut, GoneErased
<1>12. ASSUME NEW f \in Files, KeptFor(f) PROVE KeptFor(f)'
    <2>1. PICK i \in Ids : Keeps(i, f) BY <1>12 DEF KeptFor
    <2>2. /\ stored[i] # None /\ stored[i].file = f
          /\ \A k \in Places : writes[k].id = i => ~Erases(writes[k])
        BY <2>1 DEF Keeps
    <2>3. \A k \in Places : writes[k].id = i => Same(writes[k].item, stored[i]) BY <1>1 DEF Queueing, WritesFit
    <2>4. stored'[i] # None /\ stored'[i].file = f BY <1>2, <2>2, <2>3 DEF Same, Erases
    <2>5. Keeps(i, f)' BY <1>8, <2>4 DEF Keeps
    <2> QED BY <2>5 DEF KeptFor
<1>13. OwedKept'
    <2>1. \A f \in owed : f \in Files BY <1>1 DEF TypeOK
    <2>2. ASSUME NEW f \in owed' PROVE doc'[f] # "none" \/ KeptFor(f)'
        BY <1>1, <1>3, <1>6, <1>12, <2>1 DEF Promised, OwedKept
    <2> QED BY <2>2 DEF OwedKept
<1>14. ScansKept'
    <2>1. ASSUME NEW s \in device', doc'[s] # "none" PROVE KeptFor(s)' \/ s \in excused'
        <3>1. s \in Files BY <1>7, FileAssumption DEF TypeOK
        <3>2. CASE doc[s] # "none" BY <1>1, <1>3, <1>12, <3>1, <3>2 DEF Promised, ScansKept
        <3>3. CASE doc[s] = "none" BY <1>6, <1>12, <2>1, <3>1, <3>3
        <3> QED BY <3>2, <3>3
    <2> QED BY <2>1 DEF ScansKept
<1>15. ScanKept' BY <1>1, <1>3, <1>6, FileAssumption DEF ScanKept, TypeOK
<1> QED BY <1>7, <1>9, <1>10, <1>11, <1>13, <1>14, <1>15 DEF UploadsInv, Queueing, Promised

-----------------------------------------------------------------------------
(* The invariant holds, and what it gives.                                 *)

LEMMA UploadsStart == ASSUME Init PROVE UploadsInv
<1>1. nextId \in 1..(MaxItems + 1) /\ session \in 0..MaxSessions /\ closes \in 0..MaxCloses /\ faults \in 0..MaxFaults
    BY BoundAssumption DEF Init
<1>2. writes \in Seq(Writes) /\ Places = {} BY DEF Init, Places
<1>3. TypeOK BY <1>1, <1>2, FileAssumption DEF Init, TypeOK
<1>4. Queueing
    BY <1>2 DEF Init, Queueing, ItemsStored, Same, WritesFit, WritesOfOneItem, ActiveKnown, Unloaded
<1>5. SessionGoesOn /\ PausedOnlySignedOut BY DEF Init, SessionGoesOn, PausedOnlySignedOut
<1>6. ScanKept /\ Promised
    BY FileAssumption DEF Init, ScanKept, Promised, OwedKept, ScansKept, GoneErased
<1> QED BY <1>3, <1>4, <1>5, <1>6 DEF UploadsInv
LEMMA UploadsStep == ASSUME UploadsInv, [Next]_vars PROVE UploadsInv'
<1>1. CASE User
    BY <1>1, AddsKeep, SignedOutKeeps, DeviceKeeps, RetryKeeps, RemoveKeeps, StartKeeps DEF User
<1>2. CASE World BY <1>2, TakenKeeps, SignedOutKeeps, ConnectionKeeps, CloseKeeps, DeviceKeeps DEF World
<1>3. CASE Timers BY <1>3, TimersKeep DEF Timers
<1>4. CASE Adds BY <1>4, AddsKeep, AddPutsKeeps DEF Adds
<1>5. CASE Answer BY <1>5, AcceptedKeeps, RefusedKeeps, UnauthorizedKeeps DEF Answer
<1>6. CASE Storage BY <1>6, AddWrittenKeeps, WrittenKeeps, ForgottenKeeps DEF Storage
<1>7. CASE LoadAnswers BY <1>7, LoadDoneKeeps, LoadFailsKeeps DEF LoadAnswers
<1>8. CASE DeleteAnswers BY <1>8, ScanDeletedKeeps DEF DeleteAnswers
<1>9. CASE UNCHANGED vars
    <2>1. UNCHANGED <<items, stored, writes, loading, startWaits, coming, sentScans, active, timer, running,
             paused, session, online, device, listed, signedIn, doc, nextId, closes, faults,
             owed, scanned, reached, gone, excused>>
        BY <1>9 DEF vars
    <2>2. TypeOK /\ ScanKept BY DEF UploadsInv
    <2>3. TypeOK' BY <2>1, <2>2 DEF TypeOK
    <2>4. faults <= faults' BY <2>1, <2>2, BoundAssumption DEF TypeOK
    <2> QED BY <2>1, <2>2, <2>3, <2>4, QueueRests DEF ScanKept
<1> QED BY <1>1, <1>2, <1>3, <1>4, <1>5, <1>6, <1>7, <1>8, <1>9 DEF Next
LEMMA UploadsAlways == Spec => []UploadsInv
<1>1. Init => UploadsInv BY UploadsStart
<1>2. UploadsInv /\ [Next]_vars => UploadsInv' BY UploadsStep
<1> QED BY <1>1, <1>2, PTL DEF Spec

\* A file whose add() succeeded, and which its owner did not remove, is stored on
\* the device until the server has it: through closes that lose the last writes,
\* failed writes and deletes, lost and foreign answers, retries and sign-outs.
THEOREM NothingIsLost == Spec => []NothingLost
<1>1. UploadsInv => NothingLost
    BY DEF UploadsInv, Promised, OwedKept, KeptFor, Keeps, NothingLost, Holds
<1> QED BY <1>1, UploadsAlways, PTL

\* A finished scan leaves the device only when the server has its file.
THEOREM ScansAreKept == Spec => []ScanKept
<1>1. UploadsInv => ScanKept BY DEF UploadsInv
<1> QED BY <1>1, UploadsAlways, PTL

\* While the copy of a scan that the server has is on the device, so is the upload
\* whose end deletes it: accepted() deletes the copy before it forgets the upload,
\* and a close between the two leaves the upload to be sent again.
THEOREM CopyGoesWithUpload == Spec => []CrashLeavesUpload
<1>1. UploadsInv => CrashLeavesUpload
    BY DEF UploadsInv, Promised, ScansKept, KeptFor, Keeps, CrashLeavesUpload, Holds
<1> QED BY <1>1, UploadsAlways, PTL

\* An item its owner removed is not sent, not shown, and not stored again: no write
\* that was on its way, and no refusal recorded later, brings it back.
THEOREM RemovedIsGone == Spec => []RemovedStaysAway
<1>1. UploadsInv => RemovedStaysAway
    <2> SUFFICES ASSUME UploadsInv, NEW i \in gone
                 PROVE  /\ items[i] = None /\ ~IsActive(i)
                        /\ stored[i] # None =>
                              faults > 0 \/ \E k \in 1..Len(writes) : writes[k].id = i /\ writes[k].item = None
        BY DEF RemovedStaysAway
    <2>1. items[i] = None BY DEF UploadsInv, Promised, GoneErased
    <2>2. ~IsActive(i) BY <2>1 DEF UploadsInv, Queueing, ActiveKnown, IsActive
    <2>3. stored[i] # None => faults > 0 \/ \E k \in Places : writes[k].id = i /\ Erases(writes[k])
        BY DEF UploadsInv, Promised, GoneErased
    <2> QED BY <2>1, <2>2, <2>3 DEF Places, Erases
<1> QED BY <1>1, UploadsAlways, PTL

\* The queue is paused while it runs only when the server has ended this browser's
\* session: a 401 for a request of an earlier session does not stop the new one.
THEOREM PauseMeansSignedOut == Spec => []PausedOnlySignedOut
<1>1. UploadsInv => PausedOnlySignedOut BY DEF UploadsInv
<1> QED BY <1>1, UploadsAlways, PTL
=============================================================================
