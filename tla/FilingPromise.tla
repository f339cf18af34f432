---------------------------- MODULE FilingPromise ----------------------------
(***************************************************************************)
(* What the document pipeline promises of every document, without stages,  *)
(* sessions, crashes or retries: Drive stores a file only after the        *)
(* document's row has noted that it may, at most once for one decision;    *)
(* the note stays; and a document is marked filed only when Drive has it.  *)
(* DocumentPipeline implements it (KeepsPromise there).                    *)
(***************************************************************************)
EXTENDS Naturals

CONSTANT Docs   \* document ids

VARIABLES
    phase,   \* of each document: "none", "open" (kept on the server), "filed" or "gone"
    noted,   \* the row says that Drive may hold it, or no longer has to
    stored,  \* files that Drive stored since the last decision, or since lost bytes were sent again
    held     \* Drive holds a copy

promise == <<phase, noted, stored, held>>

Init ==
    /\ phase = [d \in Docs |-> "none"] /\ noted = [d \in Docs |-> FALSE]
    /\ stored = [d \in Docs |-> 0] /\ held = [d \in Docs |-> FALSE]

\* The server takes a document, from a browser.
Take(d) == phase[d] = "none" /\ phase' = [phase EXCEPT ![d] = "open"] /\ UNCHANGED <<noted, stored, held>>
\* The user or the pipeline decides where it goes, or the user sends its lost bytes again.
Decide(d) == phase[d] = "open" /\ stored' = [stored EXCEPT ![d] = 0] /\ UNCHANGED <<phase, noted, held>>
\* The row notes the upload, before it.
Note(d) == phase[d] = "open" /\ noted' = [noted EXCEPT ![d] = TRUE] /\ UNCHANGED <<phase, stored, held>>
\* An upload under way may end after its row was quarantined, discarded and deleted.
Store(d) ==
    /\ noted[d] /\ stored[d] = 0
    /\ stored' = [stored EXCEPT ![d] = 1] /\ held' = [held EXCEPT ![d] = TRUE]
    /\ UNCHANGED <<phase, noted>>
File(d) ==
    /\ phase[d] = "open" /\ held[d]
    /\ phase' = [phase EXCEPT ![d] = "filed"] /\ UNCHANGED <<noted, stored, held>>
\* A discarded document is deleted; what its row noted goes with it.
Delete(d) ==
    /\ phase[d] = "open" /\ phase' = [phase EXCEPT ![d] = "gone"] /\ noted' = [noted EXCEPT ![d] = TRUE]
    /\ UNCHANGED <<stored, held>>

Next == \E d \in Docs : Take(d) \/ Decide(d) \/ Note(d) \/ Store(d) \/ File(d) \/ Delete(d)
Spec == Init /\ [][Next]_promise
=============================================================================
