------------------------- MODULE MCDocumentPipeline -------------------------
(* Small instances of DocumentPipeline for TLC.                            *)
EXTENDS DocumentPipeline, TLC
CONSTANTS f, p, q

\* One folder that stays where it is; or one that a walk may find moved from p to q.
OneTree  == {[x \in {f} |-> p]}
TwoTrees == {[x \in {f} |-> p], [x \in {f} |-> q]}

\* Auto-filing on, with nothing excluded, or with path q on the never-file-here list.
OnlyOn      == {[autoFile |-> TRUE, excluded |-> {}]}
TwoSettings == OnlyOn \cup {[autoFile |-> TRUE, excluded |-> {q}]}

Suggest(path, new, trusted) ==
    [folder |-> [folder |-> f, path |-> path, new |-> new, made |-> FALSE], trusted |-> trusted]
\* A confident answer for an existing folder, and a proposed new one.
TwoAnalyses == {Suggest(p, FALSE, TRUE), Suggest(p, TRUE, TRUE)}
=============================================================================
