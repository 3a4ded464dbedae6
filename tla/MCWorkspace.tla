---------------------------- MODULE MCWorkspace ----------------------------
(* Two documents; every text imports the library. *)
EXTENDS Workspace, TLC

CONSTANTS main, lib, importing,
    Late        \* the task that takes no part in the last edit

MCDocs == {main, lib}
MCTexts == {importing}
MCImports == importing :> {lib}

\* Bound: from the last edit on, one task rebuilds, and from the overlays alone.
LastEdit == clock = MaxRevision \/ (clock = MaxRevision - 1 /\ lock # Free)
Bounded == LastEdit' => phase'[Late] = "idle" /\ \A d \in Docs : disk'[d] = Missing

MCSpec ==
    /\ Init /\ [][Next /\ Bounded]_vars
    /\ \A e \in Editors : WF_vars(Advance(e))
    /\ \A t \in Tasks : WF_vars(Run(t))
=============================================================================
