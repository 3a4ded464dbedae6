---------------------------- MODULE MCLspServer ----------------------------
(* One module that may import another, and a symbolic link to the first. *)
EXTENDS LspServer, TLC

CONSTANTS main, lib, link, plain, importing,
    Second      \* the second request and the second id, or none

MCDocs == {main, lib}
MCNoLinks == main :> main @@ lib :> lib
MCLinks == MCNoLinks @@ link :> main
MCTexts == {plain, importing}
MCImports == plain :> {} @@ importing :> {lib}
MCOnDisk == main :> plain @@ lib :> plain

\* Bound: the second request and the second id are used before the last edit
\* alone, and when the client has named a file.
Bounded ==
    clock' = MaxRevision \/ root' = NoRoot =>
        \A r \in Requests :
            /\ r \in Second => rphase'[r] = "none" /\ rresult'[r] = "none"
            /\ rphase'[r] # "none" => rid'[r] \notin Second

MCSpec ==
    /\ Init /\ [][Next /\ Bounded]_vars
    /\ \A k \in Edits : WF_vars(RunTask(k))
    /\ \A r \in Requests : WF_vars(PollRequest(r))
=============================================================================
