----------------------------- MODULE LspServer -----------------------------
(***************************************************************************)
(* telora: the language server (lsp.rs) over one Workspace.                *)
(*                                                                         *)
(* Everything runs on one thread, so a notification handler, and a future  *)
(* between two yields, is one step.  The main loop (async-lsp) and the     *)
(* LocalSet (tokio) decide which future is polled next; the code does not, *)
(* so the order of polls, and of polls and incoming messages, is           *)
(* arbitrary here.  The client is a conforming editor: it opens what is    *)
(* closed, changes with growing versions and closes what is open.          *)
(***************************************************************************)
EXTENDS Integers

CONSTANTS
    Docs,         \* canonical paths
    Aliases,      \* other paths of the same files (symbolic links)
    Canon,        \* the canonical path of each path
    Unreadable,   \* paths canonicalize fails on (other than NotFound)
    Texts, Imports, OnDisk, Closed, Missing,
    Versions,
    FileRoots,    \* documents a client may name as the root at initialize
    MayNameDirectory,  \* the client may name a directory instead
    NoRoot,       \* no workspace exists yet
    NotOpen, NoSnapshot, NothingShown,
    Requests,     \* request futures
    Ids,          \* JSON-RPC request ids
    UniqueIds,    \* the client never reuses the id of a request in flight
    NoRequest,
    MaxRevision   \* bound on the number of edits

Paths == Docs \cup Aliases

ASSUME PathsAssumption ==
    /\ Canon \in [Paths -> Docs]
    /\ \A d \in Docs : Canon[d] = d
    /\ Imports \in [Texts -> SUBSET Docs]
    /\ OnDisk \in [Docs -> Texts \cup {Missing}]
    /\ FileRoots \subseteq Docs
    /\ {MayNameDirectory, UniqueIds} \subseteq BOOLEAN
    /\ Versions \subseteq Int
    /\ MaxRevision \in Nat

VARIABLES
    lifecycle,   \* State.lifecycle, and how the process ended
    root,        \* State.workspace: the root document of the workspace
    clock, overlays, published,   \* the Workspace
    documents,   \* State.documents
    client,      \* the documents as the editor has them (external)
    shown,       \* the diagnostics the editor shows (external)
    tphase, tctx, tcopy,          \* the rebuild tasks, by edit
    rphase, rid, snap, rctx,      \* the request futures
    cancelled,   \* their cancellation tokens
    pending,     \* State.pending: the token registered for each id
    rresult,     \* the response to each request
    withdrawn    \* requests the client has sent a cancel for (external)

workspace == <<clock, overlays, published>>
editing   == <<documents, client, shown>>
tasks     == <<tphase, tctx, tcopy>>
requests  == <<rphase, rid, snap, rctx, cancelled, pending, rresult,
               withdrawn>>
vars == <<lifecycle, root, clock, overlays, published, documents, client,
          shown, tphase, tctx, tcopy, rphase, rid, snap, rctx, cancelled,
          pending, rresult, withdrawn>>

Edits == 1..MaxRevision
Document == [version : Versions, text : Texts]
Readable == Texts \cup {Missing}
Sources == UNION {[D -> Readable] : D \in SUBSET Docs}
Snapshots == [revision : 0..MaxRevision, sources : Sources]
Responses == {"none", "answer", "modified", "cancelled", "rejected"}

\* The values that stand for the absence of something are none of the things.
ASSUME AbsenceAssumption ==
    /\ NoRoot \notin Docs
    /\ NotOpen \notin Versions \cup Document
    /\ Closed \notin Texts \cup Document
    /\ NoSnapshot \notin Snapshots
    /\ NoRequest \notin Requests

TypeOK ==
    /\ lifecycle \in {"uninitialized", "awaiting", "running", "shutdown",
                      "exited", "failed", "panicked"}
    /\ root \in Docs \cup {NoRoot}
    /\ clock \in 0..MaxRevision
    /\ overlays \in [Docs -> Document \cup {Closed}]
    /\ published \in Snapshots \cup {NoSnapshot}
    /\ documents \in [Paths -> Versions \cup {NotOpen}]
    /\ client \in [Paths -> Document \cup {NotOpen}]
    /\ shown \in [Paths -> [version : Versions, text : Readable]
                               \cup {NothingShown}]
    /\ tphase \in [Edits -> {"none", "scheduled", "started", "building",
                             "done", "failed"}]
    /\ tctx \in [Edits -> 0..MaxRevision]
    /\ tcopy \in [Edits -> [Docs -> Texts \cup {Closed}]]
    /\ rphase \in [Requests -> {"none", "arrived", "query"}]
    /\ rid \in [Requests -> Ids]
    /\ snap \in [Requests -> Snapshots \cup {NoSnapshot}]
    /\ rctx \in [Requests -> 0..MaxRevision]
    /\ cancelled \in [Requests -> BOOLEAN]
    /\ pending \in [Ids -> Requests \cup {NoRequest}]
    /\ rresult \in [Requests -> Responses]
    /\ withdrawn \in SUBSET Requests

NoTexts == [d \in Docs |-> Closed]

Init ==
    /\ lifecycle = "uninitialized"
    /\ root = NoRoot
    /\ clock = 0
    /\ overlays = [d \in Docs |-> Closed]
    /\ published = NoSnapshot
    /\ documents = [p \in Paths |-> NotOpen]
    /\ client = [p \in Paths |-> NotOpen]
    /\ shown = [p \in Paths |-> NothingShown]
    /\ tphase = [k \in Edits |-> "none"]
    /\ tctx = [k \in Edits |-> 0]
    /\ tcopy = [k \in Edits |-> NoTexts]
    /\ rphase = [r \in Requests |-> "none"]
    /\ rid \in [Requests -> Ids]
    /\ snap = [r \in Requests |-> NoSnapshot]
    /\ rctx = [r \in Requests |-> 0]
    /\ cancelled = [r \in Requests |-> FALSE]
    /\ pending = [i \in Ids |-> NoRequest]
    /\ rresult = [r \in Requests |-> "none"]
    /\ withdrawn = {}

Alive == lifecycle \notin {"exited", "failed", "panicked"}

----------------------------------------------------------------------------
(* Lifecycle.                                                              *)

\* A file root builds the workspace at once, a directory only with the first
\* document that is opened.
Initialize ==
    /\ lifecycle = "uninitialized"
    /\ lifecycle' = "awaiting"
    /\ \/ root' \in FileRoots
       \/ MayNameDirectory /\ root' = NoRoot
    /\ UNCHANGED <<workspace, editing, tasks, requests>>

Initialized ==
    /\ lifecycle = "awaiting"
    /\ lifecycle' = "running"
    /\ UNCHANGED <<root, workspace, editing, tasks, requests>>

\* cancel_all drains the registry.
CancelAll ==
    /\ cancelled' = [r \in Requests |->
          cancelled[r] \/ \E i \in Ids : pending[i] = r]
    /\ pending' = [i \in Ids |-> NoRequest]

Shutdown ==
    /\ lifecycle = "running"
    /\ lifecycle' = "shutdown"
    /\ CancelAll
    /\ UNCHANGED <<root, workspace, editing, tasks, rphase, rid, snap, rctx,
                   rresult, withdrawn>>

\* A clean exit only after shutdown; either way the loop ends.
Exit ==
    /\ Alive
    /\ lifecycle' = IF lifecycle = "shutdown" THEN "exited" ELSE "failed"
    /\ CancelAll
    /\ UNCHANGED <<root, workspace, editing, tasks, rphase, rid, snap, rctx,
                   rresult, withdrawn>>

----------------------------------------------------------------------------
(* Document notifications.                                                 *)

\* Mutant: an edit during a rebuild is left to the rebuild that is running.
AcceptCoalesced(p, overlay, version) ==
    /\ clock < MaxRevision
    /\ overlays' = [overlays EXCEPT ![Canon[p]] = overlay]
    /\ clock' = clock + 1
    /\ documents' = [documents EXCEPT ![p] = version]
    /\ tphase' = [tphase EXCEPT ![clock + 1] =
          IF \E k \in Edits : tphase[k] \notin {"none", "done", "failed"}
          THEN "done" ELSE "scheduled"]
    /\ UNCHANGED <<lifecycle, published, shown, tctx, tcopy, requests>>

\* A successful edit: the overlay, the clock, the registered version, and a
\* rebuild task for it.
Accept(p, overlay, version) ==
    /\ clock < MaxRevision
    /\ overlays' = [overlays EXCEPT ![Canon[p]] = overlay]
    /\ clock' = clock + 1
    /\ documents' = [documents EXCEPT ![p] = version]
    /\ tphase' = [tphase EXCEPT ![clock + 1] = "scheduled"]
    /\ UNCHANGED <<lifecycle, published, shown, tctx, tcopy, requests>>

\* A notification that is answered with an error on stderr.
Refuse ==
    UNCHANGED <<lifecycle, root, workspace, documents, shown, tasks, requests>>

\* .expect("running server has workspace")
Panic ==
    /\ lifecycle' = "panicked"
    /\ UNCHANGED <<root, workspace, documents, shown, tasks, requests>>

\* State.documents is keyed by the path as the client spells it, the overlays
\* by the canonical path.
DidOpen(p) ==
    /\ lifecycle = "running"
    /\ client[p] = NotOpen
    /\ \E document \in Document :
         /\ client' = [client EXCEPT ![p] = document]
         /\ IF documents[p] # NotOpen \/ p \in Unreadable
            THEN Refuse
            ELSE /\ root' = IF root = NoRoot THEN Canon[p] ELSE root
                 /\ Accept(p, document, document.version)

DidChange(p) ==
    /\ lifecycle = "running"
    /\ client[p] # NotOpen
    /\ \E document \in Document :
         /\ document.version > client[p].version
         /\ client' = [client EXCEPT ![p] = document]
         /\ IF root = NoRoot THEN Panic
            ELSE IF \/ p \in Unreadable
                    \/ overlays[Canon[p]] = Closed
                    \/ document.version <= overlays[Canon[p]].version
            THEN Refuse
            ELSE Accept(p, document, document.version) /\ UNCHANGED root

DidClose(p) ==
    /\ lifecycle = "running"
    /\ client[p] # NotOpen
    /\ client' = [client EXCEPT ![p] = NotOpen]
    /\ IF root = NoRoot THEN Panic
       ELSE IF p \in Unreadable \/ overlays[Canon[p]] = Closed THEN Refuse
       ELSE Accept(p, Closed, NotOpen) /\ UNCHANGED root

----------------------------------------------------------------------------
(* The tasks schedule_rebuild spawns.  Workspace.tla has rebuild in detail; *)
(* on one thread it is three polls: take the context, copy the overlays,   *)
(* and publish.                                                            *)

OverlayTexts == [d \in Docs |->
    IF overlays[d] = Closed THEN Closed ELSE overlays[d].text]

\* What a build of r from some overlay texts holds: r and all it reaches.
Reading(r, texts) ==
    LET source  == [d \in Docs |->
                      IF texts[d] = Closed THEN OnDisk[d] ELSE texts[d]]
        imports(d) == IF source[d] = Missing THEN {} ELSE Imports[source[d]]
        closed  == {S \in SUBSET Docs :
                      r \in S /\ \A d \in S : imports(d) \subseteq S}
        reached == {d \in Docs : \A S \in closed : d \in S}
    IN  [d \in reached |-> source[d]]

StartTask(k) ==
    /\ Alive
    /\ tphase[k] = "scheduled"
    /\ tphase' = [tphase EXCEPT ![k] = "started"]
    /\ tctx' = [tctx EXCEPT ![k] = clock]
    /\ UNCHANGED <<lifecycle, root, workspace, editing, tcopy, requests>>

CopyTask(k) ==
    /\ Alive
    /\ tphase[k] = "started"
    /\ tctx[k] = clock
    /\ tphase' = [tphase EXCEPT ![k] = "building"]
    /\ tcopy' = [tcopy EXCEPT ![k] = OverlayTexts]
    /\ UNCHANGED <<lifecycle, root, workspace, editing, tctx, requests>>

\* Mutant: staleness is noticed only once the build is under way.
DropBuiltTask(k) ==
    /\ Alive
    /\ tphase[k] = "building"
    /\ tctx[k] # clock
    /\ tphase' = [tphase EXCEPT ![k] = "done"]
    /\ UNCHANGED <<lifecycle, root, workspace, editing, tctx, tcopy, requests>>

\* A rebuild that finds itself stale ends without a word.
DropTask(k) ==
    /\ Alive
    /\ tphase[k] \in {"started", "building"}
    /\ tctx[k] # clock
    /\ tphase' = [tphase EXCEPT ![k] = "done"]
    /\ UNCHANGED <<lifecycle, root, workspace, editing, tctx, tcopy, requests>>

\* So does one the engine fails: the last snapshot stays published.
FailTask(k) ==
    /\ Alive
    /\ tphase[k] = "building"
    /\ tctx[k] = clock
    /\ tphase' = [tphase EXCEPT ![k] = "failed"]
    /\ UNCHANGED <<lifecycle, root, workspace, editing, tctx, tcopy, requests>>

\* publish_diagnostics: one message for each open document that is a file of
\* the snapshot, with the version the document has now.
Diagnose(sources) ==
    shown' = [p \in Paths |->
        IF documents[p] # NotOpen /\ p \in DOMAIN sources
        THEN [version |-> documents[p], text |-> sources[p]]
        ELSE shown[p]]

\* Mutant: neither publication nor diagnostics check the context.
FinishTaskUnchecked(k) ==
    /\ Alive
    /\ tphase[k] = "building"
    /\ tphase' = [tphase EXCEPT ![k] = "done"]
    /\ LET sources == Reading(root, tcopy[k])
       IN  /\ published' = [revision |-> tctx[k], sources |-> sources]
           /\ Diagnose(sources)
    /\ UNCHANGED <<lifecycle, root, clock, overlays, documents, client, tctx,
                   tcopy, requests>>

\* The last check, the publication and the diagnostics are one poll.
FinishTask(k) ==
    /\ Alive
    /\ tphase[k] = "building"
    /\ tctx[k] = clock
    /\ tphase' = [tphase EXCEPT ![k] = "done"]
    /\ LET sources == Reading(root, tcopy[k])
       IN  /\ published' = [revision |-> tctx[k], sources |-> sources]
           /\ Diagnose(sources)
    /\ UNCHANGED <<lifecycle, root, clock, overlays, documents, client, tctx,
                   tcopy, requests>>

----------------------------------------------------------------------------
(* Requests.                                                               *)

\* call() only makes the future: nothing is registered before its first poll.
Arrive(r, i) ==
    /\ Alive
    /\ rphase[r] = "none"
    /\ UniqueIds => \A q \in Requests : rphase[q] # "none" => rid[q] # i
    /\ rphase' = [rphase EXCEPT ![r] = "arrived"]
    /\ rid' = [rid EXCEPT ![r] = i]
    /\ cancelled' = [cancelled EXCEPT ![r] = FALSE]
    /\ rresult' = [rresult EXCEPT ![r] = "none"]
    /\ withdrawn' = withdrawn \ {r}
    /\ UNCHANGED <<lifecycle, root, workspace, editing, tasks, snap, rctx,
                   pending>>

\* The future returns; nothing of it is left.
Respond(r, response) ==
    /\ rphase' = [rphase EXCEPT ![r] = "none"]
    /\ rresult' = [rresult EXCEPT ![r] = response]
    /\ snap' = [snap EXCEPT ![r] = NoSnapshot]
    /\ UNCHANGED <<lifecycle, root, workspace, editing, tasks, rid, rctx,
                   cancelled, withdrawn>>

\* The first poll refuses: the server is not running, or the id is active.
RejectRequest(r) ==
    /\ Alive
    /\ rphase[r] = "arrived"
    /\ lifecycle # "running" \/ pending[rid[r]] # NoRequest
    /\ Respond(r, "rejected")
    /\ UNCHANGED pending

\* The first poll registers the token and ends at once: nothing is published,
\* or the parameters name nothing the snapshot has.
FailRequest(r) ==
    /\ Alive
    /\ rphase[r] = "arrived"
    /\ lifecycle = "running"
    /\ pending[rid[r]] = NoRequest
    /\ \/ (root = NoRoot \/ published = NoSnapshot) /\ Respond(r, "modified")
       \/ published # NoSnapshot /\ Respond(r, "rejected")
    /\ UNCHANGED pending

\* The first poll registers the token, captures the snapshot and a context,
\* and yields in the query's checkpoint.
StartRequest(r) ==
    /\ Alive
    /\ rphase[r] = "arrived"
    /\ lifecycle = "running"
    /\ pending[rid[r]] = NoRequest
    /\ published # NoSnapshot
    /\ pending' = [pending EXCEPT ![rid[r]] = r]
    /\ rphase' = [rphase EXCEPT ![r] = "query"]
    /\ snap' = [snap EXCEPT ![r] = published]
    /\ rctx' = [rctx EXCEPT ![r] = clock]
    /\ UNCHANGED <<lifecycle, root, workspace, editing, tasks, rid, cancelled,
                   rresult, withdrawn>>

\* Mutant: ensure_snapshot is left out of the query.
OutcomeOfContext(r) ==
    IF cancelled[r] THEN "cancelled"
    ELSE IF rctx[r] # clock THEN "modified"
    ELSE "answer"

\* A later poll: the end of a checkpoint, then ensure_snapshot.  A query that
\* has more to do yields again, which changes nothing.
Outcome(r) ==
    IF cancelled[r] THEN "cancelled"
    ELSE IF rctx[r] # clock \/ snap[r].revision # rctx[r] THEN "modified"
    ELSE "answer"

\* Mutant: a cancelled request is dropped instead of being answered.
FinishUncancelled(r) ==
    /\ Alive
    /\ rphase[r] = "query"
    /\ ~cancelled[r]
    /\ Respond(r, Outcome(r))
    /\ pending' = [pending EXCEPT ![rid[r]] = NoRequest]

\* On completion the entry of the id is removed, whosever it is by now.
FinishRequest(r) ==
    /\ Alive
    /\ rphase[r] = "query"
    /\ Respond(r, Outcome(r))
    /\ pending' = [pending EXCEPT ![rid[r]] = NoRequest]

\* Mutant: a cancel leaves its entry in the registry.
CancelKeepsEntry(i) ==
    /\ Alive
    /\ \E r \in Requests : rphase[r] # "none" /\ rid[r] = i
    /\ withdrawn' = withdrawn \cup
          {r \in Requests : rphase[r] # "none" /\ rid[r] = i}
    /\ cancelled' = [r \in Requests |-> cancelled[r] \/ pending[i] = r]
    /\ UNCHANGED <<lifecycle, root, workspace, editing, tasks, rphase, rid,
                   snap, rctx, pending, rresult>>

\* $/cancelRequest
CancelRequest(i) ==
    /\ Alive
    /\ \E r \in Requests : rphase[r] # "none" /\ rid[r] = i
    /\ withdrawn' = withdrawn \cup
          {r \in Requests : rphase[r] # "none" /\ rid[r] = i}
    /\ cancelled' = [r \in Requests |-> cancelled[r] \/ pending[i] = r]
    /\ pending' = [pending EXCEPT ![i] = NoRequest]
    /\ UNCHANGED <<lifecycle, root, workspace, editing, tasks, rphase, rid,
                   snap, rctx, rresult>>

----------------------------------------------------------------------------
Notification(p) == DidOpen(p) \/ DidChange(p) \/ DidClose(p)

RunTask(k) ==
    StartTask(k) \/ CopyTask(k) \/ DropTask(k) \/ FailTask(k) \/ FinishTask(k)

PollRequest(r) ==
    RejectRequest(r) \/ FailRequest(r) \/ StartRequest(r) \/ FinishRequest(r)

Next ==
    \/ Initialize \/ Initialized \/ Shutdown \/ Exit
    \/ \E p \in Paths : Notification(p)
    \/ \E k \in Edits : RunTask(k)
    \/ \E r \in Requests, i \in Ids : Arrive(r, i)
    \/ \E r \in Requests : PollRequest(r)
    \/ \E i \in Ids : CancelRequest(i)

Spec == Init /\ [][Next]_vars

\* The executor polls every future that has been woken; YieldOnce wakes its
\* own task before it yields.
FairSpec ==
    /\ Spec
    /\ \A k \in Edits : WF_vars(RunTask(k))
    /\ \A r \in Requests : WF_vars(PollRequest(r))

----------------------------------------------------------------------------
ClientTexts == [d \in Docs |->
    IF client[d] = NotOpen THEN Closed ELSE client[d].text]

\* No rebuild is outstanding and the engine failed none.
Settled ==
    /\ lifecycle = "running"
    /\ root # NoRoot
    /\ \A k \in Edits : tphase[k] \in {"none", "done"}

\* Diagnostics that reach the editor are of the text, and carry the version,
\* that the editor has at that moment (RFC 0046: never from a stale snapshot).
DiagnosticsAreCurrent ==
    [][\A p \in Paths : shown'[p] # shown[p] => shown'[p] = client[p]]_vars

\* Once every rebuild has run, each open document the root reaches shows
\* diagnostics for its last version: no interleaving of edits and rebuilds
\* ends with the last edit unanswered.
DiagnosticsCaughtUp ==
    Settled => \A p \in Paths :
        client[p] # NotOpen /\ Canon[p] \in DOMAIN Reading(root, OverlayTexts)
            => shown[p] = client[p]

\* A hover, definition, references or completion answer is drawn from a
\* complete reading of what the editor holds when the answer is sent.
AnswersAreCurrent ==
    [][\A r \in Requests :
          rphase[r] = "query" /\ rphase'[r] = "none" /\ rresult'[r] = "answer"
              => snap[r].sources = Reading(root, ClientTexts)]_vars

\* The registry owns one token per active request (RFC 0046): exactly the
\* queries that have not been cancelled can still be, and none is left so by a
\* shutdown.
RegistryOwnsActive ==
    \A r \in Requests : rphase[r] = "query" =>
        /\ pending[rid[r]] = r <=> ~cancelled[r]
        /\ lifecycle = "shutdown" => cancelled[r]

\* Every request is answered unless the process ends first.
RequestsAnswered ==
    \A r \in Requests : rphase[r] # "none" ~> rphase[r] = "none" \/ ~Alive

\* Every scheduled rebuild ends, stale or not.
RebuildsEnd ==
    \A k \in Edits :
        tphase[k] = "scheduled" ~> tphase[k] \in {"done", "failed"} \/ ~Alive

----------------------------------------------------------------------------
(* What the documents of the code say, which the code does not do.         *)

\* "running server has workspace": the assertion of didChange and didClose.
RunningHasWorkspace == lifecycle # "panicked"

=============================================================================
