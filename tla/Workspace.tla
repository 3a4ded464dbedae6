----------------------------- MODULE Workspace -----------------------------
(***************************************************************************)
(* telora-core: Workspace (workspace.rs) with the revision clock and query *)
(* contexts of query.rs.                                                   *)
(*                                                                         *)
(* Editor threads call open, change and close; rebuild tasks run beside    *)
(* them.  The overlays and the published snapshot are behind one RwLock,   *)
(* the revision clock is an atomic outside it: context() and check() read  *)
(* the clock without the lock, so a rebuild can see an overlay that is     *)
(* inserted before the clock says so, or take its context in between.      *)
(*                                                                         *)
(* A checkpoint is check, yield, check; the clock only grows and a token   *)
(* is never un-cancelled, so the second check implies the first and a      *)
(* checkpoint is the one step CheckOK stands for.  Calls that fail leave   *)
(* the workspace as it was and are therefore not steps.                    *)
(***************************************************************************)
EXTENDS Integers

CONSTANTS
    Docs, Root, Texts, Imports, Closed, Missing, NoSnapshot,
    Versions,      \* document versions an editor may use
    DiskTexts,     \* what a file on the disk may hold
    Editors,       \* threads that call open, change and close
    Tasks,         \* rebuild tasks
    Free,          \* the write lock is not held
    MaxRevision    \* bound on the number of edits

VARIABLES
    clock,       \* RevisionClock.current
    lock,        \* holder of the write half of Workspace.state
    overlays,    \* WorkspaceState.overlays
    disk,        \* what the file system holds (external)
    published,   \* WorkspaceState.published
    phase,       \* where each rebuild task is
    ctx,         \* the revision of each task's QueryContext
    cancelled,   \* the CancellationToken of each task's QueryContext
    copy,        \* the overlay texts each task copied
    todo,        \* modules the task still has to load
    sources,     \* modules the task has loaded, with their text
    outcome      \* what the task's last rebuild returned

edits == <<clock, lock, overlays>>
task  == <<phase, ctx, cancelled, copy, todo, sources, outcome>>
vars  == <<clock, lock, overlays, disk, published, phase, ctx, cancelled,
           copy, todo, sources, outcome>>

ASSUME BoundsAssumption ==
    /\ MaxRevision \in Nat
    /\ Versions \subseteq Int
    /\ DiskTexts \subseteq Texts \cup {Missing}
    /\ Free \notin Editors

Documents == [version : Versions, text : Texts]

ASSUME ClosedAssumption == Closed \notin Documents

\* The texts rebuild() copies out of the overlays.
OverlayTexts == [d \in Docs |->
    IF overlays[d] = Closed THEN Closed ELSE overlays[d].text]

\* The promise: edits take effect when the overlay is inserted.
Abs == INSTANCE SnapshotService WITH
    inputs   <- OverlayTexts,
    revision <- IF lock = Free THEN clock ELSE clock + 1

ASSUME ServiceAssumption == Abs!ConstantsOK

NoSources == [d \in {} |-> Missing]

Phases == {"idle", "copy", "load", "publish"}
Outcomes == {"none", "ok", "query", "module"}

TypeOK ==
    /\ clock \in Nat
    /\ lock \in Editors \cup {Free}
    /\ overlays \in [Docs -> Documents \cup {Closed}]
    /\ disk \in [Docs -> DiskTexts]
    /\ published \in Abs!Snapshots \cup {NoSnapshot}
    /\ phase \in [Tasks -> Phases]
    /\ ctx \in [Tasks -> Nat]
    /\ cancelled \in [Tasks -> BOOLEAN]
    /\ copy \in [Tasks -> [Docs -> Texts \cup {Closed}]]
    /\ todo \in [Tasks -> SUBSET Docs]
    /\ sources \in [Tasks -> Abs!Sources]
    /\ outcome \in [Tasks -> Outcomes]

NothingOpen == [d \in Docs |-> Closed]

Init ==
    /\ clock = 0
    /\ lock = Free
    /\ overlays = NothingOpen
    /\ disk \in [Docs -> DiskTexts]
    /\ published = NoSnapshot
    /\ phase = [t \in Tasks |-> "idle"]
    /\ ctx = [t \in Tasks |-> 0]
    /\ cancelled = [t \in Tasks |-> FALSE]
    /\ copy = [t \in Tasks |-> NothingOpen]
    /\ todo = [t \in Tasks |-> {}]
    /\ sources = [t \in Tasks |-> NoSources]
    /\ outcome = [t \in Tasks |-> "none"]

----------------------------------------------------------------------------
(* The editor's calls.  Each takes the write lock, changes the overlays,   *)
(* advances the clock and releases the lock; another thread may read the   *)
(* clock between the last two.                                             *)

Insert(e, d, document) ==
    /\ lock = Free
    /\ clock < MaxRevision
    /\ lock' = e
    /\ overlays' = [overlays EXCEPT ![d] = document]
    /\ UNCHANGED <<clock, disk, published, task>>

\* open replaces whatever overlay the path had.
Open(e, d) ==
    \E document \in Documents : Insert(e, d, document)

\* change is a compare-and-swap on the version: DocumentSnapshot.changed
\* refuses a wrong expected version and a version that does not grow.
Change(e, d, expected) ==
    /\ overlays[d] # Closed
    /\ overlays[d].version = expected
    /\ \E document \in Documents :
         /\ document.version > overlays[d].version
         /\ Insert(e, d, document)

Close(e, d) ==
    /\ overlays[d] # Closed
    /\ Insert(e, d, Closed)

\* The tail of open, change and close: clock.advance(), then the guard drops.
Advance(e) ==
    /\ lock = e
    /\ lock' = Free
    /\ clock' = clock + 1
    /\ UNCHANGED <<overlays, disk, published, task>>

----------------------------------------------------------------------------
(* Rebuild tasks.                                                          *)

\* Mutant: check forgets the clock.
CheckTokenOnly(t) == ~cancelled[t]

\* QueryContext::check
CheckOK(t) == ~cancelled[t] /\ ctx[t] = clock

\* The caller takes a context (context() or cancellable_context()) and
\* hands it to rebuild.
StartRebuild(t) ==
    /\ phase[t] = "idle"
    /\ phase' = [phase EXCEPT ![t] = "copy"]
    /\ ctx' = [ctx EXCEPT ![t] = clock]
    /\ cancelled' = [cancelled EXCEPT ![t] = FALSE]
    /\ outcome' = [outcome EXCEPT ![t] = "none"]
    /\ UNCHANGED <<edits, disk, published, copy, todo, sources>>

Cancel(t) ==
    /\ phase[t] # "idle"
    /\ cancelled' = [cancelled EXCEPT ![t] = TRUE]
    /\ UNCHANGED <<edits, disk, published, phase, ctx, copy, todo, sources,
                   outcome>>

\* rebuild returns without publishing; what it built is dropped.
Return(t, result) ==
    /\ phase' = [phase EXCEPT ![t] = "idle"]
    /\ outcome' = [outcome EXCEPT ![t] = result]
    /\ copy' = [copy EXCEPT ![t] = NothingOpen]
    /\ todo' = [todo EXCEPT ![t] = {}]
    /\ sources' = [sources EXCEPT ![t] = NoSources]
    /\ UNCHANGED <<edits, disk, ctx, cancelled>>

\* A failed checkpoint of rebuild or of the engine, outside the builder; an
\* engine error is a query error when the context is no longer good.  The
\* last check needs the write lock.
Abandon(t) ==
    /\ \/ phase[t] = "copy"
       \/ phase[t] = "load" /\ (DOMAIN sources[t] = {} \/ todo[t] = {})
       \/ phase[t] = "publish" /\ lock = Free
    /\ ~CheckOK(t)
    /\ Return(t, "query")
    /\ UNCHANGED published

\* The engine cannot resolve the root; the context is still current.
EngineFails(t) ==
    /\ phase[t] = "load"
    /\ DOMAIN sources[t] = {}
    /\ CheckOK(t)
    /\ Return(t, "module")
    /\ UNCHANGED published

\* The overlays are copied under the read lock, after the first checkpoint
\* succeeded at some earlier moment.
CopyOverlays(t) ==
    /\ phase[t] = "copy"
    /\ lock = Free
    /\ copy' = [copy EXCEPT ![t] = OverlayTexts]
    /\ todo' = [todo EXCEPT ![t] = {Root}]
    /\ phase' = [phase EXCEPT ![t] = "load"]
    /\ UNCHANGED <<edits, disk, published, ctx, cancelled, sources, outcome>>

\* load_telora / load_static_data: the copied overlay, else the disk.
SourceOf(t, d) == IF copy[t][d] # Closed THEN copy[t][d] ELSE disk[d]

\* Mutant: the imports of a loaded module are forgotten.
LoadWithoutImports(t, d) ==
    /\ phase[t] = "load"
    /\ d \in todo[t]
    /\ CheckOK(t)
    /\ sources' = [sources EXCEPT ![t] =
          [m \in DOMAIN sources[t] \cup {d} |->
              IF m = d THEN SourceOf(t, d) ELSE sources[t][m]]]
    /\ todo' = [todo EXCEPT ![t] = todo[t] \ {d}]
    /\ UNCHANGED <<edits, disk, published, phase, ctx, cancelled, copy,
                   outcome>>

LoadModule(t, d) ==
    /\ phase[t] = "load"
    /\ d \in todo[t]
    /\ CheckOK(t)
    /\ LET loaded == DOMAIN sources[t] \cup {d}
       IN  /\ sources' = [sources EXCEPT ![t] = [m \in loaded |->
                IF m = d THEN SourceOf(t, d) ELSE sources[t][m]]]
           /\ todo' = [todo EXCEPT ![t] =
                (todo[t] \cup Abs!ImportsOf(SourceOf(t, d))) \ loaded]
    /\ UNCHANGED <<edits, disk, published, phase, ctx, cancelled, copy,
                   outcome>>

\* A failed checkpoint inside the builder is swallowed: the module is simply
\* absent and the build goes on with the rest.
SkipModule(t, d) ==
    /\ phase[t] = "load"
    /\ d \in todo[t]
    /\ ~CheckOK(t)
    /\ todo' = [todo EXCEPT ![t] = todo[t] \ {d}]
    /\ UNCHANGED <<edits, disk, published, phase, ctx, cancelled, copy,
                   sources, outcome>>

\* The engine's last checkpoint and rebuild's: the snapshot is built.
FinishLoad(t) ==
    /\ phase[t] = "load"
    /\ todo[t] = {}
    /\ CheckOK(t)
    /\ phase' = [phase EXCEPT ![t] = "publish"]
    /\ UNCHANGED <<edits, disk, published, ctx, cancelled, copy, todo,
                   sources, outcome>>

\* Mutant: no check under the write lock.
PublishUnchecked(t) ==
    /\ phase[t] = "publish"
    /\ lock = Free
    /\ published' = [revision |-> ctx[t], sources |-> sources[t]]
    /\ Return(t, "ok")

\* Mutant: the snapshot is returned but not stored.
PublishNowhere(t) ==
    /\ phase[t] = "publish"
    /\ lock = Free
    /\ CheckOK(t)
    /\ Return(t, "ok")
    /\ UNCHANGED published

\* set_revision; write lock; check; publish.
Publish(t) ==
    /\ phase[t] = "publish"
    /\ lock = Free
    /\ CheckOK(t)
    /\ published' = [revision |-> ctx[t], sources |-> sources[t]]
    /\ Return(t, "ok")

----------------------------------------------------------------------------
\* A file changes on the disk; no revision tells.
WriteDisk(d) ==
    /\ \E text \in DiskTexts : disk' = [disk EXCEPT ![d] = text]
    /\ UNCHANGED <<edits, published, task>>

Edit(e) ==
    \/ \E d \in Docs : Open(e, d) \/ Close(e, d)
    \/ \E d \in Docs, expected \in Versions : Change(e, d, expected)

Run(t) ==
    \/ Abandon(t) \/ EngineFails(t) \/ CopyOverlays(t)
    \/ \E d \in Docs : LoadModule(t, d) \/ SkipModule(t, d)
    \/ FinishLoad(t) \/ Publish(t)

Next ==
    \/ \E e \in Editors : Edit(e) \/ Advance(e)
    \/ \E t \in Tasks : StartRebuild(t) \/ Cancel(t) \/ Run(t)
    \/ \E d \in Docs : WriteDisk(d)

Spec == Init /\ [][Next]_vars

\* A thread in the write lock and a woken task are scheduled again: the lock
\* sections are short straight-line code and YieldOnce wakes its own task.
FairSpec ==
    /\ Spec
    /\ \A e \in Editors : WF_vars(Advance(e))
    /\ \A t \in Tasks : WF_vars(Run(t))

----------------------------------------------------------------------------
\* A snapshot that carries the present revision is a complete reading of the
\* present overlays: no rebuild that copied the overlays too early, skipped
\* a module at a failed checkpoint or lost a race publishes under a revision
\* it does not describe.
PublishedCoherent ==
    lock = Free /\ published # NoSnapshot /\ published.revision = clock =>
        Abs!Complete(published.sources, OverlayTexts)

\* What a rebuild has of a complete reading of its copy: the part loaded so
\* far, with the imports that are still to do.
PartlyComplete(t) ==
    LET reached == DOMAIN sources[t] \cup todo[t]
    IN  /\ Root \in reached
        /\ DOMAIN sources[t] \cap todo[t] = {}
        /\ \A d \in DOMAIN sources[t] :
             /\ copy[t][d] # Closed => sources[t][d] = copy[t][d]
             /\ Abs!ImportsOf(sources[t][d]) \subseteq reached
        /\ \A d \in reached \ {Root} :
             \E e \in DOMAIN sources[t] : d \in Abs!ImportsOf(sources[t][e])

\* While a task's context is good its copy is of the present overlays (those
\* before the insertion, if an editor is in the lock) and no module it has
\* reached was skipped; a task that has gone bad may hold anything.
RebuildInv(t) ==
    /\ ctx[t] <= clock
    /\ phase[t] = "publish" => todo[t] = {}
    /\ phase[t] \in {"idle", "copy"} => DOMAIN sources[t] = {}
    /\ phase[t] \in {"load", "publish"} /\ CheckOK(t) =>
         /\ lock = Free => copy[t] = OverlayTexts
         /\ PartlyComplete(t)

\* The inductive invariant behind PublishedCoherent.
WorkspaceInv ==
    /\ published # NoSnapshot => published.revision <= clock
    /\ PublishedCoherent
    /\ \A t \in Tasks : RebuildInv(t)

\* Rebuilds that overlap never replace a snapshot by an older one.
PublishedNeverOlder ==
    [][published # NoSnapshot =>
          /\ published' # NoSnapshot
          /\ published'.revision >= published.revision]_vars

\* The workspace implements the snapshot service.
ImplementsService == Abs!Spec

\* Unless a newer edit, a cancellation or the engine stops it, a rebuild for
\* revision r makes the published snapshot reach r.
RebuildReaches ==
    \A t \in Tasks, r \in 0..MaxRevision :
        (phase[t] = "copy" /\ ctx[t] = r) ~>
            \/ clock > r
            \/ cancelled[t]
            \/ outcome[t] = "module"
            \/ published # NoSnapshot /\ published.revision >= r
=============================================================================
