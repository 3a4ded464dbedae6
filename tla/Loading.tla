------------------------------- MODULE Loading -------------------------------
(***************************************************************************)
(* The two loaders of module.rs on one source tree: load_root, which the   *)
(* command line uses to run a program, and recover_workspace_async, which  *)
(* the language server uses to describe one.  They share no state but the  *)
(* files, so one runs after the other and what they say can be compared.   *)
(***************************************************************************)
EXTENDS ModuleGraph

CONSTANTS Graphs

ASSUME TreesAssumption == \A f \in Graphs : ValidTree(f)

VARIABLES
    files,                                            \* the source tree
    sStatus, sStack, sVisiting, sError, sCache, sSemantic, sDependencies, sReads,
    rCancelled, rStatus, rStack, rReturned, rInputs, rValues, rMembers,
    rReported, rReads

strict == <<sStatus, sStack, sVisiting, sError, sCache, sSemantic, sDependencies, sReads>>
recoverable == <<rCancelled, rStatus, rStack, rReturned, rInputs, rValues, rMembers,
                 rReported, rReads>>
vars == <<files, strict, recoverable>>

S == INSTANCE StrictLoader WITH
        status <- sStatus, stack <- sStack, visiting <- sVisiting, error <- sError,
        cache <- sCache, semantic <- sSemantic, dependencies <- sDependencies,
        reads <- sReads

R == INSTANCE Loader WITH
        cancelled <- rCancelled, status <- rStatus, stack <- rStack,
        returned <- rReturned, inputs <- rInputs, values <- rValues,
        cycle_members <- rMembers, cycle_reported <- rReported, reads <- rReads

Init == S!Init /\ R!NewBuilder

Loaded == sStatus \in {"ok", "failed"}

LoadStrictly == S!Next /\ UNCHANGED recoverable
Recover == Loaded /\ R!Build /\ UNCHANGED strict
Cancel == Loaded /\ R!Cancel /\ UNCHANGED strict

Next == LoadStrictly \/ Recover \/ Cancel

Spec == Init /\ [][Next]_vars
\* load_root runs to its end on its thread; the builder's future is polled
\* until it is ready, because every yield wakes its own task.
FairSpec == Spec /\ WF_vars(LoadStrictly) /\ WF_vars(Recover)

----------------------------------------------------------------------------
\* The strict load is over before recovery starts, and its variables stay as
\* they are: what holds of them then holds from then on.
Strict == rStatus = "start"

\* The strict loader's visiting list and cache are what they stand for: no
\* module is entered twice, and one is cached only when it and all it imports
\* evaluate (ModuleLoader::enter, leave); and load_root succeeds exactly on the
\* programs whose root compiles over modules that evaluate, and has then read
\* each file of the program once.
StrictIsRight ==
    Strict =>
        /\ S!TypeOK /\ S!VisitingIsTheStack /\ S!CacheEvaluates
        /\ S!OkIfCompiles /\ S!LoadedWhole

\* Every module the root reaches is in the snapshot, read once, whatever fails
\* on the way, and build() finds a module for every edge; what is visited is a
\* path, so cycles end, and what is marked as cyclic is on one.
SnapshotIsWhole ==
    /\ R!TypeOK /\ R!VisitingIsAPath /\ R!MembersAreOnCycles
    /\ R!SnapshotIsClosed /\ R!EachOnce

\* A value rests on values, and whatever evaluates is Known.
KnownIsRight == R!KnownRestsOnKnown /\ R!KnownIfRecoverable

\* Every module of the snapshot is Known and has no diagnostic, or is a root
\* that only fails when it is run.
ShowsNothingWrong ==
    \A m \in DOMAIN rInputs :
        /\ rInputs[m].diagnostics \subseteq (IF m = Root THEN {"raises"} ELSE {})
        /\ m \in rValues \/ (m = Root /\ "raises" \in rInputs[m].diagnostics)

\* Where the two agree and where not: a program loads exactly when its snapshot
\* shows nothing wrong and no module of it has an error of the three kinds that
\* only compile_telora looks for, an option's value (module.rs:2649), an import
\* inside an expression (2694) and a name imported twice (2714).  load_telora
\* has no such checks: with one of these errors, and no other, the snapshot may
\* show nothing wrong of a program that does not load.  A root that exhausts a
\* quota when it is run is excepted too: it loads, but is shown without a value.
LoadersAgree ==
    rStatus = "done" /\ files[Root].fault # "halts" =>
        (sStatus = "ok" <=>
            /\ ShowsNothingWrong
            /\ \A m \in Reachable(files) : ~StrictOnly(files, m))

\* Both loads end, the strict one first, whatever cycles the graph has.
LoadingEnds == <>(rStatus = "done" \/ (rStatus = "failed" /\ rCancelled))

\* What the assertion in leave says (module.rs:3093), on every path.
LeavePopsOwn == S!LeavePopsOwn
=============================================================================
