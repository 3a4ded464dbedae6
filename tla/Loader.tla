------------------------------- MODULE Loader -------------------------------
(***************************************************************************)
(* telora-core: the recoverable workspace builder of module.rs.            *)
(*                                                                         *)
(* load_telora is an async recursion over imports.  Its calls are frames   *)
(* of a stack; a step is one import of the innermost call, the value a     *)
(* load returns waits in returned until the caller binds it.  A frame is   *)
(* on the stack exactly while its module is in RecoverableWorkspace-       *)
(* Builder.visiting.  The query may be cancelled at any time: a load whose *)
(* checkpoint fails returns None like a module that cannot be read.        *)
(***************************************************************************)
EXTENDS ModuleGraph

CONSTANTS Graphs        \* source trees to load

VARIABLES
    files,           \* the source tree (external)
    cancelled,       \* the query's token is set or its revision is over
    status,          \* recover_workspace_async: running, then done or failed
    stack,           \* calls of load_telora under way
    returned,        \* what the last load returned: nothing yet, a value, None
    inputs,          \* SemanticModuleInput by module
    values,          \* modules whose value, root and interface are known
    cycle_members,
    cycle_reported,
    reads            \* how often each source has been read (history)

vars == <<files, cancelled, status, stack, returned, inputs, values,
          cycle_members, cycle_reported, reads>>

\* Diagnostics of a module: what is wrong with an import, or with its own text.
Diagnostics ==
    {"resolve", "select", "open", "cycle", "unavailable", "ambiguous",
     "option", "silent", "native", "unparsed", "raises", "ill"}

States == {"Known", "Partial", "Unavailable"}

Frame == [module : Modules, next : Nat, bound : SUBSET Nat,
          opened : [Names -> SUBSET (Sources \cup {Builtin, Prelude})],
          diagnostics : SUBSET Diagnostics]

Inputs == [state : States, targets : SUBSET (Sources \cup {Builtin}),
           diagnostics : SUBSET Diagnostics]

TypeOK ==
    /\ cancelled \in BOOLEAN
    /\ status \in {"start", "running", "done", "failed"}
    /\ stack \in Seq(Frame)
    /\ returned \in {"nothing", "value", "none"}
    /\ DOMAIN inputs \subseteq Modules
    /\ \A m \in DOMAIN inputs : inputs[m] \in Inputs
    /\ values \subseteq DOMAIN inputs
    /\ cycle_members \subseteq Modules
    /\ cycle_reported \in BOOLEAN
    /\ reads \in [Modules -> Nat]

NewBuilder ==
    /\ cancelled = FALSE
    /\ status = "start"
    /\ stack = <<>>
    /\ returned = "nothing"
    /\ inputs = [m \in {} |-> 0]
    /\ values = {}
    /\ cycle_members = {}
    /\ cycle_reported = FALSE
    /\ reads = [m \in Modules |-> 0]

Init == files \in Graphs /\ NewBuilder

Top == stack[Len(stack)]
Visiting == {stack[i].module : i \in DOMAIN stack}

\* The frame of a call that has read and parsed its source.
NewFrame(m) ==
    [module |-> m, next |-> 1, bound |-> {},
     opened |-> [n \in Names |-> {}],
     diagnostics |->
        {f \in {"option", "native", "silent", "unparsed"} : files[m].fault = f}]

Input(state, targets, diagnostics) ==
    [state |-> state, targets |-> targets, diagnostics |-> diagnostics]

WithInput(m, input) ==
    [x \in DOMAIN inputs \cup {m} |-> IF x = m THEN input ELSE inputs[x]]

\* Mutant: a module with an input answers like one with a value.
AnswerPartial(m) ==
    CASE cancelled -> "none"
      [] ~cancelled /\ m \in DOMAIN inputs -> "value"
      [] ~cancelled /\ m \notin DOMAIN inputs /\ m \in Visiting -> "none"
      [] OTHER -> "nothing"

\* Where a load of m ends that returns without reading: at its checkpoint,
\* with a value already known, with an input without a value, or on a cycle.
Answer(m) ==
    CASE cancelled -> "none"
      [] ~cancelled /\ m \in values -> "value"
      [] ~cancelled /\ m \notin values /\ m \in DOMAIN inputs \cup Visiting -> "none"
      [] OTHER -> "nothing"

\* The members a load of m adds when m is being visited: the modules of the
\* stack from m on.
CycleFrom(m) ==
    {stack[i].module :
        i \in {j \in DOMAIN stack :
                 \E k \in 1..j : stack[k].module = m}}

\* load_telora and load_static_data share their first half.
Answered(m) ==
    /\ Answer(m) # "nothing"
    /\ returned' = Answer(m)
    /\ cycle_members' =
          IF ~cancelled /\ m \in Visiting \ (values \cup DOMAIN inputs)
          THEN cycle_members \cup CycleFrom(m) ELSE cycle_members
    /\ UNCHANGED <<stack, inputs, values, reads>>

\* The file is in no overlay and cannot be read.
LoadUnreadable(m) ==
    /\ Answer(m) = "nothing"
    /\ files[m].fault = "unreadable"
    /\ inputs' = WithInput(m, Input("Unavailable", {}, {}))
    /\ returned' = "none"
    /\ reads' = [reads EXCEPT ![m] = @ + 1]
    /\ UNCHANGED <<stack, values, cycle_members>>

\* load_static_data
LoadStaticData(m) ==
    /\ Answer(m) = "nothing"
    /\ files[m].kind # "telora"
    /\ files[m].fault # "unreadable"
    /\ reads' = [reads EXCEPT ![m] = @ + 1]
    /\ IF files[m].fault = "none"
       THEN /\ inputs' = WithInput(m, Input("Known", {}, {}))
            /\ values' = values \cup {m}
            /\ returned' = "value"
       ELSE /\ inputs' = WithInput(m, Input("Unavailable", {}, {"unparsed"}))
            /\ returned' = "none"
            /\ UNCHANGED values
    /\ UNCHANGED <<stack, cycle_members>>

\* Mutant: a module that failed before is read again for each importer.
EnterAgain(m) ==
    /\ Answer(m) = "nothing" \/ (~cancelled /\ m \in DOMAIN inputs \ values)
    /\ files[m].kind = "telora"
    /\ files[m].fault # "unreadable"
    /\ stack' = Append(stack, NewFrame(m))
    /\ reads' = [reads EXCEPT ![m] = @ + 1]
    /\ UNCHANGED <<returned, inputs, values, cycle_members>>

\* load_telora up to its imports: read, parse, push on visiting.
EnterTelora(m) ==
    /\ Answer(m) = "nothing"
    /\ files[m].kind = "telora"
    /\ files[m].fault # "unreadable"
    /\ stack' = Append(stack, NewFrame(m))
    /\ reads' = [reads EXCEPT ![m] = @ + 1]
    /\ UNCHANGED <<returned, inputs, values, cycle_members>>

Load(m) ==
    Answered(m) \/ LoadUnreadable(m) \/ LoadStaticData(m) \/ EnterTelora(m)

----------------------------------------------------------------------------
\* The import the innermost call is at.
AtImport ==
    /\ status = "running"
    /\ stack # <<>>
    /\ Top.next <= Len(files[Top.module].imports)

NextImport == files[Top.module].imports[Top.next]

ReplaceTop(frame) == stack' = [stack EXCEPT ![Len(stack)] = frame]

\* Mutant: a failed binding is tried again.
UnboundAgain(diagnostics) ==
    ReplaceTop([Top EXCEPT !.diagnostics = @ \cup diagnostics])

\* The binding fails with a diagnostic, or with none.
Unbound(diagnostics) ==
    ReplaceTop([Top EXCEPT !.next = @ + 1, !.diagnostics = @ \cup diagnostics])

\* An import's value arrived: open it, or bind it (or its selected export).
Bound(import) ==
    IF import.open
    THEN IF IsRecord(files, import.target)
         THEN ReplaceTop([Top EXCEPT !.next = @ + 1,
                             !.opened = Opened(files, @, import.target)])
         ELSE Unbound({"open"})
    ELSE IF Selects(files, import)
         THEN ReplaceTop([Top EXCEPT !.next = @ + 1, !.bound = @ \cup {Top.next}])
         ELSE Unbound({"select"})

\* The resolver refuses the target.
ImportUnresolved ==
    /\ AtImport /\ returned = "nothing"
    /\ NextImport.target = Unresolved
    /\ Unbound({"resolve"})
    /\ UNCHANGED <<files, cancelled, status, returned, inputs, values,
                   cycle_members, cycle_reported, reads>>

\* Built-in modules are installed before anything is loaded.
ImportBuiltin ==
    /\ AtImport /\ returned = "nothing"
    /\ NextImport.target = Builtin
    /\ Bound(NextImport)
    /\ UNCHANGED <<files, cancelled, status, returned, inputs, values,
                   cycle_members, cycle_reported, reads>>

ImportSource ==
    /\ AtImport /\ returned = "nothing"
    /\ NextImport.target \in Sources
    /\ Load(NextImport.target)
    /\ UNCHANGED <<files, cancelled, status, cycle_reported>>

BindValue ==
    /\ AtImport /\ returned = "value"
    /\ Bound(NextImport)
    /\ returned' = "nothing"
    /\ UNCHANGED <<files, cancelled, status, inputs, values, cycle_members,
                   cycle_reported, reads>>

\* Only the first import that meets a cycle reports it.
BindNone ==
    /\ AtImport /\ returned = "none"
    /\ IF NextImport.target \in cycle_members
       THEN /\ Unbound(IF cycle_reported THEN {} ELSE {"cycle"})
            /\ cycle_reported' = TRUE
       ELSE /\ Unbound({"unavailable"})
            /\ UNCHANGED cycle_reported
    /\ returned' = "nothing"
    /\ UNCHANGED <<files, cancelled, status, inputs, values, cycle_members, reads>>

\* The providers of a name once the imports are done, the prelude's included.
WithPrelude(opened) == [n \in Names |-> opened[n] \cup OnlyPrelude[n]]

\* analyze_and_evaluate is tried.
Tried(m) ==
    /\ m \notin cycle_members
    /\ files[m].fault \notin {"option", "silent", "unparsed"}

Evaluates(f) ==
    /\ Tried(f.module)
    /\ Analyses(files, f.module, f.bound, WithPrelude(f.opened))
    /\ files[f.module].fault \in {"none", "misset", "skipped"}

\* What the end of load_telora adds to the diagnostics.  Only a recoverable
\* failure of the evaluation says why; the strict analysis says nothing, but
\* the partial one may have found the same type error (FinishTelora).
LastDiagnostics(f) ==
    f.diagnostics
    \cup (IF Ambiguous(files, f.module, WithPrelude(f.opened))
                 \cap files[f.module].uses # {}
          THEN {"ambiguous"} ELSE {})
    \cup (IF /\ Tried(f.module)
             /\ Analyses(files, f.module, f.bound, WithPrelude(f.opened))
             /\ files[f.module].fault = "raises"
          THEN {"raises"} ELSE {})

\* A module without exports, one on a cycle and one of which the parser
\* recovered nothing are unavailable.
StateOf(f, nothingRecovered) ==
    IF files[f.module].fault = "silent" THEN "Unavailable"
    ELSE IF Evaluates(f) THEN "Known"
    ELSE IF f.module \in cycle_members \/ nothingRecovered THEN "Unavailable"
    ELSE "Partial"

Targets(m) ==
    {files[m].imports[i].target : i \in DOMAIN files[m].imports} \ {Unresolved}

FinishTelora ==
    /\ status = "running"
    /\ stack # <<>> /\ returned = "nothing"
    /\ Top.next > Len(files[Top.module].imports)
    /\ stack' = SubSeq(stack, 1, Len(stack) - 1)
    /\ IF cancelled
       THEN /\ returned' = "none"
            /\ UNCHANGED <<inputs, values>>
       ELSE \E nothingRecovered \in BOOLEAN, found \in SUBSET {"ill"} :
            /\ nothingRecovered => files[Top.module].fault = "unparsed"
            /\ found # {} => files[Top.module].fault \in {"ill", "nested"}
            /\ inputs' = WithInput(Top.module,
                            Input(StateOf(Top, nothingRecovered), Targets(Top.module),
                                  LastDiagnostics(Top) \cup found))
            /\ IF Evaluates(Top)
               THEN values' = values \cup {Top.module} /\ returned' = "value"
               ELSE returned' = "none" /\ UNCHANGED values
    /\ UNCHANGED <<files, cancelled, status, cycle_members, cycle_reported, reads>>

----------------------------------------------------------------------------
\* recover_workspace_async: a checkpoint, the root, a checkpoint, the snapshot.
Start ==
    /\ status = "start"
    /\ IF cancelled
       THEN status' = "failed" /\ UNCHANGED <<stack, returned, inputs, values,
                                              cycle_members, reads>>
       ELSE status' = "running" /\ Load(Root)
    /\ UNCHANGED <<files, cancelled, cycle_reported>>

Stop ==
    /\ status = "running"
    /\ stack = <<>>
    /\ status' = IF cancelled THEN "failed" ELSE "done"
    /\ UNCHANGED <<files, cancelled, stack, returned, inputs, values,
                   cycle_members, cycle_reported, reads>>

\* An edit or a cancel request makes every further checkpoint fail.
Cancel ==
    /\ ~cancelled /\ status \in {"start", "running"}
    /\ cancelled' = TRUE
    /\ UNCHANGED <<files, status, stack, returned, inputs, values,
                   cycle_members, cycle_reported, reads>>

Build ==
    \/ Start \/ ImportUnresolved \/ ImportBuiltin \/ ImportSource
    \/ BindValue \/ BindNone \/ FinishTelora \/ Stop

Next == Build \/ Cancel

Spec == Init /\ [][Next]_vars
\* The future is polled until it is ready: every yield wakes its own task.
FairSpec == Spec /\ WF_vars(Build)

----------------------------------------------------------------------------
\* What is being visited are different modules, each imported by the one below.
VisitingIsAPath ==
    /\ \A i, j \in DOMAIN stack : stack[i].module = stack[j].module => i = j
    /\ \A i \in DOMAIN stack : i > 1 =>
          stack[i].module \in ImportsOf(files, stack[i - 1].module)

\* Whatever is marked as a member of a cycle is on one.
MembersAreOnCycles == \A m \in cycle_members : OnCycle(files, m)

\* A value rests on values: a module is Known only if every name it imports is
\* bound by a module that is, and none of them is on a cycle (RFC 0044: no value
\* is created for a partial or unavailable module).
KnownRestsOnKnown ==
    \A m \in values : files[m].kind = "telora" =>
        LET imports == files[m].imports
            held == {i \in DOMAIN imports : imports[i].target \in values \cup {Builtin}}
        IN  \A i \in DOMAIN imports : imports[i].open \/ BindsName(files, m, held, i)

\* The snapshot has a module for every import edge: build() indexes its table
\* of modules with the targets and would panic.
SnapshotIsClosed ==
    status = "done" =>
        \A m \in DOMAIN inputs : inputs[m].targets \cap Sources \subseteq DOMAIN inputs

\* Every module the root reaches is loaded, once, whatever fails on the way.
EachOnce ==
    /\ \A m \in Modules : reads[m] <= 1
    /\ status = "done" => DOMAIN inputs = Reachable(files)

\* Whatever evaluates in the whole graph is Known, and if nothing is reported
\* no other module is: the order of the imports and what fails on the way make
\* no difference.
KnownIfRecoverable ==
    status = "done" =>
        /\ Recoverable(files) \cap Reachable(files) \subseteq values
        /\ (\A m \in DOMAIN inputs : inputs[m].diagnostics = {}) =>
              values \subseteq Recoverable(files)

\* Loading ends, with a snapshot unless the query is cancelled.
LoadingEnds == <>(status = "done" \/ (status = "failed" /\ cancelled))
=============================================================================
