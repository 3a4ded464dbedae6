----------------------------- MODULE StrictLoader -----------------------------
(***************************************************************************)
(* telora-core: ModuleLoader of module.rs, the loader of a program that is *)
(* to be run.  The first error ends the load.  compile_telora recurses     *)
(* over the imports: its calls are the frames of a stack, innermost last.  *)
(* enter and leave keep the visiting list beside that stack; the two agree *)
(* only as far as every return of a call passes its leave.                 *)
(***************************************************************************)
EXTENDS ModuleGraph, SequencesExt

CONSTANTS Graphs

VARIABLES
    files,         \* the source tree (external)
    status,        \* start, running, then ok
    stack,         \* calls of compile_telora under way
    visiting,      \* ModuleLoader.visiting
    error,         \* the error that is being returned, or "none"
    cache,         \* ModuleLoader.cache: modules with a value
    semantic,      \* keys of semantic_inputs
    dependencies,  \* ModuleLoader.dependencies
    reads          \* how often each file has been read (history)

vars == <<files, status, stack, visiting, error, cache, semantic, dependencies, reads>>

Errors == {"none", "read", "option", "syntax", "setting", "silent", "nested", "duplicate",
           "resolve", "cycle", "select", "open", "ambiguous", "native", "analysis",
           "evaluation"}

Frame == [module : Modules, next : Nat,
          opened : [Names -> SUBSET (Sources \cup {Builtin, Prelude})]]

TypeOK ==
    /\ status \in {"start", "running", "ok", "failed"}
    /\ stack \in Seq(Frame)
    /\ visiting \in Seq(Modules)
    /\ error \in Errors
    /\ cache \subseteq semantic
    /\ semantic \subseteq dependencies
    /\ dependencies \subseteq Modules
    /\ reads \in [Modules -> Nat]

Init ==
    /\ files \in Graphs
    /\ status = "start"
    /\ stack = <<>>
    /\ visiting = <<>>
    /\ error = "none"
    /\ cache = {}
    /\ semantic = {}
    /\ dependencies = {}
    /\ reads = [m \in Modules |-> 0]

Top == Last(stack)
Visiting == {visiting[i] : i \in DOMAIN visiting}

NewFrame(m) == [module |-> m, next |-> 1, opened |-> [n \in Names |-> {}]]

\* What is wrong with the text of a module before its imports are looked at.
TextError(m) ==
    CASE files[m].fault = "unreadable" -> "read"
      [] files[m].fault = "option" /\ m # Root -> "option"
      [] files[m].fault = "unparsed" -> "syntax"
      [] files[m].fault = "misset" -> "setting"
      [] files[m].fault = "silent" -> "silent"
      [] files[m].fault \in {"nested", "skipped"} -> "nested"
      [] OTHER -> "none"

\* enter refuses a module that is being visited.
Refuses(m) == m \in Visiting

\* enter, then compile_telora up to the imports.
EnterTelora(m) ==
    /\ files[m].kind = "telora"
    /\ dependencies' = IF Refuses(m) THEN dependencies ELSE dependencies \cup {m}
    /\ IF Refuses(m)
       THEN error' = "cycle" /\ UNCHANGED <<stack, visiting, reads>>
       ELSE /\ error' = TextError(m)
            /\ visiting' = Append(visiting, m)
            /\ stack' = Append(stack, NewFrame(m))
            /\ reads' = [reads EXCEPT ![m] = @ + 1]
    /\ UNCHANGED <<cache, semantic>>

\* A data file that cannot be read returns before leave; one that does not
\* parse passes leave and then fails.
LoadData(m) ==
    /\ files[m].kind # "telora"
    /\ dependencies' = dependencies \cup {m}
    /\ reads' = [reads EXCEPT ![m] = @ + 1]
    /\ error' = TextError(m)
    /\ visiting' = IF error' = "read" THEN Append(visiting, m) ELSE visiting
    /\ IF error' = "none"
       THEN cache' = cache \cup {m} /\ semantic' = semantic \cup {m}
       ELSE UNCHANGED <<cache, semantic>>
    /\ UNCHANGED stack

----------------------------------------------------------------------------
Running == status = "running" /\ stack # <<>> /\ error = "none"

AtImport == Running /\ Top.next <= Len(files[Top.module].imports)
NextImport == files[Top.module].imports[Top.next]
\* Mutant: a later import replaces the one before it.
BoundNever(f) == FALSE

\* external_bindings has the name that the call's next import would bind.
Bound(f) == Doubled(files, f.module, f.next)

ReplaceTop(frame) == stack' = [stack EXCEPT ![Len(stack)] = frame]

\* The name is bound already: the target is not even resolved.
ImportDuplicate ==
    /\ AtImport
    /\ Bound(Top)
    /\ error' = "duplicate"
    /\ UNCHANGED <<files, status, stack, visiting, cache, semantic, dependencies, reads>>

ImportUnresolved ==
    /\ AtImport /\ ~Bound(Top)
    /\ NextImport.target = Unresolved
    /\ error' = "resolve"
    /\ UNCHANGED <<files, status, stack, visiting, cache, semantic, dependencies, reads>>

\* The target is not loaded yet: load_resolved_value calls back.
ImportUnloaded ==
    /\ AtImport /\ ~Bound(Top)
    /\ NextImport.target \in Sources \ cache
    /\ EnterTelora(NextImport.target) \/ LoadData(NextImport.target)
    /\ UNCHANGED <<files, status>>

\* Mutant: any module may be opened, any export selected.
ImportErrorNever(import) == "none"

\* What is wrong with binding an import whose target is loaded.
ImportError(import) ==
    IF import.open
    THEN IF IsRecord(files, import.target) THEN "none" ELSE "open"
    ELSE IF Selects(files, import) THEN "none" ELSE "select"

\* The target is in the cache or built in: it is bound or its exports opened.
ImportLoaded ==
    /\ AtImport /\ ~Bound(Top)
    /\ NextImport.target \in cache \cup {Builtin}
    /\ error' = ImportError(NextImport)
    /\ ReplaceTop([Top EXCEPT
          !.next = @ + 1,
          !.opened = IF NextImport.open THEN Opened(files, @, NextImport.target) ELSE @])
    /\ UNCHANGED <<files, status, visiting, cache, semantic, dependencies, reads>>

\* The names the prelude provides besides the opened modules.
WithPrelude(opened) == [n \in Names |-> opened[n] \cup OnlyPrelude[n]]

\* The rest of compile_telora: names, natives, analysis and code.
BodyError(f) ==
    LET m == f.module
        opened == WithPrelude(f.opened)
    IN  IF files[m].uses \cap Ambiguous(files, m, opened) # {} THEN "ambiguous"
        ELSE IF files[m].fault \in {"native", "unregistered"} THEN "native"
        ELSE IF Analyses(files, m, DOMAIN files[m].imports, opened) THEN "none"
        ELSE "analysis"

\* leave takes the last module off the list.
Left(list) == Front(list)

\* compile_telora ends well.  An imported module is executed and published.
FinishTelora ==
    /\ Running
    /\ Top.next > Len(files[Top.module].imports)
    /\ LET compiled == BodyError(Top) IN
       /\ error' = IF compiled = "none" /\ Top.module # Root
                      /\ files[Top.module].fault \in {"raises", "halts"}
                   THEN "evaluation" ELSE compiled
       /\ semantic' = IF compiled = "none" THEN semantic \cup {Top.module} ELSE semantic
       /\ IF error' = "none"
          THEN /\ cache' = cache \cup ({Top.module} \ {Root})
               /\ stack' = Front(stack)
               /\ visiting' = Left(visiting)
          ELSE UNCHANGED <<cache, stack, visiting>>
    /\ UNCHANGED <<files, status, dependencies, reads>>

\* An error returns through one call: its leave pops what is on top.
Fail ==
    /\ status = "running" /\ stack # <<>> /\ error # "none"
    /\ stack' = Front(stack)
    /\ visiting' = Left(visiting)
    /\ UNCHANGED <<files, status, error, cache, semantic, dependencies, reads>>

\* load_root
Start ==
    /\ status = "start"
    /\ status' = "running"
    /\ EnterTelora(Root)
    /\ UNCHANGED files

Stop ==
    /\ status = "running" /\ stack = <<>>
    /\ status' = IF error = "none" THEN "ok" ELSE "failed"
    /\ UNCHANGED <<files, stack, visiting, error, cache, semantic, dependencies, reads>>

Next ==
    \/ Start \/ ImportDuplicate \/ ImportUnresolved \/ ImportUnloaded \/ ImportLoaded
    \/ FinishTelora \/ Fail \/ Stop

Spec == Init /\ [][Next]_vars
\* load_root runs to its end on the thread that called it.
FairSpec == Spec /\ WF_vars(Next)

----------------------------------------------------------------------------
\* As long as nothing failed, visiting is the stack of calls, so enter sees a
\* module that is being compiled and no other.
VisitingIsTheStack ==
    error = "none" => visiting = [i \in DOMAIN stack |-> stack[i].module]

\* A module enters the cache only if it evaluates in the whole graph, and only
\* after all that it imports.
CacheEvaluates ==
    /\ cache \subseteq Evaluable(files)
    /\ \A m \in cache : ImportsOf(files, m) \subseteq cache

\* A load succeeds exactly when the root compiles over modules that evaluate:
\* cycles, ambiguous names and broken modules the root reaches all refuse it.
RootCompiles ==
    /\ RestsOn(files, Evaluable(files), Root)
    /\ Sound([files EXCEPT ![Root].fault =
                 IF @ \in {"raises", "halts"} THEN "none" ELSE @], Root)

OkIfCompiles ==
    /\ status = "ok" => RootCompiles
    /\ status = "failed" => ~RootCompiles

\* A loaded program lists every file that it was made of, and no file is read
\* twice: the snapshot has the modules that the root reaches.
LoadedWhole ==
    /\ \A m \in Modules : reads[m] <= 1
    /\ status = "ok" => dependencies = Reachable(files) /\ semantic = dependencies

\* The load ends, whatever cycles the graph has.
LoadingEnds == <>(status \in {"ok", "failed"})

\* What the assertion in leave says: the module left is the last one entered.
LeavePopsOwn ==
    [][Len(visiting') < Len(visiting) => Last(visiting) = Top.module]_vars
=============================================================================
