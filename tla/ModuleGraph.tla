---------------------------- MODULE ModuleGraph ----------------------------
(***************************************************************************)
(* What the two loaders of module.rs read: the source tree of a program,   *)
(* one record per module, and which imports, names and bodies a module     *)
(* needs to be evaluated.  Module identities are canonical (module_id.rs); *)
(* the root is @main, which no source may import.                          *)
(***************************************************************************)
EXTENDS Integers, Sequences, FiniteSets

CONSTANTS
    Sources,     \* identities of the modules besides the root
    Root,        \* @main
    Builtin,     \* stands for a built-in module
    Prelude,     \* core/prelude, opened by every module
    Unresolved,  \* a target that the resolver refuses
    Names,       \* exported names
    Locals,      \* names that imports bind
    Whole,       \* an import of the module itself, not of one export
    BuiltinNames, PreludeNames

Modules == Sources \cup {Root}

(* The first thing wrong with a module's own text, in the order the loaders *)
(* would meet it: it cannot be read or parsed, has an option outside @main, *)
(* gives one a value it cannot have, exports nothing, has an import or a    *)
(* native inside an expression (one that the compiler refuses, or an open   *)
(* import, which it skips), declares a native (in an ordinary or a package- *)
(* system module), does not type check, raises or exhausts a quota.         *)
Faults == {"none", "unreadable", "unparsed", "option", "misset", "silent", "nested",
           "skipped", "native", "unregistered", "ill", "raises", "halts"}

ASSUME GraphAssumption ==
    /\ Root \notin Sources
    /\ Builtin \notin Modules /\ Unresolved \notin Modules
    /\ Prelude \notin Modules /\ Prelude # Builtin /\ Unresolved # Builtin
    /\ BuiltinNames \subseteq Names /\ PreludeNames \subseteq Names

\* An import that is not open binds the name it is given.
Import == [target : Sources \cup {Builtin, Unresolved}, open : BOOLEAN,
           select : Names \cup {Whole}, as : Locals]

\* A tree has a record for each module.  No import names the root, which is
\* source code and may have options, as no other module may; data imports
\* nothing.
ValidTree(files) ==
    /\ DOMAIN files = Modules
    /\ \A m \in Modules :
        /\ files[m].kind \in {"telora", "dict", "scalar"}
        /\ files[m].fault \in Faults
        /\ files[m].exports \subseteq Names
        /\ files[m].imports \in Seq(Import)
        /\ files[m].fault = "misset" => m = Root
        /\ files[m].kind # "telora" =>
              files[m].imports = <<>> /\ files[m].fault \in {"none", "unreadable", "unparsed"}
    /\ files[Root].kind = "telora" /\ files[Root].fault # "option"

\* What module m of the tree files exports: data has an empty interface.
ExportsOf(files, m) ==
    IF m = Builtin THEN BuiltinNames
    ELSE IF m = Prelude THEN PreludeNames
    ELSE IF files[m].kind = "telora" THEN files[m].exports ELSE {}

\* Only a record of values can be opened or imported from.
IsRecord(files, m) == m = Builtin \/ files[m].kind # "scalar"

\* select_import_value: the export asked for is there, or all is asked for.
Selects(files, import) ==
    import.select # Whole =>
        /\ IsRecord(files, import.target)
        /\ import.select \in ExportsOf(files, import.target)

\* Open names that no explicit binding hides.
Candidates(files, m, opened) ==
    {n \in Names : n \notin files[m].own /\ opened[n] # {}}

\* Of these, the names of one provider are bound, the others are ambiguous.
Ambiguous(files, m, opened) ==
    {n \in Candidates(files, m, opened) : Cardinality(opened[n]) > 1}

Unique(files, m, opened) ==
    Candidates(files, m, opened) \ Ambiguous(files, m, opened)

\* What the import i binds, one of the imports in bound does, i or a namesake.
BindsName(files, m, bound, i) ==
    \E j \in bound : /\ ~files[m].imports[j].open
                     /\ files[m].imports[j].as = files[m].imports[i].as

(* analyze_program_with_bindings and the compiler, given the imports that   *)
(* are bound: every import binding needs a value, every name a meaning.     *)
(* Names of the prelude have one from the bootstrap, bound or not.          *)
Analyses(files, m, bound, opened) ==
    /\ files[m].fault \notin {"nested", "native", "unregistered", "ill"}
    /\ \A i \in DOMAIN files[m].imports :
          files[m].imports[i].open \/ BindsName(files, m, bound, i)
    /\ files[m].uses \subseteq
          files[m].own \cup Unique(files, m, opened) \cup PreludeNames

\* The providers of each name when only the prelude is open.
OnlyPrelude == [n \in Names |-> IF n \in PreludeNames THEN {Prelude} ELSE {}]

\* open_import_exports: provider joins the candidates of what it exports.
Opened(files, opened, provider) ==
    [n \in Names |-> IF n \in ExportsOf(files, provider)
                     THEN opened[n] \cup {provider} ELSE opened[n]]

(***************************************************************************)
(* The graph itself: an edge for every import that resolves to a source.   *)
(***************************************************************************)
ImportsOf(files, m) ==
    IF files[m].kind = "telora" /\ files[m].fault # "unreadable"
    THEN {files[m].imports[i].target : i \in DOMAIN files[m].imports} \cap Sources
    ELSE {}

\* What can be reached from a set of modules by following imports: the smallest
\* set that has them and, with a module, all that it imports.
Closure(files, start) ==
    LET Closed == {S \in SUBSET Modules :
                      start \subseteq S /\ \A m \in S : ImportsOf(files, m) \subseteq S}
    IN  {m \in Modules : \A S \in Closed : m \in S}

Reachable(files) == Closure(files, {Root})

OnCycle(files, m) == m \in Closure(files, ImportsOf(files, m))

(* Modules that evaluate: data that parses, and sources without a fault     *)
(* whose imports all evaluate (so none of them is on a cycle) and whose     *)
(* names mean one thing: the smallest set that has every sound module       *)
(* which rests on it.                                                       *)
AllOpen(files, m) ==
    [n \in Names |->
        OnlyPrelude[n] \cup
        {t \in Sources \cup {Builtin} :
            /\ n \in ExportsOf(files, t)
            /\ \E i \in DOMAIN files[m].imports :
                  files[m].imports[i].open /\ files[m].imports[i].target = t}]

\* A module in which the recoverable loader finds no fault of its own and none
\* in how it uses what it imports.
Accepted(files, m) ==
    /\ files[m].fault \in {"none", "misset", "skipped"}
    /\ files[m].kind = "telora" =>
        /\ \A i \in DOMAIN files[m].imports :
              LET import == files[m].imports[i] IN
              /\ import.target # Unresolved
              /\ IF import.open THEN IsRecord(files, import.target)
                 ELSE Selects(files, import)
        /\ files[m].uses \cap Ambiguous(files, m, AllOpen(files, m)) = {}
        /\ Analyses(files, m, DOMAIN files[m].imports, AllOpen(files, m))

\* The import i binds a name that an import before it binds.
Doubled(files, m, i) ==
    /\ ~files[m].imports[i].open
    /\ \E j \in 1..(i - 1) : /\ ~files[m].imports[j].open
                             /\ files[m].imports[j].as = files[m].imports[i].as

\* Errors that only the strict loader looks for: the value of an option, an
\* import inside an expression, a name that two imports bind.
StrictOnly(files, m) ==
    \/ files[m].fault \in {"misset", "nested", "skipped"}
    \/ \E i \in DOMAIN files[m].imports : Doubled(files, m, i)

\* A module in which the strict loader finds no fault either.
Sound(files, m) == Accepted(files, m) /\ ~StrictOnly(files, m)

RestsOn(files, S, m) ==
    \A i \in DOMAIN files[m].imports : files[m].imports[i].target \in S \cup {Builtin}

\* The smallest set that has each of the given modules which rests on it.
Grounded(files, given) ==
    LET Closed == {S \in SUBSET Modules : \A m \in given : RestsOn(files, S, m) => m \in S}
    IN  {m \in Modules : \A S \in Closed : m \in S}

Evaluable(files) == Grounded(files, {m \in Modules : Sound(files, m)})

\* What evaluates as far as the recoverable loader looks.
Recoverable(files) == Grounded(files, {m \in Modules : Accepted(files, m)})
=============================================================================
