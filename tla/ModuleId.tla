------------------------------ MODULE ModuleId ------------------------------
(***************************************************************************)
(* Module identities and their resolution (module_id.rs): the layout of a  *)
(* crate is turned into a resolver, and the resolver turns an importer and *)
(* a request into an identity, a format, an authority and a file.          *)
(*                                                                         *)
(* A path is a sequence of names, without the leading slash when it is     *)
(* absolute; a request is the sequence of names between its slashes.       *)
(* Importing from what is reached already gives all that can be reached.   *)
(***************************************************************************)
EXTENDS Integers, Sequences, FiniteSets, SequencesExt

CONSTANTS
    Name,       \* the names paths are made of
    Layouts,    \* crates on disk: see LayoutsAssumption
    Extension,  \* file name -> "telora", "json", "yaml", "other" or "none"
    Mark        \* file name -> penultimate suffix: "priv", "native" or "none"

\* A path is a sequence of names, absolute or relative, or a request.
Path == Seq(Name)

\* files, dirs: what is on disk; links: symbolic link -> canonical target;
\* manifests: directories that hold telora-deps.json; dependencies, formats:
\* what the manifest says; options: the crate.* options of the root source;
\* requests: what the modules import.

\* resolver: the configuration, or why it was refused; reached: modules resolved
\* so far; entered: those whose imports are resolved; edges: importer's id,
\* request and module.
VARIABLES layout, resolver, reached, entered, edges

vars == <<layout, resolver, reached, entered, edges>>

Main == [kind |-> "Main"]
SourceId(path) == [kind |-> "Source", path |-> path]
DependencyId(name, path) == [kind |-> "Dependency", name |-> name, path |-> path]
BuiltinId(request) == [kind |-> "Builtin", path |-> request]

Refused(why) == [refused |-> why]
IsRefused(x) == "refused" \in DOMAIN x

----------------------------------------------------------------------------
(* Paths                                                                    *)

Parent(path) == SubSeq(path, 1, Len(path) - 1)

Ancestors(path) == {SubSeq(path, 1, n) : n \in 0..Len(path)}

\* ".." above the root of an absolute path stays at the root.
LexicalNormalize(path) ==
    FoldLeft(LAMBDA done, name :
                 CASE name = "."  -> done
                   [] name = ".." -> IF done = <<>> THEN done ELSE Front(done)
                   [] OTHER       -> Append(done, name),
             <<>>, path)

Escapes == <<"..">>

\* Mutant: a path is taken as it is written.
AsWritten(path) == IF path # <<>> /\ Head(path) = ".." THEN Escapes ELSE path

\* A relative path that climbs above where it starts has no normal form.
LexicalNormalizeRelative(path) ==
    FoldLeft(LAMBDA done, name :
                 CASE done = Escapes -> Escapes
                   [] done # Escapes /\ name = "."  -> done
                   [] done # Escapes /\ name = ".." ->
                         IF done = <<>> THEN Escapes ELSE Front(done)
                   [] OTHER -> Append(done, name),
             <<>>, path)

\* canonicalize: links are followed from the root down.
Canonical(links, path) ==
    FoldLeft(LAMBDA done, name :
                 LET next == Append(done, name) IN
                 IF next \in DOMAIN links THEN links[next] ELSE next,
             <<>>, path)

\* What is not there keeps its lexical form.
ResolvePhysical(path) ==
    LET absolute == LexicalNormalize(path)
        canonical == Canonical(layout.links, absolute)
    IN  IF canonical \in layout.files \cup layout.dirs THEN canonical ELSE absolute

IsSystemSource(path) ==
    path # <<>> /\ Extension[Last(path)] = "telora" /\ Mark[Last(path)] = "native"

IsPrivate(path) ==
    path # <<>> /\ (Mark[Last(path)] = "priv" \/ IsSystemSource(path))

AuthorityFor(path) == IF IsSystemSource(path) THEN "PackageSystem" ELSE "Ordinary"

----------------------------------------------------------------------------
(* Formats                                                                  *)

Formats == {"telora", "json", "toml", "yaml"}

Option == [key : {"crate.dependency"}, name : Name, path : Path]
          \cup [key : {"crate.format"}, module : Path, format : Formats]

ASSUME NamesAssumption == "src" \in Name

ASSUME LayoutsAssumption ==
    \A l \in Layouts :
        /\ l.root \in Path /\ l.entry \in Path
        /\ l.requests \cup l.builtins \cup l.injected \cup l.virtual \subseteq Path
        /\ l.dependencies \in [DOMAIN l.dependencies -> Path]
        /\ DOMAIN l.formats \subseteq Path
        /\ l.formats \in [DOMAIN l.formats -> Formats]
        /\ l.options \in Seq(Option)

FormatFromPath(path) ==
    LET name == Last(path) IN
    CASE path = <<>> -> "MissingExtension"
      [] path # <<>> /\ Mark[name] = "native" /\ Extension[name] # "telora" ->
            "InvalidModuleSuffix"
      [] path # <<>> /\ ~(Mark[name] = "native" /\ Extension[name] # "telora") ->
            IF Extension[name] \in Formats THEN Extension[name]
            ELSE IF Extension[name] = "none" THEN "MissingExtension"
            ELSE "UnknownExtension"

\* The name under which the manifest configures a module.
Shown(id) ==
    CASE id.kind = "Main"       -> <<"@main">>
      [] id.kind = "Source"     -> <<"@src">> \o id.path
      [] id.kind = "Dependency" -> <<id.name>> \o id.path
      [] id.kind = "Builtin"    -> id.path

FormatFor(r, id, physical) ==
    LET extension == FormatFromPath(physical)
        key == Shown(id)
    IN  IF key \notin DOMAIN r.formats THEN extension
        ELSE IF extension = "InvalidModuleSuffix" THEN extension
        ELSE IF extension \in Formats /\ extension # r.formats[key] THEN "FormatConflict"
        ELSE r.formats[key]

\* A module, unless it has no format.
Formatted(id, physical, format) ==
    IF format \in Formats
    THEN [id |-> id, format |-> format, physical |-> physical,
          authority |-> IF id = Main THEN "Ordinary" ELSE AuthorityFor(physical)]
    ELSE Refused(format)

Module(r, id, physical) == Formatted(id, physical, FormatFor(r, id, physical))

\* Built-in, injected and virtual modules have no file.
SystemModule(request) ==
    [id |-> BuiltinId(request), format |-> "telora", physical |-> <<>>,
     authority |-> "RuntimeSystem"]

----------------------------------------------------------------------------
(* The resolver of a layout                                                 *)

\* The nearest manifest above the root module decides where the crate is.
Manifest(start) ==
    LET found == Ancestors(start) \cap layout.manifests IN
    IF found = {} THEN {} ELSE {CHOOSE d \in found : \A e \in found : Len(e) <= Len(d)}

InferredRoot(start) ==
    IF start # <<>> /\ Last(start) = "bin-src" THEN Parent(start) ELSE start

SrcOr(root, otherwise) ==
    IF Canonical(layout.links, root \o <<"src">>) \in layout.dirs
    THEN ResolvePhysical(root \o <<"src">>)
    ELSE otherwise

With(f, x, v) == [y \in DOMAIN f \cup {x} |-> IF y = x THEN v ELSE f[y]]

\* crate.dependency and crate.format options of the root source, in order; a
\* second one of a name is refused.
ApplyOption(r, option) ==
    CASE IsRefused(r) -> r
      [] ~IsRefused(r) /\ option.key = "crate.dependency" ->
            IF option.name \in DOMAIN r.dependencies THEN Refused("duplicate dependency")
            ELSE [r EXCEPT !.dependencies =
                     With(@, option.name, ResolvePhysical(r.workspace_root \o option.path))]
      [] ~IsRefused(r) /\ option.key = "crate.format" ->
            IF option.module \in DOMAIN r.formats THEN Refused("duplicate format")
            ELSE [r EXCEPT !.formats = With(@, option.module, option.format)]
      [] OTHER -> Refused("unknown option")

ForRootSource ==
    LET root == LexicalNormalize(layout.root)
        start == Parent(root)
        manifest == Manifest(start)
        workspace == IF manifest = {} THEN InferredRoot(start)
                     ELSE CHOOSE d \in manifest : TRUE
        bare == [workspace_root |-> workspace,
                 source_root    |-> SrcOr(workspace, ResolvePhysical(start)),
                 main_path      |-> ResolvePhysical(root),
                 dependencies   |-> <<>>, formats |-> <<>>]
        loaded == IF manifest = {} THEN bare
                  ELSE [bare EXCEPT
                          !.dependencies = [n \in DOMAIN layout.dependencies |->
                              ResolvePhysical(workspace \o layout.dependencies[n])],
                          !.formats = layout.formats]
    IN  IF manifest # {} /\ layout.options # <<>>
        THEN Refused("manifest and options")
        ELSE FoldLeft(ApplyOption, loaded, layout.options)

ResolveRoot(r) ==
    IF IsPrivate(r.main_path) THEN Refused("PrivateModuleRoot")
    ELSE Module(r, Main, r.main_path)

----------------------------------------------------------------------------
(* Resolving an import                                                      *)

SourceAt(r, path, physical) ==
    IF ~IsPrefix(r.source_root, physical) \/ physical = r.main_path
    THEN Refused("CrateEscape")
    ELSE Module(r, SourceId(path), physical)

ResolveSource(r, path) == SourceAt(r, path, ResolvePhysical(r.source_root \o path))

DependencySources(r, name) ==
    SrcOr(r.dependencies[name], r.dependencies[name])

\* Mutant: private modules are open to all.
PartsUnchecked(r, name, path, allow_private) ==
    IF name \notin DOMAIN r.dependencies THEN Refused("UnknownDependency")
    ELSE Module(r, DependencyId(name, path), ResolvePhysical(DependencySources(r, name) \o path))

DependencyAt(r, id, sources, physical, allow_private) ==
    LET Checked(module) ==
            IF ~IsRefused(module) /\ IsPrivate(id.path) /\ ~allow_private
            THEN Refused("PrivateModuleAccess")
            ELSE module
    IN  IF IsPrefix(sources, physical) THEN Checked(Module(r, id, physical)) ELSE Refused("CrateEscape")

ResolveDependencyParts(r, name, path, allow_private) ==
    LET Below(sources) ==
            DependencyAt(r, DependencyId(name, path), sources, ResolvePhysical(sources \o path), allow_private)
    IN  IF name \notin DOMAIN r.dependencies THEN Refused("UnknownDependency")
        ELSE Below(DependencySources(r, name))

\* Relative to the importer's directory; the main module is taken to be at the
\* top of the sources, wherever it is.
InOwnerAt(r, importer, logical) ==
    CASE logical = Escapes -> Refused("CrateEscape")
      [] logical # Escapes /\ importer.kind \in {"Main", "Source"} ->
            ResolveSource(r, logical)
      [] logical # Escapes /\ importer.kind = "Dependency" ->
            ResolveDependencyParts(r, importer.name, logical, TRUE)

InOwner(r, importer, path) == InOwnerAt(r, importer, LexicalNormalizeRelative(path))

Relative(r, importer, request) ==
    IF importer.kind = "Builtin" THEN Refused("InvalidImport")
    ELSE InOwner(r, importer, (IF importer.kind = "Main" THEN <<>> ELSE Parent(importer.path)) \o request)

ResolveDependency(r, request, allow_private) ==
    LET logical == LexicalNormalizeRelative(Tail(request)) IN
    IF Len(request) < 2 THEN Refused("InvalidImport")
    ELSE IF logical = Escapes THEN Refused("CrateEscape")
    ELSE ResolveDependencyParts(r, Head(request), logical, allow_private)

AtNames == {"@main", "@src", "@other"}

\* The order of the tests is the code's: what is registered hides a dependency.
ResolveImport(r, importer, request) ==
    LET privileged == layout.entry # <<>> /\ importer = BuiltinId(layout.entry)
        first == Head(request)
    IN  IF request = <<>> THEN Refused("EmptyPath")
        ELSE IF request \in layout.virtual THEN SystemModule(request)
        ELSE IF request \in layout.injected
             THEN IF privileged THEN SystemModule(request)
                  ELSE Refused("PrivateModuleAccess")
        ELSE IF first = "entry" /\ Len(request) > 1
             THEN IF privileged /\ request \in layout.builtins THEN SystemModule(request)
                  ELSE Refused("InvalidImport")
        ELSE IF request \in layout.builtins THEN SystemModule(request)
        ELSE IF request = <<"@main">>
             THEN IF privileged THEN Module(r, Main, r.main_path)
                  ELSE Refused("InvalidImport")
        ELSE IF first = "@src" /\ Len(request) > 1
             THEN IF importer.kind = "Builtin" THEN Refused("InvalidImport")
                  ELSE InOwner(r, importer, Tail(request))
        ELSE IF first \in {".", ".."} /\ Len(request) > 1
             THEN Relative(r, importer, request)
        ELSE IF first \in AtNames THEN Refused("InvalidImport")
        ELSE ResolveDependency(r, request, privileged)

----------------------------------------------------------------------------
Init ==
    /\ layout \in Layouts
    /\ resolver = ForRootSource
    /\ entered = {} /\ edges = {}
    /\ LET root == IF IsRefused(resolver) THEN resolver ELSE ResolveRoot(resolver) IN
       reached = IF IsRefused(root) THEN {}
                 ELSE {root} \cup (IF layout.entry = <<>> THEN {}
                                   ELSE {SystemModule(layout.entry)})

Imports(importer) ==
    {e \in {<<importer.id, q, ResolveImport(resolver, importer.id, q)>> : q \in layout.requests} :
        ~IsRefused(e[3])}

\* A module can be resolved where no file is; it is loaded only if one is there.
Readable(m) == m.authority = "RuntimeSystem" \/ m.physical \in layout.files

\* The imports of source modules are resolved when they are loaded.  Resolving
\* keeps no state, so all the modules reached so far are taken at once.
Enter ==
    LET importers == {m \in reached \ entered : m.format = "telora" /\ Readable(m)} IN
    /\ importers # {}
    /\ \E new \in {UNION {Imports(m) : m \in importers}} :
       /\ edges' = edges \cup new
       /\ reached' = reached \cup {e[3] : e \in new}
    /\ entered' = entered \cup importers
    /\ UNCHANGED <<layout, resolver>>

Next == Enter

Spec == Init /\ [][Next]_vars

----------------------------------------------------------------------------
(* Properties                                                               *)

\* The crate a module belongs to: the program's own has no name.
Owner(id) == IF id.kind = "Dependency" THEN <<id.name>>
             ELSE IF id.kind = "Builtin" THEN <<"Builtin", id.path>> ELSE <<>>

IsEntry(id) == layout.entry # <<>> /\ id = BuiltinId(layout.entry)

\* Whatever chain of imports leads there, a crate keeps its boundaries: what is
\* taken for a module of a crate lies in its sources, nobody but the crate itself
\* (and the selected entry) sees its private modules, no dependency sees its
\* consumer, and only the entry sees the main module (resolve_import; RFC 0059
\* criteria 4 to 6, RFC 0161 criteria 1 and 2).
CratesAreClosed ==
    /\ \A m \in reached :
          /\ m.id.kind = "Source" => /\ IsPrefix(resolver.source_root, m.physical)
                                     /\ m.physical # resolver.main_path
          /\ m.id.kind = "Dependency" =>
                IsPrefix(DependencySources(resolver, m.id.name), m.physical)
          /\ m.authority = "PackageSystem" => m.format = "telora" /\ IsPrivate(m.physical)
    /\ \A e \in edges :
          LET importer == e[1] target == e[3].id IN
          /\ target.kind = "Main" => IsEntry(importer)
          /\ target.kind = "Source" => Owner(importer) = <<>>
          /\ target.kind = "Dependency" /\ IsPrivate(target.path) =>
                Owner(importer) = Owner(target) \/ IsEntry(importer)

\* One module has one identity: an identity is in normal form and names one
\* module; without links two identities of one owner name two files; a relative
\* request reaches what the "@src" request for the same place reaches, unless it
\* is the root of the sources itself, for which there is no such request
\* (lexical_normalize_relative, resolve_in_owner; RFC 0059 criteria 1 and 4).
OneIdentity ==
    /\ \A m \in reached :
          m.id.kind \in {"Source", "Dependency"} =>
              LexicalNormalizeRelative(m.id.path) = m.id.path
    /\ \A m, n \in reached :
          /\ m.id = n.id => m = n
          /\ Shown(m.id) = Shown(n.id) => m.id = n.id
          /\ m.physical = n.physical /\ Owner(m.id) = Owner(n.id)
                /\ m.id.kind # "Builtin" /\ DOMAIN layout.links = {} => m = n
    /\ \A e \in edges :
          /\ e[2][1] \in {".", ".."}
          /\ Len(e[2]) > 1
          /\ e[2] \notin layout.virtual \cup layout.injected
          /\ e[3].id.path # <<>>
          => \E q \in {e[3].id.path} :
                 ResolveImport(resolver, e[1], <<"@src">> \o q) = e[3]
=============================================================================
