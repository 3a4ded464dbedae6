----------------------------- MODULE MCModules -----------------------------
(***************************************************************************)
(* ModuleId on crates of a few files: a program and one dependency, with   *)
(* private, native and data modules, links, manifests and options.         *)
(***************************************************************************)
EXTENDS ModuleId, TLC

MCExtension ==
    [n \in {"a.telora", "p.priv.telora", "n.native.telora", "m.telora", "l.telora"} |-> "telora"]
    @@ [n \in {"d.json", "n.native.json"} |-> "json"]
    @@ [n \in {"src", "bin-src", "s", "x", "w", "std", "list", "entry", "run", "host"} |-> "none"]
MCName == DOMAIN MCExtension \cup {".", "..", "@main", "@src", "@other"}
MCMark ==
    [n \in DOMAIN MCExtension |->
        CASE n = "p.priv.telora" -> "priv"
          [] n \in {"n.native.telora", "n.native.json"} -> "native"
          [] OTHER -> "none"]

CrateFiles == {<<"a.telora">>, <<"s", "a.telora">>, <<"p.priv.telora">>,
               <<"n.native.telora">>, <<"d.json">>, <<"n.native.json">>}

Under(root, paths) == {root \o p : p \in paths}

\* A working crate at /w, with its main module in bin-src, and another at /x.
Plain ==
    [root |-> <<"w", "bin-src", ".", "m.telora">>,
     files |-> {<<"w", "bin-src", "m.telora">>, <<"x", "m.telora">>}
               \cup Under(<<"w", "src">>, CrateFiles) \cup Under(<<"x">>, CrateFiles),
     dirs |-> {<<>>, <<"w">>, <<"w", "bin-src">>, <<"w", "src">>, <<"w", "src", "s">>, <<"x">>, <<"x", "s">>},
     links |-> <<>>, manifests |-> {<<"w">>},
     dependencies |-> "x" :> <<"..", "x">>,
     formats |-> <<>>, options |-> <<>>,
     builtins |-> {<<"std", "list">>, <<"entry", "run">>},
     injected |-> {<<"host">>}, virtual |-> {<<"s">>},
     entry |-> <<>>,
     requests |-> {<<>>, <<"a.telora">>, <<".", "a.telora">>, <<"..", "a.telora">>,
        <<".", "s", "a.telora">>, <<"..", "..", "a.telora">>, <<".", "l.telora">>,
        <<"@src", "s", "..", "p.priv.telora">>, <<".", "n.native.telora">>, <<".", "n.native.json">>,
        <<"@src", "d.json">>, <<"x", "s", "a.telora">>, <<"x", "p.priv.telora">>,
        <<"x", "..", "m.telora">>, <<"x", "m.telora">>, <<"w", "a.telora">>, <<"@other", "a.telora">>,
        <<"std", "list">>, <<"entry", "run">>, <<"host">>, <<"s">>, <<"@main">>, <<"@main", "a.telora">>,
        <<".", "..", "bin-src", "m.telora">>}]

Dependency(name, path) == [key |-> "crate.dependency", name |-> name, path |-> path]
Format(module, format) == [key |-> "crate.format", module |-> module, format |-> format]

\* A crate as the manifest or the options of its main module say.
Crates == {Plain,
    \* no manifest: the options of the main module take its place
    [Plain EXCEPT !.manifests = {},
        !.options = <<Dependency("x", <<"..", "x">>), Format(<<"x", "d.json">>, "json"),
                      Format(<<"@src", "d.json">>, "telora")>>],
    [Plain EXCEPT !.manifests = {},
        !.options = <<Dependency("x", <<"..", "x">>), Dependency("x", <<>>)>>],
    [Plain EXCEPT !.options = <<Dependency("x", <<>>)>>],
    \* a file alone, and one whose crate is its own dependency
    [Plain EXCEPT !.root = <<"x", "m.telora">>, !.manifests = {}],
    [Plain EXCEPT !.root = <<"x", "m.telora">>, !.manifests = {<<"x">>}, !.dependencies = "x" :> <<>>],
    \* a private main module
    [Plain EXCEPT !.root = <<"x", "p.priv.telora">>, !.manifests = {}]}

\* No link; one in the sources, to one of them, to the main module, or out; the
\* sources of the dependency behind one.
Links ==
    {<<>>, <<"x", "src">> :> <<"x">>}
    \cup {<<"w", "src", "l.telora">> :> f :
            f \in {<<"w", "src", "s", "a.telora">>, <<"w", "bin-src", "m.telora">>, <<"x", "a.telora">>}}

\* With and without the entry that runs the program.
MCLayouts ==
    {[c EXCEPT !.links = l, !.entry = e] : c \in Crates, l \in Links, e \in {<<>>, <<"entry", "run">>}}
=============================================================================
