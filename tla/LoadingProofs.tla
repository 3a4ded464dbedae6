---------------------------- MODULE LoadingProofs ----------------------------
(***************************************************************************)
(* The two loaders of module.rs on any source tree: what each of them      *)
(* keeps, and that they agree.  The inductive invariants relate the calls  *)
(* under way (a path of imports from the root), what is loaded, and which  *)
(* modules evaluate in the whole graph.                                    *)
(***************************************************************************)
EXTENDS Loading, TLAPS

----------------------------------------------------------------------------
(* The graph.                                                              *)

LEMMA ImportsAreSources ==
    ASSUME NEW f, NEW m
    PROVE  ImportsOf(f, m) \subseteq Sources /\ ImportsOf(f, m) \subseteq Modules
BY DEF ImportsOf, Modules

LEMMA ClosureHasStart ==
    ASSUME NEW f, NEW start, start \subseteq Modules
    PROVE  start \subseteq Closure(f, start)
BY DEF Closure

LEMMA ClosureFollows ==
    ASSUME NEW f, NEW start, NEW m \in Closure(f, start), NEW t \in ImportsOf(f, m)
    PROVE  t \in Closure(f, start)
<1>1. t \in Modules
  BY ImportsAreSources
<1> QED BY <1>1 DEF Closure

LEMMA ClosureWithin ==
    ASSUME NEW f, NEW start, NEW T, start \subseteq T, start \subseteq Modules,
           \A m \in T \cap Modules : ImportsOf(f, m) \subseteq T
    PROVE  Closure(f, start) \subseteq T
<1> DEFINE X == T \cap Modules
<1>1. /\ X \in SUBSET Modules /\ start \subseteq X
      /\ \A m \in X : ImportsOf(f, m) \subseteq X
  BY ImportsAreSources
<1>2. Closure(f, start) \subseteq X
  BY <1>1 DEF Closure
<1> QED BY <1>2

LEMMA RestsOnMore ==
    ASSUME NEW f, NEW m, NEW X, NEW T, X \subseteq T, RestsOn(f, X, m)
    PROVE  RestsOn(f, T, m)
BY DEF RestsOn

\* A given module over modules that are grounded is grounded.
LEMMA Grounds ==
    ASSUME NEW f, NEW given, NEW m \in Modules, m \in given,
           RestsOn(f, Grounded(f, given), m)
    PROVE  m \in Grounded(f, given)
<1> SUFFICES ASSUME NEW X \in SUBSET Modules,
                    \A x \in given : RestsOn(f, X, x) => x \in X
             PROVE  m \in X
  BY DEF Grounded
<1>1. Grounded(f, given) \subseteq X
  BY DEF Grounded
<1>2. RestsOn(f, X, m)
  BY <1>1, RestsOnMore
<1> QED BY <1>2

\* A set that has every given module resting on it has all that are grounded.
LEMMA GroundedWithin ==
    ASSUME NEW f, NEW given, given \subseteq Modules, NEW T,
           \A m \in given : RestsOn(f, T \cap Modules, m) => m \in T
    PROVE  Grounded(f, given) \subseteq T
<1> DEFINE X == T \cap Modules
<1>1. X \in SUBSET Modules /\ \A x \in given : RestsOn(f, X, x) => x \in X
  OBVIOUS
<1>2. Grounded(f, given) \subseteq X
  BY <1>1 DEF Grounded
<1> QED BY <1>2

LEMMA GroundedRests ==
    ASSUME NEW f, NEW given, given \subseteq Modules
    PROVE  /\ Grounded(f, given) \subseteq Modules
           /\ \A m \in Grounded(f, given) : m \in given /\ RestsOn(f, Grounded(f, given), m)
<1> DEFINE G == Grounded(f, given)
           T == {m \in G : m \in given /\ RestsOn(f, G, m)}
<1>1. ASSUME NEW m \in given, RestsOn(f, T \cap Modules, m)
      PROVE  m \in T
  <2>1. RestsOn(f, G, m)
    BY <1>1, RestsOnMore
  <2>2. m \in G
    BY <1>1, <2>1, Grounds
  <2> QED BY <1>1, <2>1, <2>2
<1>2. \A m \in given : RestsOn(f, T \cap Modules, m) => m \in T
  BY <1>1
<1> HIDE DEF T
<1>3. G \subseteq T
  BY <1>2, GroundedWithin
<1>4. G \subseteq Modules
  BY DEF Grounded
<1> QED BY <1>3, <1>4 DEF T

\* What the strict loader can evaluate, and what the recoverable one can.
LEMMA EvaluableRests ==
    ASSUME NEW f
    PROVE  /\ Evaluable(f) \subseteq Modules
           /\ \A m \in Evaluable(f) : Sound(f, m) /\ RestsOn(f, Evaluable(f), m)
BY GroundedRests DEF Evaluable

LEMMA RecoverableRests ==
    ASSUME NEW f
    PROVE  /\ Recoverable(f) \subseteq Modules
           /\ \A m \in Recoverable(f) : Accepted(f, m) /\ RestsOn(f, Recoverable(f), m)
BY GroundedRests DEF Recoverable

\* What is grounded imports what is, and no module on a cycle is grounded.
LEMMA ImportsEvaluate ==
    ASSUME NEW f, NEW X, NEW m, RestsOn(f, X, m)
    PROVE  Builtin \notin Sources => ImportsOf(f, m) \subseteq X
BY DEF RestsOn, ImportsOf

LEMMA GroundedOnNoCycle ==
    ASSUME NEW f, NEW given, given \subseteq Modules, NEW m \in Grounded(f, given)
    PROVE  ~OnCycle(f, m)
<1> DEFINE T == {x \in Modules : ~OnCycle(f, x)}
<1>1. ASSUME NEW x \in Modules, RestsOn(f, T \cap Modules, x), OnCycle(f, x)
      PROVE  FALSE
  <2>1. ImportsOf(f, x) \subseteq T
    BY <1>1, ImportsEvaluate, GraphAssumption DEF Modules
  <2> DEFINE W == {w \in Modules : \E t \in ImportsOf(f, x) : w \in Closure(f, {t})}
  <2>2. ASSUME NEW t \in ImportsOf(f, x)
        PROVE  {t} \subseteq Modules /\ t \in Closure(f, {t})
    <3>1. {t} \subseteq Modules
      BY ImportsAreSources
    <3> QED BY <3>1, ClosureHasStart
  <2>3. ImportsOf(f, x) \subseteq W
    BY <2>2
  <2>4. \A w \in W \cap Modules : ImportsOf(f, w) \subseteq W
    <3> TAKE w \in W \cap Modules
    <3>1. PICK t \in ImportsOf(f, x) : w \in Closure(f, {t})
      OBVIOUS
    <3>2. \A y \in ImportsOf(f, w) : y \in Closure(f, {t}) /\ y \in Modules
      BY <3>1, ClosureFollows, ImportsAreSources
    <3> QED BY <3>2
  <2>5. Closure(f, ImportsOf(f, x)) \subseteq W
    <3> HIDE DEF W
    <3> QED BY <2>3, <2>4, ClosureWithin, ImportsAreSources
  <2>6. PICK t \in ImportsOf(f, x) : x \in Closure(f, {t})
    BY <1>1, <2>5 DEF OnCycle
  \* t is on the same cycle.
  <2> DEFINE U == {t} \cup Closure(f, ImportsOf(f, t))
  <2>7. Closure(f, {t}) \subseteq U
    <3>1. \A u \in U \cap Modules : ImportsOf(f, u) \subseteq U
      <4> TAKE u \in U \cap Modules
      <4>1. ImportsOf(f, t) \subseteq Closure(f, ImportsOf(f, t))
        BY ClosureHasStart, ImportsAreSources
      <4>2. CASE u = t
        BY <4>1, <4>2
      <4>3. CASE u \in Closure(f, ImportsOf(f, t))
        BY <4>3, ClosureFollows
      <4> QED BY <4>2, <4>3
    <3>2. {t} \subseteq U
      OBVIOUS
    <3> HIDE DEF U
    <3> QED BY <2>2, <3>1, <3>2, ClosureWithin
  <2>8. t \in Closure(f, ImportsOf(f, t))
    <3>1. CASE x = t
      BY <2>6, <3>1, ClosureHasStart, ImportsAreSources
    <3>2. CASE x \in Closure(f, ImportsOf(f, t))
      BY <3>2, ClosureFollows
    <3> QED BY <2>6, <2>7, <3>1, <3>2
  <2> QED BY <2>1, <2>8 DEF OnCycle
<1>2. \A x \in given : RestsOn(f, T \cap Modules, x) => x \in T
  BY <1>1
<1> HIDE DEF T
<1>3. Grounded(f, given) \subseteq T
  BY <1>2, GroundedWithin
<1> QED BY <1>3 DEF T

LEMMA CyclesNeverEvaluate ==
    ASSUME NEW f, NEW m \in Evaluable(f) \cup Recoverable(f)
    PROVE  ~OnCycle(f, m)
BY GroundedOnNoCycle DEF Evaluable, Recoverable

----------------------------------------------------------------------------
(* The strict loader (StrictLoader): its view of the graph is this one.    *)

LEMMA StrictCardinality == \A X : S!Cardinality(X) = Cardinality(X)
BY DEF S!Cardinality, Cardinality

LEMMA StrictGraph ==
    /\ S!Modules = Modules /\ S!OnlyPrelude = OnlyPrelude
    /\ \A f, m : /\ S!ExportsOf(f, m) = ExportsOf(f, m)
                 /\ S!IsRecord(f, m) = IsRecord(f, m)
                 /\ S!Selects(f, m) = Selects(f, m)
                 /\ S!ImportsOf(f, m) = ImportsOf(f, m)
                 /\ S!AllOpen(f, m) = AllOpen(f, m)
                 /\ S!StrictOnly(f, m) = StrictOnly(f, m)
    /\ \A f, m, i : S!Doubled(f, m, i) = Doubled(f, m, i)
    /\ \A f, o, t : S!Opened(f, o, t) = Opened(f, o, t)
    /\ \A f, m, o : S!Ambiguous(f, m, o) = Ambiguous(f, m, o)
    /\ \A f, m, b, o : S!Analyses(f, m, b, o) = Analyses(f, m, b, o)
<1>1. S!Modules = Modules /\ S!OnlyPrelude = OnlyPrelude
  BY DEF S!Modules, Modules, S!OnlyPrelude, OnlyPrelude
<1>2. \A f, m : S!ExportsOf(f, m) = ExportsOf(f, m)
  BY DEF S!ExportsOf, ExportsOf
<1>3. \A f, m : S!IsRecord(f, m) = IsRecord(f, m)
  BY DEF S!IsRecord, IsRecord
<1>4. \A f, m : S!Selects(f, m) = Selects(f, m)
  BY <1>2, <1>3 DEF S!Selects, Selects
<1>5. \A f, m : S!ImportsOf(f, m) = ImportsOf(f, m)
  BY DEF S!ImportsOf, ImportsOf
<1>6. \A f, m : S!AllOpen(f, m) = AllOpen(f, m)
  BY <1>1, <1>2 DEF S!AllOpen, AllOpen
<1>7. \A f, o, t : S!Opened(f, o, t) = Opened(f, o, t)
  BY <1>2 DEF S!Opened, Opened
<1>8. \A f, m, o : S!Ambiguous(f, m, o) = Ambiguous(f, m, o)
  BY StrictCardinality DEF S!Ambiguous, Ambiguous, S!Candidates, Candidates
<1>9. \A f, m, o : S!Unique(f, m, o) = Unique(f, m, o)
  BY <1>8 DEF S!Unique, Unique, S!Candidates, Candidates
<1>10. \A f, m, b, o : S!Analyses(f, m, b, o) = Analyses(f, m, b, o)
  BY <1>9 DEF S!Analyses, Analyses, S!BindsName, BindsName
<1>11. \A f, m, i : S!Doubled(f, m, i) = Doubled(f, m, i)
  BY DEF S!Doubled, Doubled
<1>12. \A f, m : S!StrictOnly(f, m) = StrictOnly(f, m)
  BY <1>11 DEF S!StrictOnly, StrictOnly
<1> QED BY <1>1, <1>2, <1>3, <1>4, <1>5, <1>6, <1>7, <1>8, <1>10, <1>11, <1>12

LEMMA StrictClosures ==
    /\ \A f : S!Reachable(f) = Reachable(f)
    /\ \A f : S!Evaluable(f) = Evaluable(f)
    /\ \A f, m : S!Sound(f, m) = Sound(f, m)
    /\ \A f, X, m : S!RestsOn(f, X, m) = RestsOn(f, X, m)
<1>1. \A f, m : S!Sound(f, m) = Sound(f, m)
  BY StrictGraph DEF S!Sound, Sound, S!Accepted, Accepted
<1>2. \A f, X, m : S!RestsOn(f, X, m) = RestsOn(f, X, m)
  BY DEF S!RestsOn, RestsOn
<1>3. \A f : S!Evaluable(f) = Evaluable(f)
  BY <1>1, <1>2, StrictGraph DEF S!Evaluable, Evaluable, S!Grounded, Grounded
<1>4. \A f, start : S!Closure(f, start) = Closure(f, start)
  BY StrictGraph DEF S!Closure, Closure
<1>5. \A f : S!Reachable(f) = Reachable(f)
  BY <1>4 DEF S!Reachable, Reachable
<1> QED BY <1>1, <1>2, <1>3, <1>5

----------------------------------------------------------------------------
(* Modules and what they compile to.                                       *)

LEMMA TreeFacts ==
    ASSUME NEW f \in Graphs
    PROVE  /\ DOMAIN f = Modules /\ f[Root].kind = "telora"
           /\ f[Root].fault # "option" /\ Root \in Modules /\ Root \notin Sources
           /\ Builtin \notin Modules /\ Unresolved \notin Modules /\ Unresolved # Builtin
           /\ \A m \in Modules :
                /\ f[m].kind \in {"telora", "dict", "scalar"}
                /\ f[m].fault \in Faults
                /\ f[m].imports \in Seq(Import)
                /\ Len(f[m].imports) \in Nat
                /\ DOMAIN f[m].imports = 1..Len(f[m].imports)
                /\ \A k \in DOMAIN f[m].imports :
                      /\ f[m].imports[k].target \in Sources \cup {Builtin, Unresolved}
                      /\ f[m].imports[k].open \in BOOLEAN
                /\ f[m].kind # "telora" =>
                      f[m].imports = <<>>
                      /\ f[m].fault \in {"none", "unreadable", "unparsed"}
<1>1. ValidTree(f)
  BY TreesAssumption
<1>2. \A m \in Modules : f[m].imports \in Seq(Import)
  BY <1>1 DEF ValidTree
<1>3. ASSUME NEW m \in Modules
      PROVE  /\ Len(f[m].imports) \in Nat
             /\ DOMAIN f[m].imports = 1..Len(f[m].imports)
             /\ \A k \in DOMAIN f[m].imports : f[m].imports[k] \in Import
  BY <1>2
<1>4. ASSUME NEW m \in Modules, NEW k \in DOMAIN f[m].imports
      PROVE  /\ f[m].imports[k].target \in Sources \cup {Builtin, Unresolved}
             /\ f[m].imports[k].open \in BOOLEAN
  BY <1>3 DEF Import
<1> QED BY <1>1, <1>2, <1>3, <1>4, GraphAssumption DEF ValidTree, Modules

Binds(f, import) ==
    IF import.open THEN IsRecord(f, import.target) ELSE Selects(f, import)

\* What a module that has no fault of its own needs to compile over the modules E.
CompilesOver(f, m, E) ==
    /\ \A k \in DOMAIN f[m].imports :
          LET import == f[m].imports[k] IN
          import.target \in E \cup {Builtin} /\ Binds(f, import)
    /\ f[m].uses \cap Ambiguous(f, m, AllOpen(f, m)) = {}
    /\ Analyses(f, m, DOMAIN f[m].imports, AllOpen(f, m))

\* The root may still fail when it is run.
OnlyRuns(m) == IF m = Root THEN {"raises", "halts"} ELSE {}

\* What the strict loader compiles, and what the recoverable one does.
Compiles(f, m) ==
    /\ f[m].fault \in {"none"} \cup OnlyRuns(m)
    /\ \A k \in DOMAIN f[m].imports : ~Doubled(f, m, k)
    /\ CompilesOver(f, m, Evaluable(f))

Clear == {"none", "misset", "skipped"}

Recovers(f, m) ==
    /\ f[m].fault \in Clear \cup OnlyRuns(m)
    /\ CompilesOver(f, m, Recoverable(f))

LEMMA AcceptedCompiles ==
    ASSUME NEW f \in Graphs, NEW m, NEW E, f[m].kind = "telora", Accepted(f, m),
           RestsOn(f, E, m)
    PROVE  CompilesOver(f, m, E)
BY DEF CompilesOver, Binds, Accepted, RestsOn

LEMMA CompilesAccepted ==
    ASSUME NEW f \in Graphs, NEW m \in Modules, NEW E, E \subseteq Modules, f[m].fault \in Clear,
           f[m].kind = "telora" => CompilesOver(f, m, E)
    PROVE  Accepted(f, m) /\ RestsOn(f, E, m)
<1>1. \A k \in DOMAIN f[m].imports : f[m].imports[k].target \in E \cup {Builtin}
  BY TreeFacts DEF CompilesOver
<1>2. \A k \in DOMAIN f[m].imports : f[m].imports[k].target # Unresolved
  BY <1>1, TreeFacts
<1>3. RestsOn(f, E, m)
  BY <1>1 DEF RestsOn
<1> QED BY <1>2, <1>3 DEF Accepted, CompilesOver, Binds, Clear

LEMMA EvaluableCompiles ==
    ASSUME NEW f \in Graphs, NEW m \in Evaluable(f), f[m].kind = "telora"
    PROVE  Compiles(f, m)
<1>1. Accepted(f, m) /\ ~StrictOnly(f, m) /\ RestsOn(f, Evaluable(f), m)
  BY EvaluableRests DEF Sound
<1>2. f[m].fault = "none" /\ \A k \in DOMAIN f[m].imports : ~Doubled(f, m, k)
  BY <1>1 DEF Accepted, StrictOnly
<1> QED BY <1>1, <1>2, AcceptedCompiles DEF Compiles

LEMMA RecoverableCompiles ==
    ASSUME NEW f \in Graphs, NEW m \in Recoverable(f), f[m].kind = "telora"
    PROVE  Recovers(f, m)
<1>1. Accepted(f, m) /\ RestsOn(f, Recoverable(f), m)
  BY RecoverableRests
<1> QED BY <1>1, AcceptedCompiles DEF Recovers, Accepted, Clear

LEMMA CompilesEvaluates ==
    ASSUME NEW f \in Graphs, NEW m \in Modules, f[m].fault = "none",
           f[m].kind = "telora" => Compiles(f, m)
    PROVE  m \in Evaluable(f)
<1>1. Accepted(f, m) /\ RestsOn(f, Evaluable(f), m)
  BY CompilesAccepted, EvaluableRests DEF Compiles, Clear
<1>2. ~StrictOnly(f, m)
  BY TreeFacts DEF StrictOnly, Compiles
<1> QED BY <1>1, <1>2, Grounds DEF Evaluable, Sound

LEMMA RecoversEvaluates ==
    ASSUME NEW f \in Graphs, NEW m \in Modules, f[m].fault \in Clear,
           f[m].kind = "telora" => Recovers(f, m)
    PROVE  m \in Recoverable(f)
<1>1. Accepted(f, m) /\ RestsOn(f, Recoverable(f), m)
  BY CompilesAccepted, RecoverableRests DEF Recovers
<1> QED BY <1>1, Grounds DEF Recoverable

\* The root compiles when it is sound but for its run.
LEMMA RootCompilesIs ==
    ASSUME NEW f \in Graphs, f = files
    PROVE  S!RootCompiles <=> Compiles(f, Root)
<1> DEFINE g == [f EXCEPT ![Root].fault =
                    IF @ \in {"raises", "halts"} THEN "none" ELSE @]
<1>1. /\ DOMAIN g = Modules
      /\ \A m \in Modules : /\ g[m].kind = f[m].kind /\ g[m].exports = f[m].exports
                            /\ g[m].imports = f[m].imports /\ g[m].own = f[m].own
                            /\ g[m].uses = f[m].uses
      /\ g[Root].fault = IF f[Root].fault \in {"raises", "halts"} THEN "none"
                         ELSE f[Root].fault
  BY TreeFacts
<1> HIDE DEF g
<1>2. /\ \A m \in Modules \cup {Builtin} : ExportsOf(g, m) = ExportsOf(f, m)
      /\ \A m \in Modules \cup {Builtin} : IsRecord(g, m) = IsRecord(f, m)
  BY <1>1 DEF ExportsOf, IsRecord
<1>3. AllOpen(g, Root) = AllOpen(f, Root)
  BY <1>1, <1>2, TreeFacts DEF AllOpen, Modules
<1>4. \A o : Ambiguous(g, Root, o) = Ambiguous(f, Root, o)
  BY <1>1, TreeFacts DEF Ambiguous, Candidates
<1>5. \A o : Unique(g, Root, o) = Unique(f, Root, o)
  BY <1>1, <1>4, TreeFacts DEF Unique, Candidates
<1> DEFINE open == AllOpen(f, Root)
           imports == f[Root].imports
<1>6. Analyses(g, Root, DOMAIN imports, open) <=> Analyses(f, Root, DOMAIN imports, open)
  <2>1. \A k \in DOMAIN imports :
            BindsName(g, Root, DOMAIN imports, k) <=> BindsName(f, Root, DOMAIN imports, k)
    BY <1>1, TreeFacts DEF BindsName
  <2>2. g[Root].fault \notin {"nested", "native", "unregistered", "ill"} <=>
            f[Root].fault \notin {"nested", "native", "unregistered", "ill"}
    BY <1>1
  <2> QED BY <1>1, <1>5, <2>1, <2>2, TreeFacts DEF Analyses
<1>7. ASSUME NEW k \in DOMAIN imports, imports[k].target # Unresolved
      PROVE  Selects(g, imports[k]) <=> Selects(f, imports[k])
  BY <1>2, <1>7, TreeFacts DEF Selects, Modules
<1>8. \A k \in DOMAIN imports : imports[k].target # Unresolved =>
          /\ IsRecord(g, imports[k].target) <=> IsRecord(f, imports[k].target)
          /\ Selects(g, imports[k]) <=> Selects(f, imports[k])
  BY <1>2, <1>7, TreeFacts DEF Modules
<1>9. \A k \in DOMAIN imports :
          imports[k].target \in Evaluable(f) \cup {Builtin} => imports[k].target # Unresolved
  BY EvaluableRests, TreeFacts
<1>10. Sound(g, Root) /\ RestsOn(f, Evaluable(f), Root) <=> Compiles(f, Root)
  <2>1. g[Root].imports = imports /\ g[Root].kind = "telora" /\ g[Root].uses = f[Root].uses
    BY <1>1, TreeFacts
  <2>2. g[Root].fault = "none" <=> f[Root].fault \in {"none", "raises", "halts"}
    BY <1>1
  <2> DEFINE doubles == \E k \in DOMAIN imports : Doubled(f, Root, k)
  <2>6. StrictOnly(g, Root) <=> g[Root].fault \in {"misset", "nested", "skipped"} \/ doubles
    BY <2>1 DEF StrictOnly, Doubled
  <2>7. Accepted(g, Root) <=>
          /\ g[Root].fault \in {"none", "misset", "skipped"}
          /\ \A k \in DOMAIN imports :
                /\ imports[k].target # Unresolved
                /\ IF imports[k].open THEN IsRecord(f, imports[k].target)
                   ELSE Selects(f, imports[k])
          /\ f[Root].uses \cap Ambiguous(f, Root, open) = {}
          /\ Analyses(f, Root, DOMAIN imports, open)
    <3> HIDE DEF imports, open
    <3> QED BY <1>3, <1>4, <1>6, <1>8, <2>1 DEF Accepted, open
  <2> HIDE DEF imports, doubles
  <2>3. Sound(g, Root) <=>
          /\ f[Root].fault \in {"none", "raises", "halts"}
          /\ ~doubles
          /\ \A k \in DOMAIN imports :
                /\ imports[k].target # Unresolved
                /\ IF imports[k].open THEN IsRecord(f, imports[k].target)
                   ELSE Selects(f, imports[k])
          /\ f[Root].uses \cap Ambiguous(f, Root, open) = {}
          /\ Analyses(f, Root, DOMAIN imports, open)
    BY ONLY <2>2, <2>6, <2>7 DEF Sound
  <2>4. Compiles(f, Root) <=>
          /\ f[Root].fault \in {"none", "raises", "halts"}
          /\ ~doubles
          /\ \A k \in DOMAIN imports :
                /\ imports[k].target \in Evaluable(f) \cup {Builtin}
                /\ IF imports[k].open THEN IsRecord(f, imports[k].target)
                   ELSE Selects(f, imports[k])
          /\ f[Root].uses \cap Ambiguous(f, Root, open) = {}
          /\ Analyses(f, Root, DOMAIN imports, open)
    BY DEF Compiles, CompilesOver, OnlyRuns, Binds, imports, doubles
  <2>5. RestsOn(f, Evaluable(f), Root) <=>
          \A k \in DOMAIN imports : imports[k].target \in Evaluable(f) \cup {Builtin}
    BY DEF RestsOn, imports
  <2> QED BY ONLY <1>9, <2>3, <2>4, <2>5
<1> QED BY <1>10, StrictClosures DEF S!RootCompiles, g

\* What the first imports of m have opened.
OpenedBefore(f, m, next) ==
    [n \in Names |->
        {t \in Sources \cup {Builtin} :
            /\ n \in ExportsOf(f, t)
            /\ \E k \in 1..next-1 :
                  f[m].imports[k].open /\ f[m].imports[k].target = t}]

LEMMA OpenedNext ==
    ASSUME NEW f \in Graphs, NEW m \in Modules, NEW k \in DOMAIN f[m].imports,
           f[m].imports[k].target \in Sources \cup {Builtin}
    PROVE  OpenedBefore(f, m, k + 1) =
              IF f[m].imports[k].open
              THEN Opened(f, OpenedBefore(f, m, k), f[m].imports[k].target)
              ELSE OpenedBefore(f, m, k)
<1> DEFINE imports == f[m].imports
           t == imports[k].target
<1>1. k \in Nat /\ 1..(k + 1) - 1 = (1..k - 1) \cup {k}
  BY TreeFacts
<1>2. ASSUME NEW n \in Names
      PROVE  OpenedBefore(f, m, k + 1)[n] =
                OpenedBefore(f, m, k)[n] \cup
                   (IF imports[k].open /\ n \in ExportsOf(f, t) THEN {t} ELSE {})
  BY <1>1 DEF OpenedBefore
<1>3. Opened(f, OpenedBefore(f, m, k), t) =
         [n \in Names |-> IF n \in ExportsOf(f, t)
                          THEN OpenedBefore(f, m, k)[n] \cup {t} ELSE OpenedBefore(f, m, k)[n]]
  BY DEF Opened
<1>4. /\ OpenedBefore(f, m, k + 1) = [n \in Names |-> OpenedBefore(f, m, k + 1)[n]]
      /\ OpenedBefore(f, m, k) = [n \in Names |-> OpenedBefore(f, m, k)[n]]
  BY DEF OpenedBefore
<1>5. CASE imports[k].open
  <2>1. \A n \in Names : OpenedBefore(f, m, k + 1)[n] =
           IF n \in ExportsOf(f, t)
           THEN OpenedBefore(f, m, k)[n] \cup {t} ELSE OpenedBefore(f, m, k)[n]
    BY <1>2, <1>5
  <2> HIDE DEF t
  <2>2. OpenedBefore(f, m, k + 1) = Opened(f, OpenedBefore(f, m, k), t)
    BY <1>3, <1>4, <2>1
  <2> QED BY <1>5, <2>2 DEF t
<1>6. CASE ~imports[k].open
  <2>1. \A n \in Names : OpenedBefore(f, m, k + 1)[n] = OpenedBefore(f, m, k)[n]
    BY <1>2, <1>6
  <2>2. OpenedBefore(f, m, k + 1) = OpenedBefore(f, m, k)
    BY <1>4, <2>1
  <2> QED BY <1>6, <2>2
<1> QED BY <1>5, <1>6

LEMMA OpenedFirst == ASSUME NEW f, NEW m PROVE OpenedBefore(f, m, 1) = [n \in Names |-> {}]
BY DEF OpenedBefore

LEMMA OpenedAll ==
    ASSUME NEW f \in Graphs, NEW m \in Modules
    PROVE  [n \in Names |-> OpenedBefore(f, m, Len(f[m].imports) + 1)[n] \cup OnlyPrelude[n]]
              = AllOpen(f, m)
<1>1. 1..(Len(f[m].imports) + 1) - 1 = DOMAIN f[m].imports
  BY TreeFacts
<1>2. \A n \in Names : OpenedBefore(f, m, Len(f[m].imports) + 1)[n] =
         {t \in Sources \cup {Builtin} :
            /\ n \in ExportsOf(f, t)
            /\ \E k \in DOMAIN f[m].imports :
                  f[m].imports[k].open /\ f[m].imports[k].target = t}
  BY <1>1 DEF OpenedBefore
<1>3. \A n \in Names : OpenedBefore(f, m, Len(f[m].imports) + 1)[n] \cup OnlyPrelude[n]
                          = AllOpen(f, m)[n]
  BY <1>2 DEF AllOpen
<1>4. AllOpen(f, m) = [n \in Names |-> AllOpen(f, m)[n]]
  BY DEF AllOpen
<1> QED BY <1>3, <1>4

LEMMA OpenedTyped ==
    ASSUME NEW f, NEW m, NEW next
    PROVE  OpenedBefore(f, m, next) \in [Names -> SUBSET (Sources \cup {Builtin, Prelude})]
BY DEF OpenedBefore

----------------------------------------------------------------------------
(* Calls under way: a path of imports from the root, of different modules. *)

ModulesOf(stack) == {stack[i].module : i \in DOMAIN stack}

Path(f, stack) ==
    /\ \A i \in DOMAIN stack :
          LET m == stack[i].module IN
          /\ m \in Modules /\ f[m].kind = "telora" /\ f[m].fault # "unreadable"
          /\ m = Root <=> i = 1
          /\ stack[i].next \in 1..Len(f[m].imports) + 1
          /\ \A k \in 1..i-1 : m \in Closure(f, ImportsOf(f, stack[k].module))
    /\ \A i, k \in DOMAIN stack : stack[i].module = stack[k].module => i = k

LEMMA Appended ==
    ASSUME NEW F, NEW s \in Seq(F), NEW x \in F, NEW t, t = Append(s, x)
    PROVE  /\ t \in Seq(F) /\ Len(s) \in Nat /\ Len(t) = Len(s) + 1
           /\ DOMAIN s = 1..Len(s) /\ DOMAIN t = (1..Len(s)) \cup {Len(t)}
           /\ \A i \in 1..Len(s) : t[i] = s[i]
           /\ t[Len(t)] = x /\ Len(t) \notin 1..Len(s) /\ t # <<>>
OBVIOUS

\* t is s without its last element.
Shorter(s, t) ==
    /\ Len(s) \in Nat /\ Len(t) = Len(s) - 1 /\ Len(t) \in Nat
    /\ DOMAIN t = 1..Len(t) /\ DOMAIN s = (1..Len(t)) \cup {Len(s)}
    /\ \A i \in 1..Len(t) : t[i] = s[i]
    /\ Len(s) \notin 1..Len(t) /\ (t = <<>> <=> Len(s) = 1)
    /\ Len(s) \in DOMAIN s

LEMMA Popped ==
    ASSUME NEW F, NEW s \in Seq(F), s # <<>>, NEW t, t = SubSeq(s, 1, Len(s) - 1)
    PROVE  t \in Seq(F) /\ Shorter(s, t)
<1>1. Len(s) \in Nat /\ Len(s) # 0 /\ DOMAIN s = 1..Len(s)
  OBVIOUS
<1>2. t \in Seq(F) /\ Len(t) = Len(s) - 1 /\ \A i \in 1..Len(t) : t[i] = s[i]
  BY <1>1
<1>3. DOMAIN t = 1..Len(t) /\ (t = <<>> <=> Len(t) = 0)
  BY ONLY <1>2
<1> QED BY ONLY <1>1, <1>2, <1>3 DEF Shorter

LEMMA Replaced ==
    ASSUME NEW F, NEW s \in Seq(F), s # <<>>, NEW x \in F,
           NEW t, t = [s EXCEPT ![Len(s)] = x]
    PROVE  /\ t \in Seq(F) /\ Len(t) = Len(s) /\ Len(s) \in DOMAIN s
           /\ DOMAIN t = DOMAIN s /\ DOMAIN s = 1..Len(s) /\ Len(s) \in Nat
           /\ t[Len(s)] = x /\ \A i \in DOMAIN s : i # Len(s) => t[i] = s[i]
           /\ t # <<>>
OBVIOUS

LEMMA PathStarts ==
    ASSUME NEW f \in Graphs, NEW frame, frame.module = Root, frame.next = 1,
           f[Root].fault # "unreadable"
    PROVE  Path(f, <<frame>>) /\ ModulesOf(<<frame>>) = {Root}
<1>1. DOMAIN <<frame>> = {1} /\ <<frame>>[1] = frame
  OBVIOUS
<1>2. 1 \in 1..Len(f[Root].imports) + 1
  BY TreeFacts
<1> QED BY <1>1, <1>2, TreeFacts DEF Path, ModulesOf

LEMMA PathGrows ==
    ASSUME NEW f \in Graphs, NEW F, NEW stack \in Seq(F), stack # <<>>, Path(f, stack),
           NEW frame \in F, frame.next = 1,
           frame.module \in ImportsOf(f, stack[Len(stack)].module),
           frame.module \notin ModulesOf(stack),
           f[frame.module].kind = "telora", f[frame.module].fault # "unreadable"
    PROVE  /\ Path(f, Append(stack, frame))
           /\ ModulesOf(Append(stack, frame)) = ModulesOf(stack) \cup {frame.module}
<1> DEFINE t == Append(stack, frame)
           n == Len(stack)
           m == frame.module
<1>1. /\ n \in Nat /\ n # 0 /\ Len(t) = n + 1
      /\ DOMAIN stack = 1..n /\ DOMAIN t = (1..n) \cup {n + 1}
      /\ \A i \in 1..n : t[i] = stack[i]
      /\ t[n + 1] = frame
  BY Appended
<1> HIDE DEF t, n
<1>2. m \in Sources /\ m \in Modules /\ m # Root
  BY ImportsAreSources, TreeFacts
<1>3. 1 \in 1..Len(f[m].imports) + 1
  BY <1>2, TreeFacts
<1>4. ASSUME NEW k \in 1..n PROVE m \in Closure(f, ImportsOf(f, t[k].module))
  <2>1. n \in 1..n /\ t[k].module = stack[k].module
    BY <1>1
  <2>2. CASE k = n
    BY <2>1, <2>2, ClosureHasStart, ImportsAreSources DEF n
  <2>3. CASE k # n
    <3>1. k \in 1..n-1
      BY <1>1, <2>3
    <3>2. stack[n].module \in Closure(f, ImportsOf(f, stack[k].module))
      BY <1>1, <2>1, <3>1 DEF Path
    <3> QED BY <2>1, <3>2, ClosureFollows DEF n
  <2> QED BY <2>2, <2>3
<1>5. (n + 1) - 1 = n /\ n + 1 # 1 /\ n + 1 \notin 1..n
  BY <1>1
<1>6. \A i \in 1..n : stack[i].module # m
  BY <1>1 DEF ModulesOf
<1>7. Path(f, t)
  <2>1. ASSUME NEW i \in DOMAIN t
        PROVE  LET x == t[i].module IN
               /\ x \in Modules /\ f[x].kind = "telora" /\ f[x].fault # "unreadable"
               /\ x = Root <=> i = 1
               /\ t[i].next \in 1..Len(f[x].imports) + 1
               /\ \A k \in 1..i-1 : x \in Closure(f, ImportsOf(f, t[k].module))
    <3>1. CASE i \in 1..n
      <4>1. \A k \in 1..i-1 : k \in 1..n
        BY <1>1, <3>1
      <4> QED BY <1>1, <3>1, <4>1 DEF Path
    <3>2. CASE i = n + 1
      BY <1>1, <1>2, <1>3, <1>4, <1>5, <3>2
    <3> QED BY <1>1, <3>1, <3>2
  <2>2. \A i, k \in DOMAIN t : t[i].module = t[k].module => i = k
    BY <1>1, <1>5, <1>6 DEF Path
  <2> QED BY <2>1, <2>2 DEF Path
<1>8. ModulesOf(t) = ModulesOf(stack) \cup {m}
  BY <1>1 DEF ModulesOf
<1> QED BY <1>7, <1>8 DEF t

LEMMA PathShrinks ==
    ASSUME NEW f, NEW F, NEW stack \in Seq(F), stack # <<>>, Path(f, stack)
    PROVE  LET t == SubSeq(stack, 1, Len(stack) - 1)
               m == stack[Len(stack)].module
           IN  /\ Path(f, t)
               /\ ModulesOf(stack) = ModulesOf(t) \cup {m} /\ m \notin ModulesOf(t)
               /\ t = <<>> <=> m = Root
<1> DEFINE t == SubSeq(stack, 1, Len(stack) - 1)
           m == stack[Len(stack)].module
<1>1. /\ Len(stack) \in Nat /\ Len(t) = Len(stack) - 1 /\ Len(t) \in Nat
      /\ DOMAIN t = 1..Len(t) /\ DOMAIN stack = (1..Len(t)) \cup {Len(stack)}
      /\ \A i \in 1..Len(t) : t[i] = stack[i]
      /\ Len(stack) \notin 1..Len(t) /\ (t = <<>> <=> Len(stack) = 1)
  <2>1. t = SubSeq(stack, 1, Len(stack) - 1)
    OBVIOUS
  <2> HIDE DEF t
  <2>2. Shorter(stack, t)
    BY ONLY <2>1, stack \in Seq(F), stack # <<>>, Popped
  <2> QED BY <2>2 DEF Shorter
<1> HIDE DEF t
<1>2. Path(f, t)
  <2>1. \A i \in DOMAIN t : i \in DOMAIN stack /\ \A k \in 1..i-1 : k \in DOMAIN t
    BY <1>1
  <2>2. \A i \in DOMAIN t : t[i] = stack[i]
    BY <1>1
  <2> QED BY <2>1, <2>2 DEF Path
<1>3. ModulesOf(stack) = ModulesOf(t) \cup {m}
  BY <1>1 DEF ModulesOf
<1>4. m \notin ModulesOf(t)
  <2>1. ASSUME NEW i \in DOMAIN t, t[i].module = m PROVE FALSE
    <3>1. i \in DOMAIN stack /\ Len(stack) \in DOMAIN stack /\ stack[i].module = m
      BY <1>1, <2>1
    <3>2. i = Len(stack)
      BY <3>1 DEF Path
    <3> QED BY <1>1, <3>2
  <2> QED BY <2>1 DEF ModulesOf
<1>5. t = <<>> <=> m = Root
  <2>1. m = Root <=> Len(stack) = 1
    BY <1>1 DEF Path
  <2> QED BY <1>1, <2>1
<1> QED BY <1>2, <1>3, <1>4, <1>5 DEF t

LEMMA PathAdvances ==
    ASSUME NEW f \in Graphs, NEW F, NEW stack \in Seq(F), stack # <<>>, Path(f, stack),
           NEW frame \in F, NEW top, top = stack[Len(stack)],
           frame.module = top.module, frame.next = top.next + 1,
           top.next <= Len(f[top.module].imports)
    PROVE  LET t == [stack EXCEPT ![Len(stack)] = frame]
           IN  Path(f, t) /\ ModulesOf(t) = ModulesOf(stack)
<1> DEFINE t == [stack EXCEPT ![Len(stack)] = frame]
<1>1. /\ DOMAIN t = DOMAIN stack /\ DOMAIN stack = 1..Len(stack) /\ Len(stack) \in Nat
      /\ t[Len(stack)] = frame /\ \A i \in DOMAIN stack : i # Len(stack) => t[i] = stack[i]
      /\ Len(stack) \in DOMAIN stack
  BY Replaced
<1> HIDE DEF t
<1>2. \A i \in DOMAIN stack : t[i].module = stack[i].module
  BY <1>1
<1>3. ASSUME NEW i \in DOMAIN stack
      PROVE  t[i].next \in 1..Len(f[t[i].module].imports) + 1
  <2>1. CASE i = Len(stack)
    <3>1. /\ top.next \in 1..Len(f[top.module].imports) + 1
          /\ Len(f[top.module].imports) \in Nat
      BY <1>1, TreeFacts DEF Path
    <3>2. t[i].module = top.module /\ t[i].next = top.next + 1
      BY <1>1, <1>2, <2>1
    <3> QED BY <3>1, <3>2
  <2>2. CASE i # Len(stack)
    BY <1>1, <2>2 DEF Path
  <2> QED BY <2>1, <2>2
<1>4. \A i \in DOMAIN stack : \A k \in 1..i-1 : k \in DOMAIN stack
  BY <1>1
<1>5. Path(f, t)
  BY <1>1, <1>2, <1>3, <1>4 DEF Path
<1> QED BY <1>1, <1>2, <1>5 DEF ModulesOf, t

----------------------------------------------------------------------------
(* The strict loader.                                                      *)

OnStack == ModulesOf(sStack)

\* The root is done: it compiled, and nothing is under way.
Finished == IF sStatus # "start" /\ sStack = <<>> THEN {Root} ELSE {}

\* What a call has done so far: every import is bound, to a name of its own, the
\* exports are open.
FrameSoFar(f, cache, frame) ==
    /\ \A k \in 1..frame.next - 1 :
          LET import == f[frame.module].imports[k] IN
          /\ import.target \in cache \cup {Builtin} /\ Binds(f, import)
          /\ ~Doubled(f, frame.module, k)
    /\ frame.opened = OpenedBefore(f, frame.module, frame.next)

\* While nothing failed: what was entered is loaded or being loaded.
SoFar ==
    /\ sVisiting = [i \in DOMAIN sStack |-> sStack[i].module]
    /\ \A m \in OnStack : S!TextError(m) = "none"
    /\ \A i \in DOMAIN sStack : FrameSoFar(files, sCache, sStack[i])
    /\ sDependencies = sCache \cup OnStack \cup Finished
    /\ sSemantic = sCache \cup Finished
    /\ Finished # {} => Compiles(files, Root) /\ ImportsOf(files, Root) \subseteq sCache

StrictInv ==
    /\ files \in Graphs
    /\ S!TypeOK
    /\ sStatus = "start" => /\ sStack = <<>> /\ sError = "none"
                            /\ sCache = {} /\ sDependencies = {}
    /\ sError = "none" => Path(files, sStack) /\ SoFar
    /\ sError # "none" => ~Compiles(files, Root)
    \* If the root compiles then all that is under way evaluates.
    /\ Compiles(files, Root) => OnStack \ {Root} \subseteq Evaluable(files)
    /\ sCache \subseteq Evaluable(files) \cap Sources
    /\ \A m \in sCache : ImportsOf(files, m) \subseteq sCache
    /\ sReads = [m \in Modules |-> IF m \in sDependencies THEN 1 ELSE 0]
    /\ sDependencies \subseteq Reachable(files)
    /\ sStatus = "ok" => sError = "none" /\ sStack = <<>>
    /\ sStatus = "failed" => sError # "none"

LEMMA StrictStarts == Init => StrictInv
<1> SUFFICES ASSUME Init PROVE StrictInv
  OBVIOUS
<1>1. /\ files \in Graphs /\ sStatus = "start" /\ sStack = <<>> /\ sVisiting = <<>>
      /\ sError = "none" /\ sCache = {} /\ sSemantic = {} /\ sDependencies = {}
      /\ sReads = [m \in Modules |-> 0]
  BY StrictGraph DEF Init, S!Init
<1>2. DOMAIN sStack = {} /\ OnStack = {} /\ Finished = {}
  BY <1>1 DEF OnStack, Finished, ModulesOf
<1>3. S!TypeOK
  BY <1>1, StrictGraph DEF S!TypeOK, S!Errors
<1>4. sVisiting = [i \in DOMAIN sStack |-> sStack[i].module]
  BY <1>1, <1>2
<1>5. SoFar
  BY <1>1, <1>2, <1>4 DEF SoFar
<1>6. Path(files, sStack)
  BY <1>2 DEF Path
<1> QED BY <1>1, <1>2, <1>3, <1>5, <1>6 DEF StrictInv

LEMMA StrictFacts ==
    ASSUME StrictInv
    PROVE  /\ sStack \in Seq(S!Frame) /\ sVisiting \in Seq(Modules) /\ sError \in S!Errors
           /\ sStatus \in {"start", "running", "ok", "failed"}
           /\ sCache \subseteq sSemantic /\ sSemantic \subseteq sDependencies
           /\ sDependencies \subseteq Modules
BY StrictGraph DEF StrictInv, S!TypeOK

sTop == sStack[Len(sStack)]

LEMMA TopFacts ==
    ASSUME StrictInv, S!Running
    PROVE  /\ S!Top = sTop /\ sStatus = "running" /\ sError = "none" /\ sStack # <<>>
           /\ Len(sStack) \in DOMAIN sStack /\ sTop \in S!Frame
           /\ Path(files, sStack) /\ SoFar /\ FrameSoFar(files, sCache, sTop)
           /\ S!TextError(sTop.module) = "none"
           /\ sTop.module \in OnStack /\ sTop.module \in Modules
           /\ files[sTop.module].kind = "telora" /\ files[sTop.module].fault # "unreadable"
           /\ sTop.next \in 1..Len(files[sTop.module].imports) + 1
           /\ Finished = {} /\ sDependencies = sCache \cup OnStack /\ sSemantic = sCache
           /\ sTop.module \in Reachable(files)
           /\ Compiles(files, Root) => Compiles(files, sTop.module)
<1>1. /\ sStatus = "running" /\ sError = "none" /\ sStack # <<>>
      /\ sStack \in Seq(S!Frame) /\ Path(files, sStack) /\ SoFar /\ files \in Graphs
  BY StrictFacts DEF StrictInv, S!Running
<1>2. /\ S!Top = sTop /\ Len(sStack) \in DOMAIN sStack /\ sTop \in S!Frame
  BY <1>1 DEF S!Top, S!Last, sTop
<1>3. /\ sTop.module \in Modules
      /\ files[sTop.module].kind = "telora" /\ files[sTop.module].fault # "unreadable"
      /\ sTop.next \in 1..Len(files[sTop.module].imports) + 1
      /\ sTop.module \in OnStack
  BY <1>1, <1>2 DEF Path, sTop, OnStack, ModulesOf
<1>4. Finished = {}
  BY <1>1 DEF Finished
<1>5. /\ FrameSoFar(files, sCache, sTop) /\ S!TextError(sTop.module) = "none"
      /\ sDependencies = sCache \cup OnStack /\ sSemantic = sCache
  BY <1>1, <1>2, <1>3, <1>4 DEF SoFar, sTop
<1>6. sTop.module \in Reachable(files)
  BY <1>3, <1>5 DEF StrictInv
<1>7. ASSUME Compiles(files, Root) PROVE Compiles(files, sTop.module)
  <2>1. sTop.module = Root \/ sTop.module \in Evaluable(files)
    BY <1>3, <1>7 DEF StrictInv
  <2> QED BY <1>1, <1>3, <1>7, <2>1, EvaluableCompiles
<1> QED BY <1>1, <1>2, <1>3, <1>4, <1>5, <1>6, <1>7

\* The import a call is at.
LEMMA ImportFacts ==
    ASSUME StrictInv, S!AtImport
    PROVE  /\ S!Running /\ S!NextImport = files[sTop.module].imports[sTop.next]
           /\ sTop.next \in DOMAIN files[sTop.module].imports /\ sTop.next \in Nat
           /\ S!NextImport.target \in Sources =>
                 /\ S!NextImport.target \in ImportsOf(files, sTop.module)
                 /\ S!NextImport.target \in Reachable(files)
           /\ S!Bound(S!Top) <=> Doubled(files, sTop.module, sTop.next)
           /\ Compiles(files, Root) =>
                 /\ S!NextImport.target \in Evaluable(files) \cup {Builtin}
                 /\ Binds(files, S!NextImport)
                 /\ ~Doubled(files, sTop.module, sTop.next)
<1>1. S!Running /\ sTop.next <= Len(files[sTop.module].imports)
  BY TopFacts DEF S!AtImport
<1>2. S!NextImport = files[sTop.module].imports[sTop.next]
  BY <1>1, TopFacts DEF S!NextImport
<1>3. sTop.next \in DOMAIN files[sTop.module].imports /\ sTop.next \in Nat
  <2>1. /\ sTop.next \in 1..Len(files[sTop.module].imports) + 1
        /\ Len(files[sTop.module].imports) \in Nat
        /\ DOMAIN files[sTop.module].imports = 1..Len(files[sTop.module].imports)
    BY <1>1, TopFacts, TreeFacts DEF StrictInv
  <2> QED BY <1>1, <2>1
<1>4. ASSUME S!NextImport.target \in Sources
      PROVE  /\ S!NextImport.target \in ImportsOf(files, sTop.module)
             /\ S!NextImport.target \in Reachable(files)
  <2>1. S!NextImport.target \in ImportsOf(files, sTop.module)
    BY <1>1, <1>2, <1>3, <1>4, TopFacts DEF ImportsOf
  <2> QED BY <1>1, <2>1, TopFacts, ClosureFollows DEF Reachable
<1>5. ASSUME Compiles(files, Root)
      PROVE  /\ S!NextImport.target \in Evaluable(files) \cup {Builtin}
             /\ Binds(files, S!NextImport)
             /\ ~Doubled(files, sTop.module, sTop.next)
  <2>1. Compiles(files, sTop.module)
    BY <1>1, <1>5, TopFacts
  <2> QED BY <1>2, <1>3, <2>1 DEF Compiles, CompilesOver
<1>6. S!Bound(S!Top) <=> Doubled(files, sTop.module, sTop.next)
  BY <1>1, TopFacts, StrictGraph DEF S!Bound
<1> QED BY <1>1, <1>2, <1>3, <1>4, <1>5, <1>6

LEMMA ModulesGrow ==
    ASSUME NEW F, NEW s \in Seq(F), NEW x \in F
    PROVE  ModulesOf(Append(s, x)) = ModulesOf(s) \cup {x.module}
<1>1. PICK t : t = Append(s, x)
  OBVIOUS
<1>2. /\ DOMAIN s = 1..Len(s) /\ DOMAIN t = (1..Len(s)) \cup {Len(t)}
      /\ \A i \in 1..Len(s) : t[i] = s[i]
      /\ t[Len(t)] = x
  BY <1>1, Appended
<1> DEFINE D == DOMAIN s
           l == Len(t)
<1>3. DOMAIN t = D \cup {l} /\ t[l] = x /\ \A i \in D : t[i] = s[i]
  BY <1>2
<1> HIDE DEF D, l
<1>4. {t[i].module : i \in D \cup {l}} = {s[i].module : i \in D} \cup {x.module}
  BY ONLY <1>3
<1> QED BY <1>1, <1>3, <1>4 DEF ModulesOf, D

LEMMA FrameKeeps ==
    ASSUME NEW f, NEW cache, NEW more, cache \subseteq more, NEW frame,
           FrameSoFar(f, cache, frame)
    PROVE  FrameSoFar(f, more, frame)
BY DEF FrameSoFar

\* What is wrong with a text before its imports are looked at.
Wrong == {"unreadable", "unparsed", "silent", "option", "misset", "nested", "skipped"}

\* A module that cannot be parsed, has a misplaced option or one without such a
\* value, exports nothing or has an import inside an expression does not compile.
LEMMA TextErrors ==
    ASSUME files \in Graphs, NEW m \in Modules
    PROVE  /\ S!TextError(m) \in S!Errors
           /\ S!TextError(m) = "none" =>
                 /\ files[m].fault \notin Wrong
                 /\ files[m].kind # "telora" => files[m].fault = "none"
           /\ S!TextError(m) # "none" => ~Compiles(files, m) /\ m \notin Evaluable(files)
<1>1. files[m].fault = "option" => m # Root
  BY TreeFacts
<1>2. S!TextError(m) # "none" <=> files[m].fault \in Wrong
  BY <1>1 DEF S!TextError, Wrong
<1>3. files[m].fault \in Wrong => ~Compiles(files, m) /\ m \notin Evaluable(files)
  <2>1. m \in Evaluable(files) => files[m].fault = "none"
    BY EvaluableRests DEF Sound, Accepted, StrictOnly
  <2> QED BY <2>1 DEF Compiles, OnlyRuns, Wrong
<1>4. files[m].kind # "telora" => files[m].fault \in {"none", "unreadable", "unparsed"}
  BY TreeFacts
<1>5. S!TextError(m) \in S!Errors
  BY DEF S!TextError, S!Errors
<1> QED BY <1>2, <1>3, <1>4, <1>5 DEF Wrong

LEMMA VisitingIsStack ==
    ASSUME SoFar
    PROVE  S!Visiting = OnStack
BY DEF SoFar, S!Visiting, OnStack, ModulesOf

\* An unresolved import, a cycle, or a body that does not compile: nothing moves.
LEMMA ErrorKeeps ==
    ASSUME StrictInv, S!Running, sError' \in S!Errors \ {"none"}, ~Compiles(files, Root),
           UNCHANGED <<files, sStatus, sStack, sVisiting, sCache, sDependencies, sReads>>,
           sSemantic \subseteq sSemantic', sSemantic' \subseteq sDependencies
    PROVE  StrictInv'
<1>1. S!TypeOK'
  BY DEF StrictInv, S!TypeOK
<1>2. OnStack' = OnStack
  BY DEF OnStack
<1> QED BY <1>1, <1>2 DEF StrictInv, S!Running

LEMMA DuplicateKeeps == StrictInv /\ S!ImportDuplicate => StrictInv'
<1> SUFFICES ASSUME StrictInv, S!ImportDuplicate PROVE StrictInv'
  OBVIOUS
<1>1. /\ S!AtImport /\ S!Bound(S!Top) /\ sError' = "duplicate"
      /\ UNCHANGED <<files, sStatus, sStack, sVisiting, sCache, sDependencies, sReads, sSemantic>>
  BY DEF S!ImportDuplicate
<1>2. S!Running /\ ~Compiles(files, Root)
  BY <1>1, ImportFacts
<1>3. sError' \in S!Errors \ {"none"} /\ sSemantic \subseteq sDependencies
  BY <1>1, StrictFacts DEF S!Errors
<1> QED BY <1>1, <1>2, <1>3, ErrorKeeps

LEMMA UnresolvedKeeps == StrictInv /\ S!ImportUnresolved => StrictInv'
<1> SUFFICES ASSUME StrictInv, S!ImportUnresolved PROVE StrictInv'
  OBVIOUS
<1>1. /\ S!AtImport /\ S!NextImport.target = Unresolved /\ sError' = "resolve"
      /\ UNCHANGED <<files, sStatus, sStack, sVisiting, sCache, sDependencies, sReads, sSemantic>>
  BY DEF S!ImportUnresolved
<1>2. S!Running
  BY <1>1, ImportFacts
<1>3. Unresolved \notin Evaluable(files) \cup {Builtin}
  BY EvaluableRests, TreeFacts DEF StrictInv
<1>4. ~Compiles(files, Root)
  BY <1>1, <1>3, ImportFacts
<1> QED BY <1>1, <1>2, <1>4, ErrorKeeps, StrictFacts DEF S!Errors

\* A module that is entered: a new call on the path, or an error over its text.
LEMMA EnterKeeps ==
    ASSUME StrictInv, S!Running, NEW t \in ImportsOf(files, sTop.module), t \notin sCache,
           t \in Reachable(files), Compiles(files, Root) => t \in Evaluable(files),
           S!EnterTelora(t), UNCHANGED <<files, sStatus>>
    PROVE  StrictInv'
<1>1. /\ files \in Graphs /\ t \in Modules /\ t \in Sources /\ t # Root
      /\ files[t].kind = "telora" /\ UNCHANGED <<sCache, sSemantic>>
      /\ S!Visiting = OnStack
  BY ImportsAreSources, TreeFacts, TopFacts, VisitingIsStack DEF StrictInv, S!EnterTelora
<1>2. CASE t \in OnStack
  <2>1. /\ sError' = "cycle" /\ UNCHANGED <<sStack, sVisiting, sReads, sDependencies>>
    BY <1>1, <1>2 DEF S!EnterTelora, S!Refuses
  <2>2. PICK k \in DOMAIN sStack : sStack[k].module = t
    BY <1>2 DEF OnStack, ModulesOf
  <2>3. sTop.module \in {t} \cup Closure(files, ImportsOf(files, t))
    <3>1. DOMAIN sStack = 1..Len(sStack) /\ Len(sStack) \in Nat
      BY StrictFacts
    <3>2. CASE k = Len(sStack)
      BY <2>2, <3>2 DEF sTop
    <3>3. CASE k # Len(sStack)
      <4>1. k \in 1..Len(sStack) - 1 /\ Len(sStack) \in DOMAIN sStack
        BY <2>2, <3>1, <3>3
      <4> QED BY <2>2, <4>1, TopFacts DEF Path, sTop
    <3> QED BY <3>2, <3>3
  <2>4. OnCycle(files, t)
    <3>1. CASE sTop.module = t
      BY <3>1, ClosureHasStart, ImportsAreSources DEF OnCycle
    <3>2. CASE sTop.module \in Closure(files, ImportsOf(files, t))
      BY <3>2, ClosureFollows DEF OnCycle
    <3> QED BY <2>3, <3>1, <3>2
  <2>5. ~Compiles(files, Root)
    BY <2>4, CyclesNeverEvaluate
  <2> QED BY <1>1, <2>1, <2>5, ErrorKeeps, StrictFacts DEF S!Errors
<1>3. CASE t \notin OnStack
  <2> DEFINE frame == S!NewFrame(t)
  <2>1. /\ sDependencies' = sDependencies \cup {t} /\ sError' = S!TextError(t)
        /\ sVisiting' = Append(sVisiting, t) /\ sStack' = Append(sStack, frame)
        /\ sReads' = [sReads EXCEPT ![t] = @ + 1]
    BY <1>1, <1>3 DEF S!EnterTelora, S!Refuses
  <2>2. /\ frame.module = t /\ frame.next = 1 /\ frame.opened = [n \in Names |-> {}]
        /\ frame \in S!Frame
    BY <1>1, StrictGraph DEF S!NewFrame, S!Frame
  <2> HIDE DEF frame
  <2>3. /\ sStack \in Seq(S!Frame) /\ sVisiting \in Seq(Modules)
        /\ sStack' \in Seq(S!Frame) /\ sVisiting' \in Seq(Modules)
        /\ sStack' # <<>> /\ OnStack' = OnStack \cup {t}
    <3>1. sStack \in Seq(S!Frame) /\ sVisiting \in Seq(Modules)
      BY StrictFacts
    <3>2. sStack' \in Seq(S!Frame) /\ sVisiting' \in Seq(Modules) /\ sStack' # <<>>
      BY <1>1, <2>1, <2>2, <3>1, Appended
    <3>3. ModulesOf(Append(sStack, frame)) = ModulesOf(sStack) \cup {frame.module}
      BY <2>2, <3>1, ModulesGrow
    <3>4. OnStack' = ModulesOf(sStack')
      BY DEF OnStack
    <3> QED BY <2>1, <2>2, <3>1, <3>2, <3>3, <3>4 DEF OnStack
  <2>4. t \notin sDependencies
    BY <1>3, TopFacts
  <2>5. sReads' = [m \in Modules |-> IF m \in sDependencies' THEN 1 ELSE 0]
    BY <1>1, <2>1, <2>4 DEF StrictInv
  <2>6. S!TypeOK'
    <3>1. sReads' \in [Modules -> Nat]
      BY <2>5
    <3>2. sError' \in S!Errors
      BY <1>1, <2>1, TextErrors
    <3> QED BY <1>1, <2>1, <2>3, <3>1, <3>2, StrictFacts, StrictGraph DEF S!TypeOK, S!Frame
  <2>7. Compiles(files, Root) => OnStack' \ {Root} \subseteq Evaluable(files)
    BY <2>3 DEF StrictInv
  <2>8. sError' # "none" => ~Compiles(files, Root)
    BY <1>1, <2>1, TextErrors
  <2>9. ASSUME sError' = "none" PROVE Path(files, sStack') /\ SoFar'
    <3>1. files[t].fault # "unreadable" /\ S!TextError(t) = "none"
      BY <1>1, <2>1, <2>9, TextErrors DEF Wrong
    <3>2. Path(files, sStack')
      <4>1. /\ Path(files, sStack) /\ sStack # <<>>
            /\ frame.module \in ImportsOf(files, sStack[Len(sStack)].module)
            /\ frame.module \notin ModulesOf(sStack)
        BY <1>3, <2>2, TopFacts DEF sTop, OnStack
      <4> QED BY <1>1, <2>1, <2>2, <2>3, <3>1, <4>1, PathGrows
    <3>3. /\ Len(sStack) \in Nat /\ Len(sStack') = Len(sStack) + 1
          /\ DOMAIN sStack = 1..Len(sStack)
          /\ DOMAIN sStack' = (1..Len(sStack)) \cup {Len(sStack')}
          /\ \A i \in 1..Len(sStack) : sStack'[i] = sStack[i]
          /\ sStack'[Len(sStack')] = frame /\ Len(sStack') \notin 1..Len(sStack)
      BY <2>1, <2>2, <2>3, Appended
    <3>4. sVisiting' = [i \in DOMAIN sStack' |-> sStack'[i].module]
      <4>1. sVisiting = [i \in DOMAIN sStack |-> sStack[i].module]
        BY TopFacts DEF SoFar
      <4>2. Len(sVisiting) = Len(sStack)
        <5>1. DOMAIN sVisiting = 1..Len(sVisiting) /\ Len(sVisiting) \in Nat
          BY <2>3
        <5> QED BY <3>3, <4>1, <5>1
      <4>3. /\ DOMAIN sVisiting' = DOMAIN sStack'
            /\ \A i \in 1..Len(sStack) : sVisiting'[i] = sVisiting[i]
            /\ sVisiting'[Len(sStack')] = t
            /\ sVisiting' = [i \in DOMAIN sVisiting' |-> sVisiting'[i]]
        <5>1. /\ sVisiting' \in Seq(Modules) /\ Len(sVisiting') = Len(sVisiting) + 1
              /\ DOMAIN sVisiting' = (1..Len(sVisiting)) \cup {Len(sVisiting')}
              /\ \A i \in 1..Len(sVisiting) : sVisiting'[i] = sVisiting[i]
              /\ sVisiting'[Len(sVisiting')] = t
          BY <1>1, <2>1, <2>3, Appended
        <5>2. sVisiting' = [i \in DOMAIN sVisiting' |-> sVisiting'[i]]
          BY <5>1
        <5> QED BY <3>3, <4>2, <5>1, <5>2
      <4>4. \A i \in DOMAIN sStack' : sVisiting'[i] = sStack'[i].module
        BY <2>2, <3>3, <4>1, <4>3
      <4> QED BY <4>3, <4>4
    <3>5. \A i \in DOMAIN sStack' : FrameSoFar(files, sCache, sStack'[i])
      <4>1. FrameSoFar(files, sCache, frame)
        BY <2>2, OpenedFirst DEF FrameSoFar
      <4>2. \A i \in DOMAIN sStack : FrameSoFar(files, sCache, sStack[i])
        BY TopFacts DEF SoFar
      <4> QED BY <3>3, <4>1, <4>2
    <3>6. Finished' = {}
      BY <2>3 DEF Finished
    <3>7. \A m \in OnStack' : S!TextError(m) = "none"
      BY <2>3, <3>1, TopFacts DEF SoFar
    <3>8. \A m : S!TextError(m)' = S!TextError(m)
      BY DEF S!TextError
    <3>9. /\ sDependencies' = sCache' \cup OnStack' \cup Finished'
          /\ sSemantic' = sCache' \cup Finished'
      BY <1>1, <2>1, <2>3, <3>6, TopFacts
    <3> QED BY <1>1, <3>2, <3>4, <3>5, <3>6, <3>7, <3>8, <3>9 DEF SoFar
  <2>10. sStatus' = "running"
    BY TopFacts
  <2> QED BY <1>1, <2>1, <2>5, <2>6, <2>7, <2>8, <2>9, <2>10 DEF StrictInv
<1> QED BY <1>2, <1>3

\* A data file is loaded at once, or is the error.
LEMMA DataKeeps ==
    ASSUME StrictInv, S!Running, NEW t \in ImportsOf(files, sTop.module), t \notin sCache,
           t \in Reachable(files), Compiles(files, Root) => t \in Evaluable(files),
           S!LoadData(t), UNCHANGED <<files, sStatus>>
    PROVE  StrictInv'
<1>1. /\ files \in Graphs /\ t \in Modules /\ t \in Sources
      /\ files[t].kind # "telora" /\ UNCHANGED sStack
      /\ sDependencies' = sDependencies \cup {t} /\ sError' = S!TextError(t)
      /\ sReads' = [sReads EXCEPT ![t] = @ + 1]
      /\ sVisiting' \in {sVisiting, Append(sVisiting, t)}
      /\ sError' = "none" =>
            /\ sCache' = sCache \cup {t} /\ sSemantic' = sSemantic \cup {t}
            /\ sVisiting' = sVisiting
      /\ sError' # "none" => UNCHANGED <<sCache, sSemantic>>
  BY ImportsAreSources DEF StrictInv, S!LoadData
<1>2. OnStack' = OnStack /\ Finished' = Finished
  BY <1>1 DEF OnStack, Finished
<1>3. t \notin OnStack
  BY <1>1, TopFacts DEF OnStack, ModulesOf, Path
<1>4. t \notin sDependencies
  BY <1>3, TopFacts
<1>5. sReads' = [m \in Modules |-> IF m \in sDependencies' THEN 1 ELSE 0]
  BY <1>1, <1>4 DEF StrictInv
<1>6. S!TypeOK'
  <2>1. sVisiting' \in Seq(Modules)
    BY <1>1, StrictFacts, Appended
  <2>2. sReads' \in [Modules -> Nat]
    BY <1>5
  <2>3. sError' \in S!Errors
    BY <1>1, TextErrors
  <2> QED BY <1>1, <2>1, <2>2, <2>3, StrictFacts, StrictGraph DEF S!TypeOK, S!Frame
<1>7. sError' # "none" => ~Compiles(files, Root)
  BY <1>1, TextErrors
<1>8. ASSUME sError' = "none"
      PROVE  /\ SoFar' /\ sCache' \subseteq Evaluable(files) \cap Sources
             /\ \A m \in sCache' : ImportsOf(files, m) \subseteq sCache'
  <2>1. t \in Evaluable(files)
    <3>1. files[t].fault = "none"
      BY <1>1, <1>8, TextErrors
    <3> QED BY <1>1, <3>1, CompilesEvaluates
  <2>2. ImportsOf(files, t) = {}
    BY <1>1 DEF ImportsOf
  <2>3. \A i \in DOMAIN sStack : FrameSoFar(files, sCache', sStack[i])
    BY <1>1, <1>8, TopFacts, FrameKeeps DEF SoFar
  <2>4. \A m : S!TextError(m)' = S!TextError(m)
    BY DEF S!TextError
  <2>5. SoFar'
    BY <1>1, <1>2, <1>8, <2>3, <2>4, TopFacts DEF SoFar
  <2> QED BY <1>1, <1>8, <2>1, <2>2, <2>5 DEF StrictInv
<1>9. sError' # "none" => /\ sCache' \subseteq Evaluable(files) \cap Sources
                          /\ \A m \in sCache' : ImportsOf(files, m) \subseteq sCache'
  BY <1>1 DEF StrictInv
<1>10. Path(files, sStack') /\ sStatus' = "running"
  BY <1>1, TopFacts
<1> QED BY <1>1, <1>2, <1>5, <1>6, <1>7, <1>8, <1>9, <1>10 DEF StrictInv

LEMMA UnloadedKeeps == StrictInv /\ S!ImportUnloaded => StrictInv'
<1> SUFFICES ASSUME StrictInv, S!ImportUnloaded PROVE StrictInv'
  OBVIOUS
<1> DEFINE t == S!NextImport.target
<1>1. /\ S!AtImport /\ t \in Sources /\ t \notin sCache
      /\ S!EnterTelora(t) \/ S!LoadData(t)
      /\ UNCHANGED <<files, sStatus>>
  BY DEF S!ImportUnloaded
<1>2. /\ S!Running /\ t \in ImportsOf(files, sTop.module) /\ t \in Reachable(files)
  BY <1>1, ImportFacts
<1>3. Compiles(files, Root) => t \in Evaluable(files)
  <2>1. t # Builtin
    BY <1>1, TreeFacts DEF StrictInv, Modules
  <2> QED BY <1>1, <2>1, ImportFacts
<1> HIDE DEF t
<1> QED BY <1>1, <1>2, <1>3, EnterKeeps, DataKeeps

OpenNames == [Names -> SUBSET (Sources \cup {Builtin, Prelude})]

Moved(r, o) == [r EXCEPT !.next = @ + 1, !.opened = o]

LEMMA FrameMoves ==
    ASSUME NEW r \in S!Frame, NEW o \in OpenNames
    PROVE  /\ Moved(r, o) \in S!Frame /\ Moved(r, o).module = r.module
           /\ Moved(r, o).next = r.next + 1 /\ Moved(r, o).opened = o
<1>1. r \in [module : S!Modules, next : Nat, opened : OpenNames]
  BY DEF S!Frame, OpenNames
<1>2. /\ Moved(r, o) \in [module : S!Modules, next : Nat, opened : OpenNames]
      /\ Moved(r, o).module = r.module
      /\ Moved(r, o).next = r.next + 1 /\ Moved(r, o).opened = o
  <2> DEFINE r1 == [r EXCEPT !.next = @ + 1]
  <2>1. /\ r1 \in [module : S!Modules, next : Nat, opened : OpenNames]
        /\ r1.module = r.module /\ r1.next = r.next + 1
    BY <1>1
  <2>2. Moved(r, o) = [r1 EXCEPT !.opened = o]
    BY DEF Moved
  <2> HIDE DEF r1
  <2> QED BY <2>1, <2>2
<1> QED BY <1>2 DEF S!Frame, OpenNames

\* A loaded or built-in module is bound, its exports are opened, or the import
\* asks for what is not there.
LEMMA LoadedKeeps == StrictInv /\ S!ImportLoaded => StrictInv'
<1> SUFFICES ASSUME StrictInv, S!ImportLoaded PROVE StrictInv'
  OBVIOUS
<1> DEFINE import == S!NextImport
           frame == [sTop EXCEPT !.next = @ + 1,
                        !.opened = IF import.open THEN Opened(files, @, import.target) ELSE @]
           m == sTop.module
<1>1. /\ S!AtImport /\ S!Running /\ files \in Graphs
      /\ import.target \in sCache \cup {Builtin}
      /\ sError' = S!ImportError(import)
      /\ sStack' = [sStack EXCEPT ![Len(sStack)] = frame]
      /\ UNCHANGED <<files, sStatus, sVisiting, sCache, sSemantic, sDependencies, sReads>>
  <2>1. S!AtImport /\ S!Running
    BY ImportFacts DEF S!ImportLoaded
  <2> QED BY <2>1, TopFacts, StrictGraph DEF S!ImportLoaded, S!ReplaceTop, StrictInv
<1>2. /\ import = files[m].imports[sTop.next]
      /\ sTop.next \in DOMAIN files[m].imports /\ sTop.next \in Nat /\ sTop.next # 0
      /\ sTop \in S!Frame /\ m \in Modules /\ FrameSoFar(files, sCache, sTop)
      /\ sStack # <<>> /\ Path(files, sStack) /\ SoFar
      /\ import.target \in Sources \cup {Builtin}
  BY <1>1, ImportFacts, TopFacts, TreeFacts DEF StrictInv
<1> HIDE DEF import
<1>3. /\ frame \in S!Frame /\ frame.module = m /\ frame.next = sTop.next + 1
      /\ frame.opened = OpenedBefore(files, m, sTop.next + 1)
  <2> DEFINE o == IF import.open THEN Opened(files, sTop.opened, import.target)
                  ELSE sTop.opened
  <2>1. sTop.opened = OpenedBefore(files, m, sTop.next)
    BY <1>2 DEF FrameSoFar
  <2>2. o = OpenedBefore(files, m, sTop.next + 1)
    BY <1>1, <1>2, <2>1, OpenedNext
  <2>3. o \in OpenNames
    BY <2>2, OpenedTyped DEF OpenNames
  <2>4. frame = Moved(sTop, o)
    BY DEF Moved
  <2> HIDE DEF o, frame
  <2> QED BY <1>2, <2>2, <2>3, <2>4, FrameMoves
<1> HIDE DEF frame
<1>5. /\ sStack \in Seq(S!Frame) /\ sStack' \in Seq(S!Frame) /\ sStack' # <<>>
      /\ DOMAIN sStack' = DOMAIN sStack /\ DOMAIN sStack = 1..Len(sStack)
      /\ sStack'[Len(sStack)] = frame /\ Len(sStack) \in DOMAIN sStack
      /\ \A i \in DOMAIN sStack : i # Len(sStack) => sStack'[i] = sStack[i]
  BY <1>1, <1>2, <1>3, StrictFacts, Replaced
<1>6. \A i \in DOMAIN sStack : sStack'[i].module = sStack[i].module
  BY <1>3, <1>5 DEF sTop
<1>7. OnStack' = OnStack /\ Finished' = Finished
  BY <1>1, <1>2, <1>5, <1>6 DEF OnStack, ModulesOf, Finished
<1>8. Path(files, sStack')
  <2>1. sTop = sStack[Len(sStack)] /\ sTop.next <= Len(files[m].imports)
    BY <1>1, <1>2, TreeFacts DEF sTop
  <2> HIDE DEF m
  <2>2. frame.module = sTop.module /\ frame.next = sTop.next + 1
    BY <1>3 DEF m
  <2> QED BY <1>1, <1>2, <1>3, <1>5, <2>1, <2>2, PathAdvances DEF m
<1>9. sError' = "none" <=> Binds(files, import)
  BY <1>1, StrictGraph DEF S!ImportError, Binds
<1>10. sError' \in S!Errors
  BY <1>1 DEF S!ImportError, S!Errors
<1>11. S!TypeOK'
  BY <1>1, <1>5, <1>10, StrictFacts, StrictGraph DEF StrictInv, S!TypeOK, S!Frame
<1>12. sError' # "none" => ~Compiles(files, Root)
  BY <1>1, <1>9, ImportFacts DEF import
<1>13. ASSUME sError' = "none" PROVE SoFar'
  <2>1. FrameSoFar(files, sCache, frame)
    <3> DEFINE n == sTop.next
    <3>1. n \in Nat /\ n # 0 /\ frame.next = n + 1
      BY <1>2, <1>3
    <3> HIDE DEF n
    <3>2. 1..frame.next - 1 = (1..n - 1) \cup {n}
      BY <3>1
    <3> USE DEF n
    <3>3. ~Doubled(files, m, n)
      BY <1>1, ImportFacts DEF S!ImportLoaded
    <3> QED BY <1>1, <1>2, <1>3, <1>9, <1>13, <3>2, <3>3 DEF FrameSoFar
  <2>2. \A i \in DOMAIN sStack : FrameSoFar(files, sCache, sStack'[i])
    BY <1>2, <1>5, <2>1 DEF SoFar
  <2>3. sVisiting = [i \in DOMAIN sStack' |-> sStack'[i].module]
    BY <1>2, <1>5, <1>6 DEF SoFar
  <2>4. \A x : S!TextError(x)' = S!TextError(x)
    BY <1>1 DEF S!TextError
  <2> QED BY <1>1, <1>2, <1>5, <1>7, <2>2, <2>3, <2>4 DEF SoFar
<1>14. sStatus' = "running"
  BY <1>1, TopFacts
<1> QED BY <1>1, <1>7, <1>8, <1>11, <1>12, <1>13, <1>14 DEF StrictInv

\* A module whose imports are all bound has no error in its body exactly when
\* it compiles.
LEMMA BodyCompiles ==
    ASSUME StrictInv, S!Running, sTop.next > Len(files[sTop.module].imports)
    PROVE  /\ ImportsOf(files, sTop.module) \subseteq sCache
           /\ S!BodyError(sTop) \in S!Errors
           /\ S!BodyError(sTop) = "none" =>
                 /\ Compiles(files, sTop.module) \/ files[sTop.module].fault \in {"raises", "halts"}
                 /\ sTop.module = Root => Compiles(files, sTop.module)
           /\ S!BodyError(sTop) # "none" => ~Compiles(files, sTop.module)
<1> DEFINE m == sTop.module
           imports == files[m].imports
           n == sTop.next
<1>1. /\ files \in Graphs /\ m \in Modules /\ FrameSoFar(files, sCache, sTop)
      /\ S!TextError(m) = "none" /\ n \in 1..Len(imports) + 1
      /\ sCache \subseteq Evaluable(files) \cap Sources
  BY TopFacts DEF StrictInv
<1>2. n = Len(imports) + 1 /\ 1..n - 1 = DOMAIN imports
  <2>1. Len(imports) \in Nat /\ DOMAIN imports = 1..Len(imports) /\ n > Len(imports)
    BY <1>1, TreeFacts
  <2>2. n \in 1..Len(imports) + 1
    BY <1>1
  <2> HIDE DEF imports, n
  <2> QED BY <2>1, <2>2
<1>3. \A k \in DOMAIN imports :
          /\ imports[k].target \in sCache \cup {Builtin} /\ Binds(files, imports[k])
          /\ ~Doubled(files, m, k)
  BY <1>1, <1>2 DEF FrameSoFar
<1>4. ImportsOf(files, m) \subseteq sCache
  BY <1>3, TreeFacts, <1>1 DEF ImportsOf, Modules
<1>5. S!WithPrelude(sTop.opened) = AllOpen(files, m)
  <2>1. sTop.opened = OpenedBefore(files, m, Len(imports) + 1)
    BY <1>1, <1>2 DEF FrameSoFar
  <2>2. S!WithPrelude(sTop.opened) = [x \in Names |-> sTop.opened[x] \cup OnlyPrelude[x]]
    BY StrictGraph DEF S!WithPrelude
  <2> QED BY <1>1, <2>1, <2>2, OpenedAll
<1> DEFINE unclear == files[m].uses \cap Ambiguous(files, m, AllOpen(files, m)) # {}
           analysed == Analyses(files, m, DOMAIN imports, AllOpen(files, m))
           native == files[m].fault \in {"native", "unregistered"}
<1>6. S!BodyError(sTop) = IF unclear THEN "ambiguous" ELSE IF native THEN "native"
                          ELSE IF ~analysed THEN "analysis" ELSE "none"
  BY <1>5, StrictGraph DEF S!BodyError
<1>7. analysed => files[m].fault \notin {"native", "unregistered", "ill"}
  BY DEF Analyses
<1>8. /\ files[m].fault \in Faults
      /\ files[m].fault \notin Wrong
  BY <1>1, TreeFacts, TextErrors
<1>9. Compiles(files, m) <=>
        files[m].fault \in {"none"} \cup OnlyRuns(m) /\ ~unclear /\ analysed
  BY <1>1, <1>3 DEF Compiles, CompilesOver
<1> HIDE DEF unclear, analysed
<1>10. S!BodyError(sTop) = "none" <=> ~unclear /\ ~native /\ analysed
  BY <1>6
<1>11. S!BodyError(sTop) \in S!Errors
  BY <1>6 DEF S!Errors
<1>12. analysed => files[m].fault \in {"none", "raises", "halts"}
  BY <1>7, <1>8 DEF Faults, Wrong
<1> QED BY <1>4, <1>9, <1>10, <1>11, <1>12 DEF OnlyRuns

LEMMA SameInterval ==
    ASSUME NEW a \in Nat, NEW b \in Nat, 1..a = 1..b
    PROVE  a = b
<1>1. \A k \in Nat : k \in 1..a <=> k \in 1..b
  OBVIOUS
<1>2. \A k \in Nat : (1 <= k /\ k <= a) <=> (1 <= k /\ k <= b)
  BY <1>1
<1> QED BY <1>2

LEMMA FinishKeeps == StrictInv /\ S!FinishTelora => StrictInv'
<1> SUFFICES ASSUME StrictInv, S!FinishTelora PROVE StrictInv'
  OBVIOUS
<1> DEFINE m == sTop.module
           compiled == S!BodyError(sTop)
           fails == m # Root /\ files[m].fault \in {"raises", "halts"}
<1>1. S!Running /\ S!Top = sTop
  BY TopFacts DEF S!FinishTelora
<1>2. /\ sTop.next > Len(files[m].imports)
      /\ sError' = IF compiled = "none" /\ fails THEN "evaluation" ELSE compiled
      /\ sSemantic' = IF compiled = "none" THEN sSemantic \cup {m} ELSE sSemantic
      /\ sError' = "none" =>
            /\ sCache' = sCache \cup ({m} \ {Root})
            /\ sStack' = S!Front(sStack) /\ sVisiting' = S!Front(sVisiting)
      /\ sError' # "none" => UNCHANGED <<sCache, sStack, sVisiting>>
      /\ UNCHANGED <<files, sStatus, sDependencies, sReads>>
  BY <1>1 DEF S!FinishTelora, S!Left
<1>3. /\ files \in Graphs /\ m \in Modules /\ m \in OnStack /\ sStack # <<>>
      /\ Path(files, sStack) /\ SoFar /\ Finished = {} /\ sStatus = "running"
      /\ sDependencies = sCache \cup OnStack /\ sSemantic = sCache
      /\ files[m].kind = "telora"
      /\ Compiles(files, Root) => Compiles(files, m)
  BY <1>1, TopFacts DEF StrictInv
<1>4. /\ ImportsOf(files, m) \subseteq sCache /\ compiled \in S!Errors
      /\ compiled = "none" =>
            /\ Compiles(files, m) \/ files[m].fault \in {"raises", "halts"}
            /\ m = Root => Compiles(files, m)
      /\ compiled # "none" => ~Compiles(files, m)
  BY <1>1, <1>2, BodyCompiles
<1> HIDE DEF compiled
<1>5. CASE sError' # "none"
  <2>1. ~Compiles(files, m)
    BY <1>2, <1>4, <1>5 DEF Compiles, OnlyRuns
  <2>2. sError' \in S!Errors \ {"none"}
    BY <1>2, <1>4, <1>5 DEF S!Errors
  <2>3. sSemantic \subseteq sSemantic' /\ sSemantic' \subseteq sDependencies
    BY <1>2, <1>3
  <2> QED BY <1>1, <1>2, <1>3, <1>5, <2>1, <2>2, <2>3, ErrorKeeps
<1>6. CASE sError' = "none"
  <2>1. Compiles(files, m) /\ compiled = "none"
    BY <1>2, <1>4, <1>6
  <2>2. sStack' = SubSeq(sStack, 1, Len(sStack) - 1)
    BY <1>2, <1>6 DEF S!Front
  <2>3. /\ Path(files, sStack')
        /\ OnStack = OnStack' \cup {m} /\ m \notin OnStack'
        /\ sStack' = <<>> <=> m = Root
    <3>1. OnStack' = ModulesOf(sStack') /\ OnStack = ModulesOf(sStack)
      BY DEF OnStack
    <3>2. sStack \in Seq(S!Frame)
      BY StrictFacts
    <3> QED BY <1>3, <2>2, <3>1, <3>2, PathShrinks DEF sTop
  <2>4. sStack' \in Seq(S!Frame) /\ Shorter(sStack, sStack')
    BY <1>3, <2>2, StrictFacts, Popped
  <2>5. /\ sVisiting' \in Seq(Modules) /\ DOMAIN sVisiting' = DOMAIN sStack'
        /\ sVisiting' = [i \in DOMAIN sStack' |-> sStack'[i].module]
    <3>1. sVisiting \in Seq(Modules) /\ sVisiting = [i \in DOMAIN sStack |-> sStack[i].module]
      BY <1>3, StrictFacts DEF SoFar
    <3>2. sVisiting' = SubSeq(sVisiting, 1, Len(sVisiting) - 1)
      BY <1>2, <1>6 DEF S!Front
    <3>3. Len(sVisiting) = Len(sStack) /\ sVisiting # <<>>
      <4>1. DOMAIN sVisiting = 1..Len(sVisiting) /\ Len(sVisiting) \in Nat
        BY <3>1
      <4>2. DOMAIN sStack = 1..Len(sStack) /\ Len(sStack) \in Nat /\ Len(sStack) # 0
        BY <1>3, StrictFacts
      <4>3. 1..Len(sVisiting) = 1..Len(sStack)
        BY <3>1, <4>1, <4>2
      <4>4. Len(sVisiting) = Len(sStack)
        BY <4>1, <4>2, <4>3, SameInterval
      <4> QED BY <4>2, <4>4
    <3>4. sVisiting' \in Seq(Modules) /\ Shorter(sVisiting, sVisiting')
      BY <3>1, <3>2, <3>3, Popped
    <3>5. sVisiting' = [i \in DOMAIN sVisiting' |-> sVisiting'[i]]
      BY <3>4
    <3>6. /\ DOMAIN sVisiting' = DOMAIN sStack'
          /\ \A i \in DOMAIN sStack' : sVisiting'[i] = sVisiting[i] /\ sStack'[i] = sStack[i]
                                       /\ i \in DOMAIN sStack
      BY <2>4, <3>3, <3>4 DEF Shorter
    <3> QED BY <3>1, <3>4, <3>5, <3>6
  <2>6. Finished' = {m} \cap {Root}
    BY <1>2, <1>3, <2>3 DEF Finished
  <2>7. m # Root => m \in Evaluable(files) /\ m \in Sources
    <3>1. m # Root => files[m].fault = "none"
      BY <2>1 DEF Compiles, OnlyRuns
    <3> QED BY <1>3, <2>1, <3>1, CompilesEvaluates DEF Modules
  <2>8. S!TypeOK'
    <3>1. sCache' \subseteq sSemantic' /\ sSemantic' \subseteq sDependencies'
      BY <1>2, <1>3, <1>6, <2>1
    <3>2. sError' \in S!Errors
      BY <1>6 DEF S!Errors
    <3> QED BY <1>2, <2>4, <2>5, <3>1, <3>2, StrictFacts, StrictGraph
            DEF StrictInv, S!TypeOK, S!Frame
  <2>9. SoFar'
    <3>1. \A i \in DOMAIN sStack' : FrameSoFar(files, sCache', sStack'[i])
      <4>1. \A i \in DOMAIN sStack' : FrameSoFar(files, sCache, sStack'[i])
        BY <1>3, <2>4 DEF SoFar, Shorter
      <4>2. sCache \subseteq sCache'
        BY <1>2, <1>6
      <4> QED BY <4>1, <4>2, FrameKeeps
    <3>2. \A x : S!TextError(x)' = S!TextError(x)
      BY <1>2 DEF S!TextError
    <3>3. /\ sDependencies' = sCache' \cup OnStack' \cup Finished'
          /\ sSemantic' = sCache' \cup Finished'
      BY <1>2, <1>3, <1>6, <2>1, <2>3, <2>6
    <3>4. Finished' # {} => Compiles(files, Root) /\ ImportsOf(files, Root) \subseteq sCache'
      BY <1>2, <1>4, <1>6, <2>1, <2>6
    <3> QED BY <1>2, <1>3, <2>3, <2>5, <3>1, <3>2, <3>3, <3>4 DEF SoFar
  <2>10. sCache' \subseteq Evaluable(files) \cap Sources
    BY <1>2, <1>6, <2>7 DEF StrictInv
  <2>11. \A x \in sCache' : ImportsOf(files, x) \subseteq sCache'
    BY <1>2, <1>4, <1>6 DEF StrictInv
  <2>12. Compiles(files, Root) => OnStack' \ {Root} \subseteq Evaluable(files)
    BY <2>3 DEF StrictInv
  <2> QED BY <1>2, <1>3, <1>6, <2>3, <2>8, <2>9, <2>10, <2>11, <2>12 DEF StrictInv
<1> QED BY <1>5, <1>6

LEMMA FailKeeps == StrictInv /\ S!Fail => StrictInv'
<1> SUFFICES ASSUME StrictInv, S!Fail PROVE StrictInv'
  OBVIOUS
<1>1. /\ sStatus = "running" /\ sStack # <<>> /\ sError # "none"
      /\ sStack' = SubSeq(sStack, 1, Len(sStack) - 1)
      /\ sVisiting' = SubSeq(sVisiting, 1, Len(sVisiting) - 1)
      /\ UNCHANGED <<files, sStatus, sError, sCache, sSemantic, sDependencies, sReads>>
  BY DEF S!Fail, S!Left, S!Front
<1>2. sStack' \in Seq(S!Frame) /\ Shorter(sStack, sStack')
  BY <1>1, StrictFacts, Popped
<1>3. sVisiting' \in Seq(Modules)
  <2>1. CASE sVisiting = <<>>
    BY <1>1, <2>1
  <2>2. CASE sVisiting # <<>>
    BY <1>1, <2>2, StrictFacts, Popped
  <2> QED BY <2>1, <2>2
<1>4. S!TypeOK'
  BY <1>1, <1>2, <1>3, StrictFacts, StrictGraph DEF StrictInv, S!TypeOK, S!Frame
<1>5. ~Compiles(files, Root)
  BY <1>1 DEF StrictInv
<1> QED BY <1>1, <1>4, <1>5 DEF StrictInv

LEMMA StartKeeps == StrictInv /\ S!Start => StrictInv'
<1> SUFFICES ASSUME StrictInv, S!Start PROVE StrictInv'
  OBVIOUS
<1> DEFINE frame == S!NewFrame(Root)
<1>1. /\ files \in Graphs /\ sStatus = "start" /\ sStatus' = "running" /\ sStack = <<>>
      /\ sError = "none" /\ sCache = {} /\ sDependencies = {} /\ sSemantic = {}
      /\ SoFar /\ sVisiting = <<>>
      /\ UNCHANGED <<files, sCache, sSemantic>>
  <2>1. sVisiting = <<>>
    BY DEF StrictInv, S!Start, SoFar
  <2> QED BY <2>1, StrictFacts DEF StrictInv, S!Start, S!EnterTelora, SoFar
<1>2. S!Visiting = {}
  BY <1>1 DEF S!Visiting
<1>3. /\ sDependencies' = {Root} /\ sError' = S!TextError(Root)
      /\ sVisiting' = Append(<<>>, Root) /\ sStack' = Append(<<>>, frame)
      /\ sReads' = [sReads EXCEPT ![Root] = @ + 1]
  BY <1>1, <1>2 DEF S!Start, S!EnterTelora, S!Refuses
<1>4. /\ frame.module = Root /\ frame.next = 1 /\ frame.opened = [n \in Names |-> {}]
      /\ frame \in S!Frame
  BY <1>1, StrictGraph, TreeFacts DEF S!NewFrame, S!Frame
<1> HIDE DEF frame
<1>5. sStack' = <<frame>> /\ sVisiting' = <<Root>> /\ DOMAIN sStack' = {1} /\ sStack'[1] = frame
  BY <1>3
<1>6. sReads' = [m \in Modules |-> IF m \in sDependencies' THEN 1 ELSE 0]
  BY <1>1, <1>3, TreeFacts DEF StrictInv
<1>7. OnStack' = {Root}
  BY <1>4, <1>5 DEF OnStack, ModulesOf
<1>8. S!TypeOK'
  <2>1. sReads' \in [Modules -> Nat]
    BY <1>6
  <2>2. sError' \in S!Errors
    BY <1>1, <1>3, TextErrors, TreeFacts
  <2>3. sStack' \in Seq(S!Frame) /\ sVisiting' \in Seq(Modules)
    BY <1>1, <1>4, <1>5, TreeFacts
  <2> QED BY <1>1, <1>3, <2>1, <2>2, <2>3, TreeFacts, StrictGraph DEF S!TypeOK, S!Frame
<1>9. sDependencies' \subseteq Reachable(files)
  BY <1>1, <1>3, ClosureHasStart, TreeFacts DEF Reachable
<1>10. sError' # "none" => ~Compiles(files, Root)
  BY <1>1, <1>3, TextErrors, TreeFacts
<1>11. ASSUME sError' = "none" PROVE Path(files, sStack') /\ SoFar'
  <2>1. S!TextError(Root) = "none" /\ files[Root].fault # "unreadable"
    BY <1>1, <1>3, <1>11, TextErrors, TreeFacts DEF Wrong
  <2>2. Path(files, sStack')
    BY <1>1, <1>4, <1>5, <2>1, PathStarts
  <2>3. Finished' = {}
    BY <1>5 DEF Finished
  <2>4. FrameSoFar(files, sCache', frame)
    BY <1>4, OpenedFirst DEF FrameSoFar
  <2>5. \A x : S!TextError(x)' = S!TextError(x)
    BY <1>1 DEF S!TextError
  <2>6. sVisiting' = [i \in DOMAIN sStack' |-> sStack'[i].module]
    BY <1>4, <1>5
  <2> QED BY <1>1, <1>3, <1>5, <1>7, <2>1, <2>2, <2>3, <2>4, <2>5, <2>6 DEF SoFar
<1> QED BY <1>1, <1>6, <1>7, <1>8, <1>9, <1>10, <1>11 DEF StrictInv

LEMMA StopKeeps == StrictInv /\ S!Stop => StrictInv'
<1> SUFFICES ASSUME StrictInv, S!Stop PROVE StrictInv'
  OBVIOUS
<1>1. /\ sStatus = "running" /\ sStack = <<>>
      /\ sStatus' = IF sError = "none" THEN "ok" ELSE "failed"
      /\ UNCHANGED <<files, sStack, sVisiting, sError, sCache, sSemantic, sDependencies, sReads>>
  BY DEF S!Stop
<1>2. S!TypeOK'
  BY <1>1, StrictFacts, StrictGraph DEF StrictInv, S!TypeOK, S!Frame
<1>3. OnStack' = OnStack /\ Finished' = Finished
  BY <1>1 DEF OnStack, Finished
<1>4. \A x : S!TextError(x)' = S!TextError(x)
  BY <1>1 DEF S!TextError
<1>5. SoFar => SoFar'
  BY <1>1, <1>3, <1>4 DEF SoFar
<1> QED BY <1>1, <1>2, <1>3, <1>5 DEF StrictInv

LEMMA StrictKeeps == StrictInv /\ [S!Next]_<<files, strict>> => StrictInv'
<1> SUFFICES ASSUME StrictInv, [S!Next]_<<files, strict>> PROVE StrictInv'
  OBVIOUS
<1>1. ASSUME UNCHANGED <<files, strict>> PROVE StrictInv'
  <2>1. OnStack' = OnStack /\ Finished' = Finished
    BY <1>1 DEF OnStack, Finished, strict
  <2>2. \A x : S!TextError(x)' = S!TextError(x)
    BY <1>1 DEF S!TextError
  <2>3. SoFar => SoFar'
    BY <1>1, <2>1, <2>2 DEF SoFar, strict
  <2>4. S!TypeOK'
    BY <1>1, StrictGraph DEF StrictInv, S!TypeOK, S!Frame, strict
  <2> QED BY <1>1, <2>1, <2>3, <2>4 DEF StrictInv, strict
<1> QED BY <1>1, DuplicateKeeps, UnresolvedKeeps, UnloadedKeeps, LoadedKeeps, FinishKeeps, FailKeeps,
           StartKeeps, StopKeeps DEF S!Next

LEMMA StrictLoaderRight ==
    ASSUME StrictInv
    PROVE  /\ S!TypeOK /\ S!VisitingIsTheStack /\ S!CacheEvaluates
           /\ S!OkIfCompiles /\ S!LoadedWhole
<1>1. S!TypeOK /\ files \in Graphs
  BY DEF StrictInv
<1>2. S!VisitingIsTheStack
  BY DEF StrictInv, SoFar, S!VisitingIsTheStack
<1>3. S!CacheEvaluates
  BY StrictGraph, StrictClosures DEF StrictInv, S!CacheEvaluates
<1>4. ASSUME sStatus = "ok"
      PROVE  /\ Compiles(files, Root) /\ sSemantic = sDependencies
             /\ sDependencies = sCache \cup {Root} /\ ImportsOf(files, Root) \subseteq sCache
  <2>1. sError = "none" /\ sStack = <<>> /\ SoFar
    BY <1>4 DEF StrictInv
  <2>2. Finished = {Root} /\ OnStack = {}
    BY <1>4, <2>1 DEF Finished, OnStack, ModulesOf
  <2> QED BY <2>1, <2>2 DEF SoFar
<1>5. S!OkIfCompiles
  <2>1. sStatus = "failed" => ~Compiles(files, Root)
    BY DEF StrictInv
  <2> QED BY <1>1, <1>4, <2>1, RootCompilesIs DEF S!OkIfCompiles
<1>6. \A m \in Modules : sReads[m] <= 1
  BY DEF StrictInv
<1>7. sStatus = "ok" => sDependencies = Reachable(files)
  <2> SUFFICES ASSUME sStatus = "ok" PROVE Reachable(files) \subseteq sDependencies
    BY DEF StrictInv
  <2>1. {Root} \subseteq sDependencies /\ {Root} \subseteq Modules
    BY <1>1, <1>4, TreeFacts
  <2>2. \A m \in sDependencies \cap Modules : ImportsOf(files, m) \subseteq sDependencies
    BY <1>4 DEF StrictInv
  <2> QED BY <2>1, <2>2, ClosureWithin DEF Reachable
<1>8. S!LoadedWhole
  BY <1>4, <1>6, <1>7, StrictGraph, StrictClosures DEF S!LoadedWhole
<1> QED BY <1>1, <1>2, <1>3, <1>5, <1>8

----------------------------------------------------------------------------
(* The recoverable builder (Loader): its view of the graph is this one.    *)

LEMMA LoaderCardinality == \A X : R!Cardinality(X) = Cardinality(X)
BY DEF R!Cardinality, Cardinality

LEMMA LoaderGraph ==
    /\ R!Modules = Modules /\ R!OnlyPrelude = OnlyPrelude
    /\ \A f, m : /\ R!ExportsOf(f, m) = ExportsOf(f, m)
                 /\ R!IsRecord(f, m) = IsRecord(f, m)
                 /\ R!Selects(f, m) = Selects(f, m)
                 /\ R!ImportsOf(f, m) = ImportsOf(f, m)
    /\ \A f, o, t : R!Opened(f, o, t) = Opened(f, o, t)
    /\ \A f, m, o : R!Ambiguous(f, m, o) = Ambiguous(f, m, o)
    /\ \A f, m, b, o : R!Analyses(f, m, b, o) = Analyses(f, m, b, o)
    /\ \A f, m, b, k : R!BindsName(f, m, b, k) = BindsName(f, m, b, k)
<1>1. R!Modules = Modules /\ R!OnlyPrelude = OnlyPrelude
  BY DEF R!Modules, Modules, R!OnlyPrelude, OnlyPrelude
<1>2. \A f, m : R!ExportsOf(f, m) = ExportsOf(f, m)
  BY DEF R!ExportsOf, ExportsOf
<1>3. \A f, m : R!IsRecord(f, m) = IsRecord(f, m)
  BY DEF R!IsRecord, IsRecord
<1>4. \A f, m : R!Selects(f, m) = Selects(f, m)
  BY <1>2, <1>3 DEF R!Selects, Selects
<1>5. \A f, m : R!ImportsOf(f, m) = ImportsOf(f, m)
  BY DEF R!ImportsOf, ImportsOf
<1>6. \A f, o, t : R!Opened(f, o, t) = Opened(f, o, t)
  BY <1>2 DEF R!Opened, Opened
<1>7. \A f, m, o : R!Ambiguous(f, m, o) = Ambiguous(f, m, o)
  BY LoaderCardinality DEF R!Ambiguous, Ambiguous, R!Candidates, Candidates
<1>8. \A f, m, o : R!Unique(f, m, o) = Unique(f, m, o)
  BY <1>7 DEF R!Unique, Unique, R!Candidates, Candidates
<1>9. \A f, m, b, o : R!Analyses(f, m, b, o) = Analyses(f, m, b, o)
  BY <1>8 DEF R!Analyses, Analyses, R!BindsName, BindsName
<1>10. \A f, m, b, k : R!BindsName(f, m, b, k) = BindsName(f, m, b, k)
  BY DEF R!BindsName, BindsName
<1> QED BY <1>1, <1>2, <1>3, <1>4, <1>5, <1>6, <1>7, <1>9, <1>10

LEMMA LoaderClosures ==
    /\ \A f : R!Reachable(f) = Reachable(f)
    /\ \A f : R!Recoverable(f) = Recoverable(f)
    /\ \A f, m : R!OnCycle(f, m) = OnCycle(f, m)
<1>1. \A f, m : R!AllOpen(f, m) = AllOpen(f, m)
  BY LoaderGraph DEF R!AllOpen, AllOpen
<1>2. \A f, m : R!Accepted(f, m) = Accepted(f, m)
  BY <1>1, LoaderGraph DEF R!Accepted, Accepted
<1>3. \A f, X, m : R!RestsOn(f, X, m) = RestsOn(f, X, m)
  BY DEF R!RestsOn, RestsOn
<1>4. \A f : R!Recoverable(f) = Recoverable(f)
  BY <1>2, <1>3, LoaderGraph DEF R!Recoverable, Recoverable, R!Grounded, Grounded
<1>5. \A f, start : R!Closure(f, start) = Closure(f, start)
  BY LoaderGraph DEF R!Closure, Closure
<1>6. \A f : R!Reachable(f) = Reachable(f)
  BY <1>5 DEF R!Reachable, Reachable
<1>7. \A f, m : R!OnCycle(f, m) = OnCycle(f, m)
  BY <1>5, LoaderGraph DEF R!OnCycle, OnCycle
<1> QED BY <1>4, <1>6, <1>7

----------------------------------------------------------------------------
(* The recoverable builder.                                                *)

rTop == rStack[Len(rStack)]
rImports == files[rTop.module].imports
rTarget == rImports[rTop.next].target

rBusy == ModulesOf(rStack)

\* Modules that have an input or are being loaded.
Met == DOMAIN rInputs \cup rBusy

\* A module that evaluates, or the root when only its run may fail.
Good(f, m) == IF m = Root THEN Recovers(f, Root) ELSE m \in Recoverable(f)

\* Every import of a call so far arrived and is bound.
FrameDone(f, values, frame) ==
    /\ \A k \in 1..frame.next - 1 :
          LET import == f[frame.module].imports[k] IN
          /\ import.target \in values \cup {Builtin} /\ Binds(f, import)
          /\ import.open \/ k \in frame.bound
    /\ frame.opened = OpenedBefore(f, frame.module, frame.next)
    /\ f[frame.module].fault \notin {"option", "native", "silent", "unparsed"}

\* What is bound has a value, and what goes wrong is reported: only the second
\* cycle and the following are not.
FrameInv(f, values, reported, frame) ==
    /\ \A k \in frame.bound :
          /\ k \in 1..frame.next - 1
          /\ f[frame.module].imports[k].target \in values \cup {Builtin}
    /\ "raises" \notin frame.diagnostics
    /\ frame.diagnostics = {} /\ ~reported => FrameDone(f, values, frame)

\* A good module has its value, and nothing to report but the failure of a root.
InputGood(f, values, m, input) ==
    Good(f, m) =>
        /\ f[m].fault \in Clear => m \in values /\ input.diagnostics = {}
        /\ f[m].fault = "raises" => input.diagnostics = {"raises"}

\* The value a load has returned, for the import its caller is at.
Arrived ==
    rStack # <<>> /\ rReturned # "nothing" =>
        /\ rTop.next <= Len(rImports) /\ rTarget \in Sources
        /\ rReturned = "value" => rTarget \in rValues
        /\ rReturned = "none" => \/ rCancelled
                                 \/ rTarget \in DOMAIN rInputs \ rValues
                                 \/ rTarget \in rMembers \cap rBusy

\* Nothing is reported, but that the root fails when it is run.
Clean ==
    /\ \A m \in DOMAIN rInputs :
          rInputs[m].diagnostics \subseteq (IF m = Root THEN {"raises"} ELSE {})
    /\ \A i \in DOMAIN rStack : rStack[i].diagnostics = {}

\* Below each call is the one that imports it.
Chain(f, stack) ==
    \A i \in DOMAIN stack : i > 1 =>
        LET below == stack[i - 1] IN
        /\ below.next <= Len(f[below.module].imports)
        /\ f[below.module].imports[below.next].target = stack[i].module
        /\ stack[i].module \in Sources

\* The imports of a call so far are met.
FrameMet(f, met, frame) ==
    \A k \in 1..frame.next - 1 :
        f[frame.module].imports[k].target \in met \cup {Builtin, Unresolved}

FrameGood(f, values, frame) ==
    Good(f, frame.module) => frame.diagnostics = {} /\ FrameDone(f, values, frame)

\* Without a report all values are right, and the root's failure is its own.
CleanIsRight ==
    Clean => /\ ~rReported /\ rValues \subseteq Recoverable(files)
             /\ (Root \in DOMAIN rInputs /\ rInputs[Root].diagnostics # {}) =>
                   Recovers(files, Root)

\* As long as the query is not cancelled, what is met is kept and read once.
AllMet ==
    /\ rReads = [m \in Modules |-> IF m \in Met THEN 1 ELSE 0]
    /\ DOMAIN rInputs \cap rBusy = {}
    /\ \A m \in DOMAIN rInputs : ImportsOf(files, m) \subseteq Met
    /\ rStatus # "start" => Root \in Met

\* The imports of a module whose target has a value.
HeldBy(f, values, m) ==
    {k \in DOMAIN f[m].imports : f[m].imports[k].target \in values \cup {Builtin}}

ValuesRest(f, values) ==
    \A m \in values : \A k \in DOMAIN f[m].imports :
        f[m].imports[k].open \/ BindsName(f, m, HeldBy(f, values, m), k)

InputKept(f, values, m, input) ==
    input.targets \cap Sources \subseteq ImportsOf(f, m) /\ InputGood(f, values, m, input)

RecoverInv ==
    /\ files \in Graphs
    /\ R!TypeOK
    /\ rStatus = "start" => /\ rStack = <<>> /\ rReturned = "nothing" /\ DOMAIN rInputs = {}
                            /\ rReported = FALSE
    /\ rStatus = "done" => rCancelled = FALSE /\ rStack = <<>>
    /\ Path(files, rStack) /\ Chain(files, rStack)
    /\ \A i \in DOMAIN rStack : FrameInv(files, rValues, rReported, rStack[i])
    /\ Arrived
    /\ \A m \in rMembers : OnCycle(files, m)
    /\ ValuesRest(files, rValues)
    /\ \A m \in DOMAIN rInputs : InputKept(files, rValues, m, rInputs[m])
    /\ \A m \in Modules : rReads[m] <= 1
    /\ Met \subseteq Reachable(files)
    /\ ~rCancelled =>
          /\ AllMet
          /\ \A i \in DOMAIN rStack : FrameMet(files, Met, rStack[i])
          /\ \A i \in DOMAIN rStack : FrameGood(files, rValues, rStack[i])
          /\ CleanIsRight


LEMMA LoaderStarts == Init => RecoverInv
<1> SUFFICES ASSUME Init PROVE RecoverInv
  OBVIOUS
<1>1. /\ files \in Graphs /\ rCancelled = FALSE /\ rStatus = "start" /\ rStack = <<>>
      /\ rReturned = "nothing" /\ rInputs = [m \in {} |-> 0] /\ rValues = {}
      /\ rMembers = {} /\ rReported = FALSE /\ rReads = [m \in Modules |-> 0]
  BY LoaderGraph DEF Init, S!Init, R!NewBuilder
<1>2. DOMAIN rStack = {} /\ DOMAIN rInputs = {} /\ rBusy = {} /\ Met = {}
  BY <1>1 DEF rBusy, Met, ModulesOf
<1>3. R!TypeOK
  <2>1. rReads \in [Modules -> Nat] /\ rStack \in Seq(R!Frame)
    BY <1>1
  <2> QED BY <1>1, <1>2, <2>1, LoaderGraph DEF R!TypeOK
<1>4. Path(files, rStack) /\ Chain(files, rStack) /\ Arrived
  BY <1>1, <1>2 DEF Path, Chain, Arrived
<1>5. ValuesRest(files, rValues) /\ AllMet /\ CleanIsRight
  BY <1>1, <1>2 DEF ValuesRest, AllMet, CleanIsRight
<1>6. \A m \in Modules : rReads[m] <= 1
  BY <1>1
<1> QED BY ONLY <1>1, <1>2, <1>3, <1>4, <1>5, <1>6 DEF RecoverInv

LEMMA LoaderFacts ==
    ASSUME RecoverInv
    PROVE  /\ files \in Graphs
           /\ rCancelled \in BOOLEAN /\ rStatus \in {"start", "running", "done", "failed"}
           /\ rStack \in Seq(R!Frame) /\ rReturned \in {"nothing", "value", "none"}
           /\ DOMAIN rInputs \subseteq Modules /\ rValues \subseteq DOMAIN rInputs
           /\ rMembers \subseteq Modules /\ rReported \in BOOLEAN
           /\ rReads \in [Modules -> Nat]
           /\ \A m \in DOMAIN rInputs : rInputs[m] \in R!Inputs
BY LoaderGraph DEF RecoverInv, R!TypeOK

\* What stays true when more values are known.
LEMMA FrameKept ==
    ASSUME NEW f, NEW values, NEW more, values \subseteq more, NEW frame
    PROVE  /\ FrameDone(f, values, frame) => FrameDone(f, more, frame)
           /\ FrameGood(f, values, frame) => FrameGood(f, more, frame)
           /\ \A reported, later \in BOOLEAN : 
                 (reported => later) /\ FrameInv(f, values, reported, frame)
                 => FrameInv(f, more, later, frame)
<1>1. FrameDone(f, values, frame) => FrameDone(f, more, frame)
  BY DEF FrameDone
<1> QED BY <1>1 DEF FrameGood, FrameInv

LEMMA MetKept ==
    ASSUME NEW f, NEW met, NEW more, met \subseteq more, NEW frame, FrameMet(f, met, frame)
    PROVE  FrameMet(f, more, frame)
BY DEF FrameMet

LEMMA InputStays ==
    ASSUME NEW f, NEW values, NEW more, values \subseteq more, NEW m, NEW input,
           InputKept(f, values, m, input)
    PROVE  InputKept(f, more, m, input)
BY DEF InputKept, InputGood

LEMMA GoodCompiles ==
    ASSUME NEW f \in Graphs, NEW m \in Modules, Good(f, m), f[m].kind = "telora"
    PROVE  Recovers(f, m)
BY RecoverableCompiles DEF Good

LEMMA RTopFacts ==
    ASSUME RecoverInv, rStack # <<>>
    PROVE  /\ R!Top = rTop /\ Len(rStack) \in DOMAIN rStack /\ Len(rStack) \in Nat
           /\ rTop = rStack[Len(rStack)] /\ rTop \in R!Frame /\ rTop.module \in Modules
           /\ files[rTop.module].kind = "telora" /\ files[rTop.module].fault # "unreadable"
           /\ rTop.next \in 1..Len(rImports) + 1 /\ Len(rImports) \in Nat
           /\ DOMAIN rImports = 1..Len(rImports) /\ rTop.next \in Nat
           /\ FrameInv(files, rValues, rReported, rTop)
           /\ ~rCancelled => FrameMet(files, Met, rTop) /\ FrameGood(files, rValues, rTop)
           /\ rStatus # "start" /\ rTop.module \in rBusy /\ rTop.module \in Reachable(files)
<1>1. rStack \in Seq(R!Frame) /\ files \in Graphs /\ Path(files, rStack)
  BY LoaderFacts DEF RecoverInv
<1>2. /\ R!Top = rTop /\ Len(rStack) \in DOMAIN rStack /\ Len(rStack) \in Nat
      /\ rTop = rStack[Len(rStack)] /\ rTop \in R!Frame
  BY <1>1 DEF R!Top, rTop
<1>3. /\ rTop.module \in Modules /\ rTop.module \in rBusy
      /\ files[rTop.module].kind = "telora" /\ files[rTop.module].fault # "unreadable"
      /\ rTop.next \in 1..Len(files[rTop.module].imports) + 1
  BY <1>1, <1>2 DEF Path, rBusy, ModulesOf
<1>4. Len(rImports) \in Nat /\ DOMAIN rImports = 1..Len(rImports)
  BY <1>1, <1>3, TreeFacts DEF rImports
<1>5. rTop.next \in 1..Len(rImports) + 1
  BY <1>3 DEF rImports
<1>6. rTop.next \in Nat
  BY <1>4, <1>5
<1>7. rTop.module \in Reachable(files)
  BY <1>3 DEF RecoverInv, Met
<1>8. /\ FrameInv(files, rValues, rReported, rTop) /\ rStatus # "start"
      /\ ~rCancelled => FrameMet(files, Met, rTop) /\ FrameGood(files, rValues, rTop)
  BY <1>2 DEF RecoverInv
<1> QED BY <1>1, <1>2, <1>3, <1>4, <1>5, <1>6, <1>7, <1>8

LEMMA RImportFacts ==
    ASSUME RecoverInv, R!AtImport
    PROVE  /\ rStack # <<>> /\ rStatus = "running" /\ rTop.next <= Len(rImports)
           /\ rTop.next \in DOMAIN rImports
           /\ R!NextImport = rImports[rTop.next] /\ R!NextImport.target = rTarget
           /\ rTarget \in Sources \cup {Builtin, Unresolved}
           /\ R!NextImport.open \in BOOLEAN
           /\ rTarget \in Sources =>
                 rTarget \in ImportsOf(files, rTop.module) /\ rTarget \in Reachable(files)
                 /\ rTarget \in Modules
           /\ Good(files, rTop.module) =>
                 rTarget \in Recoverable(files) \cup {Builtin} /\ Binds(files, R!NextImport)
<1>1. rStack # <<>> /\ rStatus = "running"
  BY DEF R!AtImport
<1>2. R!Top = rTop /\ rTop.next <= Len(rImports)
  BY <1>1, RTopFacts DEF R!AtImport, rImports
<1>3. R!NextImport = rImports[rTop.next] /\ R!NextImport.target = rTarget
  BY <1>2 DEF R!NextImport, rImports, rTarget
<1>4. rTop.next \in DOMAIN rImports
  BY <1>1, <1>2, RTopFacts
<1>5. rTop.module \in Modules /\ files \in Graphs
  BY <1>1, RTopFacts, LoaderFacts
<1>6. rTarget \in Sources \cup {Builtin, Unresolved} /\ R!NextImport.open \in BOOLEAN
  BY <1>3, <1>4, <1>5, TreeFacts DEF rImports
<1>7. ASSUME rTarget \in Sources
      PROVE  /\ rTarget \in ImportsOf(files, rTop.module) /\ rTarget \in Reachable(files)
             /\ rTarget \in Modules
  <2>1. rTarget \in ImportsOf(files, rTop.module)
    BY <1>1, <1>4, <1>7, RTopFacts DEF ImportsOf, rTarget, rImports
  <2> QED BY <1>1, <2>1, RTopFacts, ClosureFollows, ImportsAreSources DEF Reachable
<1>8. ASSUME Good(files, rTop.module)
      PROVE  rTarget \in Recoverable(files) \cup {Builtin} /\ Binds(files, R!NextImport)
  <2>1. Recovers(files, rTop.module)
    BY <1>1, <1>5, <1>8, RTopFacts, GoodCompiles
  <2> QED BY <1>3, <1>4, <2>1 DEF Recovers, CompilesOver, rTarget, rImports
<1> QED BY <1>1, <1>2, <1>3, <1>4, <1>6, <1>7, <1>8

\* The frame of a call after an import: with diagnostics, an open, or a binding.
Reporting(r, d) == [r EXCEPT !.next = @ + 1, !.diagnostics = @ \cup d]
Opening(r, o)   == [r EXCEPT !.next = @ + 1, !.opened = o]
Binding(r, k)   == [r EXCEPT !.next = @ + 1, !.bound = @ \cup {k}]

LEMMA FrameReports ==
    ASSUME NEW r \in R!Frame, NEW d \in SUBSET R!Diagnostics
    PROVE  LET x == Reporting(r, d) IN
           /\ x \in R!Frame /\ x.module = r.module /\ x.next = r.next + 1
           /\ x.bound = r.bound /\ x.opened = r.opened /\ x.diagnostics = r.diagnostics \cup d
<1> DEFINE D == SUBSET R!Diagnostics
           F == [module : R!Modules, next : Nat, bound : SUBSET Nat,
                 opened : [Names -> SUBSET (Sources \cup {Builtin, Prelude})], diagnostics : D]
           r1 == [r EXCEPT !.next = @ + 1]
           x == Reporting(r, d)
<1>1. r \in F /\ d \in D /\ r.diagnostics \cup d \in D
  BY DEF R!Frame
<1> DEFINE e == r.diagnostics \cup d
<1>2. e = r.diagnostics \cup d /\ e \in D
  BY <1>1
<1> HIDE DEF D, e
<1>3. /\ r1 \in F /\ r1.module = r.module /\ r1.next = r.next + 1
      /\ r1.bound = r.bound /\ r1.opened = r.opened /\ r1.diagnostics = r.diagnostics
  BY <1>1
<1>4. x = [r1 EXCEPT !.diagnostics = e]
  BY <1>2 DEF Reporting
<1> HIDE DEF r1, x
<1>5. /\ x \in F /\ x.module = r.module /\ x.next = r.next + 1
      /\ x.bound = r.bound /\ x.opened = r.opened /\ x.diagnostics = e
  BY <1>2, <1>3, <1>4
<1> QED BY <1>2, <1>5 DEF R!Frame, x, D

LEMMA FrameOpens ==
    ASSUME NEW r \in R!Frame, NEW o \in OpenNames
    PROVE  LET x == Opening(r, o) IN
           /\ x \in R!Frame /\ x.module = r.module /\ x.next = r.next + 1
           /\ x.bound = r.bound /\ x.opened = o /\ x.diagnostics = r.diagnostics
<1> DEFINE F == [module : R!Modules, next : Nat, bound : SUBSET Nat,
                 opened : OpenNames, diagnostics : SUBSET R!Diagnostics]
           r1 == [r EXCEPT !.next = @ + 1]
           x == Opening(r, o)
<1>1. r \in F
  BY DEF R!Frame, OpenNames
<1>2. /\ r1 \in F /\ r1.module = r.module /\ r1.next = r.next + 1
      /\ r1.bound = r.bound /\ r1.opened = r.opened /\ r1.diagnostics = r.diagnostics
  BY <1>1
<1>3. x = [r1 EXCEPT !.opened = o]
  BY DEF Opening
<1> HIDE DEF r1, x
<1>4. /\ x \in F /\ x.module = r.module /\ x.next = r.next + 1
      /\ x.bound = r.bound /\ x.opened = o /\ x.diagnostics = r.diagnostics
  BY <1>2, <1>3
<1> QED BY <1>4 DEF R!Frame, OpenNames, x

LEMMA FrameBinds ==
    ASSUME NEW r \in R!Frame, NEW k \in Nat
    PROVE  LET x == Binding(r, k) IN
           /\ x \in R!Frame /\ x.module = r.module /\ x.next = r.next + 1
           /\ x.bound = r.bound \cup {k} /\ x.opened = r.opened
           /\ x.diagnostics = r.diagnostics
<1> DEFINE B == SUBSET Nat
           F == [module : R!Modules, next : Nat, bound : B,
                 opened : OpenNames, diagnostics : SUBSET R!Diagnostics]
           r1 == [r EXCEPT !.next = @ + 1]
           x == Binding(r, k)
           b == r.bound \cup {k}
<1>1. r \in F
  BY DEF R!Frame, OpenNames
<1>2. b = r.bound \cup {k} /\ b \in B
  BY <1>1
<1> HIDE DEF B, b
<1>3. /\ r1 \in F /\ r1.module = r.module /\ r1.next = r.next + 1
      /\ r1.bound = r.bound /\ r1.opened = r.opened /\ r1.diagnostics = r.diagnostics
  BY <1>1
<1>4. x = [r1 EXCEPT !.bound = b]
  BY <1>2 DEF Binding
<1> HIDE DEF r1, x
<1>5. /\ x \in F /\ x.module = r.module /\ x.next = r.next + 1
      /\ x.bound = b /\ x.opened = r.opened /\ x.diagnostics = r.diagnostics
  BY <1>2, <1>3, <1>4
<1> QED BY <1>2, <1>5 DEF R!Frame, OpenNames, x, B

\* The innermost call moves on to its next import.
LEMMA AdvanceKeeps ==
    ASSUME RecoverInv, R!AtImport, NEW frame \in R!Frame,
           frame.module = rTop.module, frame.next = rTop.next + 1,
           rTop.diagnostics \subseteq frame.diagnostics,
           FrameInv(files, rValues, rReported', frame),
           ~rCancelled => /\ rTarget \in Met \cup {Builtin, Unresolved}
                          /\ FrameGood(files, rValues, frame),
           rReported' \in BOOLEAN, rReported => rReported',
           rReported' # rReported => frame.diagnostics # {},
           rStack' = [rStack EXCEPT ![Len(rStack)] = frame], rReturned' = "nothing",
           UNCHANGED <<files, rCancelled, rStatus, rInputs, rValues, rMembers, rReads>>
    PROVE  RecoverInv'
<1>1. /\ rStack \in Seq(R!Frame) /\ rStack # <<>> /\ files \in Graphs
      /\ rStatus = "running" /\ rTop = rStack[Len(rStack)]
      /\ rTop.next <= Len(rImports) /\ rTop.next \in Nat
  BY LoaderFacts, RImportFacts, RTopFacts
<1>2. /\ rStack' \in Seq(R!Frame) /\ rStack' # <<>>
      /\ DOMAIN rStack' = DOMAIN rStack /\ DOMAIN rStack = 1..Len(rStack)
      /\ Len(rStack) \in DOMAIN rStack /\ Len(rStack) \in Nat
      /\ rStack'[Len(rStack)] = frame
      /\ \A i \in DOMAIN rStack : i # Len(rStack) => rStack'[i] = rStack[i]
  BY <1>1, Replaced
<1>3. Path(files, rStack') /\ ModulesOf(rStack') = ModulesOf(rStack)
  <2>1. Path(files, rStack)
    BY DEF RecoverInv
  <2>2. rTop.next <= Len(files[rTop.module].imports) /\ frame \in R!Frame
    BY <1>1 DEF rImports
  <2> DEFINE t == [rStack EXCEPT ![Len(rStack)] = frame]
  <2>3. Path(files, t) /\ ModulesOf(t) = ModulesOf(rStack)
    BY ONLY <1>1, <2>1, <2>2, PathAdvances,
            frame.module = rTop.module, frame.next = rTop.next + 1
  <2> QED BY <2>3
<1>4. rBusy' = rBusy /\ Met' = Met
  BY <1>3 DEF rBusy, Met
<1>5. Chain(files, rStack')
  <2>1. \A i \in DOMAIN rStack : i > 1 => i - 1 \in DOMAIN rStack /\ i - 1 # Len(rStack)
    BY <1>2
  <2>2. \A i \in DOMAIN rStack : rStack'[i].module = rStack[i].module
    BY <1>1, <1>2
  <2>3. Chain(files, rStack)
    BY DEF RecoverInv
  <2> QED BY <1>2, <2>1, <2>2, <2>3 DEF Chain
<1>6. \A i \in DOMAIN rStack : FrameInv(files, rValues, rReported', rStack'[i])
  <2>1. \A i \in DOMAIN rStack : FrameInv(files, rValues, rReported, rStack[i])
    BY DEF RecoverInv
  <2>2. \A i \in DOMAIN rStack : FrameInv(files, rValues, rReported', rStack[i])
    BY <2>1, FrameKept, LoaderFacts
  <2> QED BY <1>2, <2>2
<1>7. FrameMet(files, Met, frame) \/ rCancelled
  <2> SUFFICES ASSUME ~rCancelled PROVE FrameMet(files, Met, frame)
    OBVIOUS
  <2>1. FrameMet(files, Met, rTop)
    BY <1>1, RTopFacts
  <2> DEFINE n == rTop.next
  <2>2. n \in Nat /\ frame.next = n + 1 /\ n # 0
    <3>1. n \in 1..Len(rImports) + 1
      BY <1>1, RTopFacts
    <3> QED BY <1>1, <3>1
  <2> HIDE DEF n
  <2>3. 1..frame.next - 1 = (1..n - 1) \cup {n}
    BY <2>2
  <2> USE DEF n
  <2> QED BY <2>1, <2>3 DEF FrameMet, rTarget, rImports
<1>8. ~rCancelled => \A i \in DOMAIN rStack : FrameMet(files, Met, rStack'[i])
  BY <1>2, <1>7 DEF RecoverInv
<1>9. ~rCancelled => \A i \in DOMAIN rStack : FrameGood(files, rValues, rStack'[i])
  BY <1>2 DEF RecoverInv
<1>10. ASSUME CleanIsRight PROVE CleanIsRight'
  <2> SUFFICES ASSUME Clean' PROVE /\ Clean /\ rReported' = rReported
    BY <1>10 DEF CleanIsRight
  <2>1. frame.diagnostics = {} /\ rReported' = rReported
    BY <1>2 DEF Clean
  <2>2. \A i \in DOMAIN rStack : rStack[i].diagnostics = {}
    BY <1>1, <1>2, <2>1 DEF Clean
  <2> QED BY <2>1, <2>2 DEF Clean
<1>11. ~rCancelled => AllMet' /\ CleanIsRight'
  BY <1>4, <1>10 DEF RecoverInv, AllMet
<1>12. R!TypeOK'
  BY <1>2, LoaderFacts, LoaderGraph DEF RecoverInv, R!TypeOK, R!Frame, R!Inputs
<1>13. Arrived'
  BY DEF Arrived
<1> QED BY <1>1, <1>2, <1>3, <1>4, <1>5, <1>6, <1>8, <1>9, <1>11, <1>12, <1>13 DEF RecoverInv

LEMMA ReportKeeps ==
    ASSUME RecoverInv, R!AtImport, NEW d \in SUBSET R!Diagnostics, "raises" \notin d,
           R!Unbound(d), d # {} \/ rReported,
           ~rCancelled => /\ rTarget \in Met \cup {Builtin, Unresolved}
                          /\ ~Good(files, rTop.module),
           rReported' \in BOOLEAN, rReported => rReported', rReported' # rReported => d # {},
           rReturned' = "nothing",
           UNCHANGED <<files, rCancelled, rStatus, rInputs, rValues, rMembers, rReads>>
    PROVE  RecoverInv'
<1> DEFINE frame == Reporting(rTop, d)
<1>1. /\ R!Top = rTop /\ rTop \in R!Frame /\ rTop.next \in Nat
      /\ FrameInv(files, rValues, rReported, rTop)
  BY RImportFacts, RTopFacts
<1>2. /\ frame \in R!Frame /\ frame.module = rTop.module /\ frame.next = rTop.next + 1
      /\ frame.bound = rTop.bound /\ frame.diagnostics = rTop.diagnostics \cup d
  BY <1>1, FrameReports
<1>3. rStack' = [rStack EXCEPT ![Len(rStack)] = frame]
  BY <1>1 DEF R!Unbound, R!ReplaceTop, Reporting
<1> HIDE DEF frame
<1>4. FrameInv(files, rValues, rReported', frame)
  <2>1. ASSUME NEW k \in rTop.bound
        PROVE  /\ k \in 1..frame.next - 1
               /\ files[frame.module].imports[k].target \in rValues \cup {Builtin}
    <3>1. /\ k \in 1..rTop.next - 1
          /\ files[rTop.module].imports[k].target \in rValues \cup {Builtin}
      BY <1>1 DEF FrameInv
    <3> DEFINE n == rTop.next
    <3>2. n \in Nat /\ frame.next = n + 1 /\ k \in 1..n - 1
      BY <1>1, <1>2, <3>1
    <3> HIDE DEF n
    <3>3. k \in 1..frame.next - 1
      BY <3>2
    <3> QED BY <1>2, <3>1, <3>3
  <2>2. ~(frame.diagnostics = {} /\ ~rReported')
    BY <1>2
  <2>3. "raises" \notin frame.diagnostics
    BY <1>1, <1>2 DEF FrameInv
  <2> QED BY <1>2, <2>1, <2>2, <2>3 DEF FrameInv
<1>5. ~rCancelled => FrameGood(files, rValues, frame)
  BY <1>2 DEF FrameGood
<1>6. rTop.diagnostics \subseteq frame.diagnostics /\ (rReported' # rReported => frame.diagnostics # {})
  BY <1>2
<1> QED BY <1>2, <1>3, <1>4, <1>5, <1>6, AdvanceKeeps

LEMMA DoneNext ==
    ASSUME NEW f \in Graphs, NEW values, NEW r, NEW frame, r.module \in Modules,
           frame.module = r.module, r.next \in DOMAIN f[r.module].imports,
           frame.next = r.next + 1, FrameDone(f, values, r),
           NEW import, import = f[r.module].imports[r.next],
           import.target \in values \cup {Builtin}, Binds(f, import),
           import.target \in Sources \cup {Builtin},
           frame.opened = IF import.open THEN Opened(f, r.opened, import.target) ELSE r.opened,
           r.bound \subseteq frame.bound, import.open \/ r.next \in frame.bound
    PROVE  FrameDone(f, values, frame)
<1> DEFINE n == r.next
           m == r.module
<1>1. n \in Nat /\ n # 0
  BY TreeFacts
<1>2. 1..frame.next - 1 = (1..n - 1) \cup {n}
  <2>1. frame.next = n + 1
    OBVIOUS
  <2> HIDE DEF n
  <2> QED BY <1>1, <2>1
<1>3. \A k \in 1..frame.next - 1 :
         LET i == f[m].imports[k] IN
         /\ i.target \in values \cup {Builtin} /\ Binds(f, i)
         /\ i.open \/ k \in frame.bound
  BY <1>2 DEF FrameDone
<1>4. OpenedBefore(f, m, n) = r.opened
  BY DEF FrameDone
<1>5. frame.opened = OpenedBefore(f, m, n + 1)
  BY <1>4, OpenedNext
<1> QED BY <1>3, <1>5 DEF FrameDone

LEMMA MoreBound ==
    ASSUME RecoverInv, R!AtImport, rTarget \in rValues \cup {Builtin},
           NEW frame, frame.module = rTop.module, frame.next = rTop.next + 1,
           frame.diagnostics = rTop.diagnostics,
           frame.bound \subseteq rTop.bound \cup {rTop.next}, rTop.bound \subseteq frame.bound,
           Binds(files, R!NextImport), R!NextImport.open \/ rTop.next \in frame.bound,
           frame.opened = IF R!NextImport.open
                          THEN Opened(files, rTop.opened, rTarget) ELSE rTop.opened
    PROVE  /\ FrameInv(files, rValues, rReported, frame)
           /\ ~rCancelled => FrameGood(files, rValues, frame)
<1> DEFINE import == R!NextImport
           n == rTop.next
           m == rTop.module
<1>1. /\ files \in Graphs /\ import = files[m].imports[n] /\ import.target = rTarget
      /\ n \in DOMAIN files[m].imports /\ n \in Nat /\ n # 0 /\ m \in Modules
      /\ FrameInv(files, rValues, rReported, rTop)
      /\ ~rCancelled => FrameGood(files, rValues, rTop)
  <2>1. rTop.next \in 1..Len(rImports) + 1
    BY RImportFacts, RTopFacts
  <2> QED BY <2>1, RImportFacts, RTopFacts, LoaderFacts DEF rImports
<1>2. rTarget \in Sources \cup {Builtin}
  BY RImportFacts, LoaderFacts, TreeFacts DEF Modules
<1>3. FrameDone(files, rValues, rTop) => FrameDone(files, rValues, frame)
  <2> SUFFICES ASSUME FrameDone(files, rValues, rTop) PROVE FrameDone(files, rValues, frame)
    OBVIOUS
  <2> QED BY <1>1, <1>2, DoneNext
<1>4. ASSUME NEW k \in frame.bound
      PROVE  k \in 1..frame.next - 1 /\ files[m].imports[k].target \in rValues \cup {Builtin}
  <2>1. CASE k = n
    <3>1. n \in 1..n
      BY <1>1
    <3>2. frame.next - 1 = n
      BY <1>1
    <3> QED BY <1>1, <2>1, <3>1, <3>2
  <2>2. CASE k # n
    <3>1. k \in 1..n - 1 /\ files[m].imports[k].target \in rValues \cup {Builtin}
      BY <1>1, <2>2 DEF FrameInv
    <3>2. frame.next - 1 = n
      BY <1>1
    <3> HIDE DEF n
    <3>3. k \in 1..n
      BY <1>1, <3>1
    <3> QED BY <3>1, <3>2, <3>3
  <2> QED BY <2>1, <2>2
<1>5. FrameInv(files, rValues, rReported, frame)
  BY <1>1, <1>3, <1>4 DEF FrameInv
<1> QED BY <1>1, <1>3, <1>5 DEF FrameGood

LEMMA BoundKeeps ==
    ASSUME RecoverInv, R!AtImport, R!Bound(R!NextImport), rTarget \in rValues \cup {Builtin},
           rReturned' = "nothing",
           UNCHANGED <<files, rCancelled, rStatus, rInputs, rValues, rMembers, rReported, rReads>>
    PROVE  RecoverInv'
<1> DEFINE import == R!NextImport
<1>1. /\ R!Top = rTop /\ rTop \in R!Frame /\ rTop.next \in Nat /\ files \in Graphs
      /\ rReported \in BOOLEAN /\ import.target = rTarget /\ rTop.module \in Modules
      /\ FrameInv(files, rValues, rReported, rTop)
      /\ ~rCancelled => FrameGood(files, rValues, rTop)
  BY RImportFacts, RTopFacts, LoaderFacts
<1>2. rTarget \in Met \cup {Builtin, Unresolved}
  BY LoaderFacts DEF Met
<1>3. ASSUME ~Binds(files, import), NEW d \in R!Diagnostics, d # "raises", R!Unbound({d})
      PROVE  RecoverInv'
  <2>1. ~Good(files, rTop.module)
    BY <1>3, RImportFacts
  <2> HIDE DEF import
  <2> QED BY <1>1, <1>2, <1>3, <2>1, ReportKeeps
<1>4. CASE ~Binds(files, import)
  <2>1. R!Unbound({"open"}) \/ R!Unbound({"select"})
    BY <1>1, <1>4, LoaderGraph DEF R!Bound, Binds
  <2> QED BY <1>3, <1>4, <2>1 DEF R!Diagnostics
<1>5. ASSUME Binds(files, import), import.open
      PROVE  RecoverInv'
  <2> DEFINE o == Opened(files, rTop.opened, rTarget)
             frame == Opening(rTop, o)
  <2>1. rStack' = [rStack EXCEPT ![Len(rStack)] = frame]
    BY <1>1, <1>5, LoaderGraph DEF R!Bound, Binds, R!ReplaceTop, Opening
  <2>2. o \in OpenNames
    <3>1. rTop.opened \in OpenNames
      BY <1>1 DEF R!Frame, OpenNames
    <3>2. rTarget \in Sources \cup {Builtin}
      BY RImportFacts, LoaderFacts, TreeFacts DEF Modules
    <3> QED BY <3>1, <3>2 DEF Opened, OpenNames
  <2> HIDE DEF o
  <2>3. /\ frame \in R!Frame /\ frame.module = rTop.module /\ frame.next = rTop.next + 1
        /\ frame.bound = rTop.bound /\ frame.opened = o /\ frame.diagnostics = rTop.diagnostics
    BY <1>1, <2>2, FrameOpens
  <2> HIDE DEF frame
  <2>4. frame.opened = IF import.open THEN Opened(files, rTop.opened, rTarget) ELSE rTop.opened
    BY <1>5, <2>3 DEF o
  <2>5. /\ FrameInv(files, rValues, rReported, frame)
        /\ ~rCancelled => FrameGood(files, rValues, frame)
    BY <1>5, <2>3, <2>4, MoreBound
  <2> QED BY <1>1, <1>2, <2>1, <2>3, <2>5, AdvanceKeeps
<1>6. ASSUME Binds(files, import), ~import.open
      PROVE  RecoverInv'
  <2> DEFINE frame == Binding(rTop, rTop.next)
  <2>1. rStack' = [rStack EXCEPT ![Len(rStack)] = frame]
    BY <1>1, <1>6, LoaderGraph DEF R!Bound, Binds, R!ReplaceTop, Binding
  <2>2. /\ frame \in R!Frame /\ frame.module = rTop.module /\ frame.next = rTop.next + 1
        /\ frame.bound = rTop.bound \cup {rTop.next} /\ frame.opened = rTop.opened
        /\ frame.diagnostics = rTop.diagnostics
    BY <1>1, FrameBinds
  <2> HIDE DEF frame
  <2>3. frame.opened = IF import.open THEN Opened(files, rTop.opened, rTarget) ELSE rTop.opened
    BY <1>6, <2>2
  <2>4. /\ FrameInv(files, rValues, rReported, frame)
        /\ ~rCancelled => FrameGood(files, rValues, frame)
    BY <1>6, <2>2, <2>3, MoreBound
  <2> QED BY <1>1, <1>2, <2>1, <2>2, <2>4, AdvanceKeeps
<1> QED BY <1>4, <1>5, <1>6

LEMMA ImportUnresolvedKeeps == RecoverInv /\ R!ImportUnresolved => RecoverInv'
<1> SUFFICES ASSUME RecoverInv, R!ImportUnresolved PROVE RecoverInv'
  OBVIOUS
<1>1. /\ R!AtImport /\ R!Unbound({"resolve"}) /\ R!NextImport.target = Unresolved
      /\ rReturned' = "nothing"
      /\ UNCHANGED <<files, rCancelled, rStatus, rInputs, rValues, rMembers, rReported, rReads>>
  BY DEF R!ImportUnresolved
<1>2. rTarget = Unresolved /\ rReported \in BOOLEAN
  BY <1>1, RImportFacts, LoaderFacts
<1>3. Unresolved \notin Recoverable(files) \cup {Builtin}
  BY RecoverableRests, LoaderFacts, TreeFacts
<1>4. ~Good(files, rTop.module)
  BY <1>1, <1>2, <1>3, RImportFacts
<1>5. {"resolve"} \in SUBSET R!Diagnostics /\ "raises" \notin {"resolve"}
  BY DEF R!Diagnostics
<1> QED BY <1>1, <1>2, <1>4, <1>5, ReportKeeps

LEMMA ImportBuiltinKeeps == RecoverInv /\ R!ImportBuiltin => RecoverInv'
<1> SUFFICES ASSUME RecoverInv, R!ImportBuiltin PROVE RecoverInv'
  OBVIOUS
<1>1. /\ R!AtImport /\ R!Bound(R!NextImport) /\ R!NextImport.target = Builtin
      /\ rReturned' = "nothing"
      /\ UNCHANGED <<files, rCancelled, rStatus, rInputs, rValues, rMembers, rReported, rReads>>
  BY DEF R!ImportBuiltin
<1> QED BY <1>1, RImportFacts, BoundKeeps

LEMMA BindValueKeeps == RecoverInv /\ R!BindValue => RecoverInv'
<1> SUFFICES ASSUME RecoverInv, R!BindValue PROVE RecoverInv'
  OBVIOUS
<1>1. /\ R!AtImport /\ R!Bound(R!NextImport) /\ rReturned = "value" /\ rReturned' = "nothing"
      /\ UNCHANGED <<files, rCancelled, rStatus, rInputs, rValues, rMembers, rReported, rReads>>
  BY DEF R!BindValue
<1>2. rTarget \in rValues
  BY <1>1, RImportFacts DEF RecoverInv, Arrived
<1> QED BY <1>1, <1>2, BoundKeeps

\* A module that is being loaded, has no value or is on a cycle is not bound.
LEMMA BindNoneKeeps == RecoverInv /\ R!BindNone => RecoverInv'
<1> SUFFICES ASSUME RecoverInv, R!BindNone PROVE RecoverInv'
  OBVIOUS
<1>1. /\ R!AtImport /\ rReturned = "none" /\ rReturned' = "nothing"
      /\ UNCHANGED <<files, rCancelled, rStatus, rInputs, rValues, rMembers, rReads>>
  BY DEF R!BindNone
<1>2. /\ rTarget \in Sources /\ rTarget \in Modules /\ R!NextImport.target = rTarget
      /\ ~rCancelled => \/ rTarget \in DOMAIN rInputs \ rValues
                        \/ rTarget \in rMembers \cap rBusy
  BY <1>1, RImportFacts DEF RecoverInv, Arrived
<1>3. rTarget \in Met \/ rCancelled
  BY <1>2 DEF Met
<1>4. ASSUME ~rCancelled PROVE ~Good(files, rTop.module)
  <2> SUFFICES ASSUME rTarget \in Recoverable(files) PROVE FALSE
    BY <1>1, <1>2, RImportFacts, LoaderFacts, TreeFacts
  <2>1. rTarget \notin rMembers
    BY CyclesNeverEvaluate DEF RecoverInv
  <2>2. rTarget \in DOMAIN rInputs \ rValues
    BY <1>2, <1>4, <2>1
  <2>3. rTarget # Root /\ files[rTarget].fault \in Clear
    BY <1>2, RecoverableRests, LoaderFacts, TreeFacts DEF Accepted, Clear
  <2>4. rTarget \in rValues
    BY <2>2, <2>3 DEF RecoverInv, InputKept, InputGood, Good
  <2> QED BY <2>2, <2>4
<1>5. rReported \in BOOLEAN
  BY LoaderFacts
<1>6. CASE rTarget \in rMembers
  <2> DEFINE d == IF rReported THEN {} ELSE {"cycle"}
  <2>1. R!Unbound(d) /\ rReported' = TRUE
    BY <1>2, <1>6 DEF R!BindNone
  <2>2. /\ d \in SUBSET R!Diagnostics /\ "raises" \notin d /\ (d # {} \/ rReported)
        /\ rReported' # rReported => d # {}
    BY <1>5, <2>1 DEF R!Diagnostics
  <2> HIDE DEF d
  <2> QED BY <1>1, <1>3, <1>4, <2>1, <2>2, ReportKeeps
<1>7. CASE rTarget \notin rMembers
  <2> DEFINE d == {"unavailable"}
  <2>1. R!Unbound(d) /\ rReported' = rReported
    BY <1>2, <1>7 DEF R!BindNone
  <2>2. d \in SUBSET R!Diagnostics /\ "raises" \notin d /\ d # {}
    BY DEF R!Diagnostics
  <2> HIDE DEF d
  <2> QED BY <1>1, <1>3, <1>4, <1>5, <2>1, <2>2, ReportKeeps
<1> QED BY <1>6, <1>7

\* Where a load may be asked for: for the root, or for the import a call is at.
Asked(m) ==
    /\ rReturned = "nothing" /\ m \in Modules /\ m \in Reachable(files)
    /\ rStack = <<>> => m = Root /\ rStatus = "start" /\ ~rCancelled
    /\ rStack # <<>> => /\ R!AtImport /\ m = rTarget /\ m \in Sources
                        /\ m \in ImportsOf(files, rTop.module)

\* Start moves the status, an import does not.
Moves == rStatus' = IF rStack = <<>> THEN "running" ELSE rStatus

LEMMA AskedFacts ==
    ASSUME RecoverInv, NEW m, Asked(m), R!Answer(m) = "nothing"
    PROVE  /\ ~rCancelled /\ m \notin Met /\ m \notin DOMAIN rInputs /\ m \notin rBusy
           /\ rReads[m] = 0 /\ R!Visiting = rBusy
<1>1. R!Visiting = rBusy
  BY DEF R!Visiting, rBusy, ModulesOf
<1>2. ~rCancelled /\ m \notin DOMAIN rInputs \cup rBusy
  BY <1>1, LoaderFacts DEF R!Answer
<1>3. m \notin Met
  BY <1>2 DEF Met
<1>4. rReads[m] = 0
  BY <1>2, <1>3 DEF RecoverInv, AllMet, Asked
<1> QED BY <1>1, <1>2, <1>3, <1>4

\* A module on the stack that the innermost call imports is on a cycle, and so
\* are all those above it.
LEMMA CyclesAreFound ==
    ASSUME RecoverInv, NEW m, Asked(m), m \in rBusy, NEW x \in R!CycleFrom(m)
    PROVE  OnCycle(files, x)
<1>1. /\ rStack # <<>> /\ m \in ImportsOf(files, rTop.module) /\ files \in Graphs
      /\ rStack \in Seq(R!Frame) /\ Path(files, rStack)
  <2>1. rStack # <<>>
    BY DEF rBusy, ModulesOf
  <2> QED BY <2>1, LoaderFacts DEF Asked, RecoverInv
<1> DEFINE n == Len(rStack)
<1>2. n \in Nat /\ DOMAIN rStack = 1..n /\ n \in DOMAIN rStack /\ rTop = rStack[n]
  BY <1>1 DEF rTop
<1>3. PICK i \in DOMAIN rStack :
         x = rStack[i].module /\ \E k \in 1..i : rStack[k].module = m
  BY DEF R!CycleFrom
<1>3a. PICK k \in 1..i : rStack[k].module = m
  BY <1>3
<1> HIDE DEF n
<1>4. k \in DOMAIN rStack /\ k <= i /\ i \in Nat /\ k \in Nat
  BY <1>2, <1>3, <1>3a
\* m leads to x, x to the top, and the top imports m.
<1> DEFINE C == Closure(files, ImportsOf(files, x))
<1>5. rTop.module = x \/ rTop.module \in C
  <2>1. CASE i = n
    BY <1>2, <1>3, <2>1
  <2>2. CASE i # n
    <3>1. i \in 1..n - 1
      BY <1>2, <2>2
    <3> QED BY <1>1, <1>2, <1>3, <3>1 DEF Path
  <2> QED BY <2>1, <2>2
<1>6. m \in C
  <2>1. ImportsOf(files, x) \subseteq C
    BY ClosureHasStart, ImportsAreSources
  <2>2. CASE rTop.module = x
    BY <1>1, <2>1, <2>2
  <2>3. CASE rTop.module \in C
    BY <1>1, <2>3, ClosureFollows
  <2> QED BY <1>5, <2>2, <2>3
<1>7. x = m \/ x \in Closure(files, ImportsOf(files, m))
  <2>1. CASE k = i
    BY <1>3, <1>3a, <2>1
  <2>2. CASE k # i
    <3>1. k \in 1..i - 1
      BY <1>3a, <1>4, <2>2
    <3> QED BY <1>1, <1>3, <1>3a, <3>1 DEF Path
  <2> QED BY <2>1, <2>2
<1>8. Closure(files, ImportsOf(files, m)) \subseteq C
  <2>1. ImportsOf(files, m) \subseteq C
    BY <1>6, ClosureFollows
  <2>2. \A y \in C \cap Modules : ImportsOf(files, y) \subseteq C
    BY ClosureFollows
  <2>3. ImportsOf(files, m) \subseteq Modules
    BY ImportsAreSources
  <2> HIDE DEF C
  <2> QED BY <2>1, <2>2, <2>3, ClosureWithin
<1> QED BY <1>6, <1>7, <1>8 DEF OnCycle

\* A load that is answered at once.
LEMMA AnsweredKeeps ==
    ASSUME RecoverInv, NEW m, Asked(m), R!Answered(m), rStack # <<>>,
           UNCHANGED <<files, rCancelled, rStatus, rReported>>
    PROVE  RecoverInv'
<1>1. /\ R!Answer(m) # "nothing" /\ rReturned' = R!Answer(m)
      /\ UNCHANGED <<rStack, rInputs, rValues, rReads>>
      /\ R!Visiting = rBusy
  BY DEF R!Answered, R!Visiting, rBusy, ModulesOf
<1>2. R!CycleFrom(m) \subseteq Modules
  BY LoaderFacts DEF R!CycleFrom, RecoverInv, Path
<1>3. /\ rMembers \subseteq rMembers' /\ rMembers' \subseteq Modules
      /\ \A x \in rMembers' : OnCycle(files, x)
  <2>1. CASE ~rCancelled /\ m \in rBusy \ (rValues \cup DOMAIN rInputs)
    <3>1. rMembers' = rMembers \cup R!CycleFrom(m)
      BY <1>1, <2>1 DEF R!Answered
    <3> QED BY <1>2, <2>1, <3>1, LoaderFacts, CyclesAreFound DEF RecoverInv
  <2>2. CASE ~(~rCancelled /\ m \in rBusy \ (rValues \cup DOMAIN rInputs))
    <3>1. rMembers' = rMembers
      BY <1>1, <2>2 DEF R!Answered
    <3> QED BY <3>1, LoaderFacts DEF RecoverInv
  <2> QED BY <2>1, <2>2
<1>4. rReturned' \in {"nothing", "value", "none"} /\ rStatus = "running"
  BY <1>1, RImportFacts DEF R!Answer, Asked
<1>5. rTop' = rTop /\ rImports' = rImports /\ rTarget' = rTarget /\ rBusy' = rBusy /\ Met' = Met
  BY <1>1 DEF rTop, rImports, rTarget, rBusy, Met
<1>6. Arrived'
  <2>1. /\ rTop.next <= Len(rImports) /\ rTarget = m /\ rTarget \in Sources
    BY RImportFacts DEF Asked
  <2>2. rReturned' = "value" => m \in rValues
    BY <1>1 DEF R!Answer
  <2>3. ASSUME rReturned' = "none", ~rCancelled
        PROVE  m \in DOMAIN rInputs \ rValues \/ m \in rMembers' \cap rBusy
    <3>1. m \notin rValues /\ m \in DOMAIN rInputs \cup rBusy
      BY <1>1, <2>3 DEF R!Answer
    <3>2. CASE m \in DOMAIN rInputs
      BY <3>1, <3>2
    <3>3. CASE m \in rBusy \ (rValues \cup DOMAIN rInputs)
      <4>1. rMembers' = rMembers \cup R!CycleFrom(m)
        BY <1>1, <2>3, <3>3 DEF R!Answered
      <4>2. PICK i \in DOMAIN rStack : rStack[i].module = m
        BY <3>3 DEF rBusy, ModulesOf
      <4>3. i \in 1..i
        <5>1. i \in 1..Len(rStack) /\ Len(rStack) \in Nat
          BY <4>2, LoaderFacts
        <5> QED BY <5>1
      <4>4. m \in R!CycleFrom(m)
        BY <4>2, <4>3 DEF R!CycleFrom
      <4> QED BY <3>3, <4>1, <4>4
    <3> QED BY <3>1, <3>2, <3>3
  <2> QED BY <1>1, <1>5, <2>1, <2>2, <2>3 DEF Arrived
<1>7. R!TypeOK'
  BY <1>1, <1>3, <1>4, LoaderFacts, LoaderGraph DEF RecoverInv, R!TypeOK, R!Frame, R!Inputs
<1>8. (AllMet => AllMet') /\ (CleanIsRight => CleanIsRight')
  BY <1>1, <1>5 DEF AllMet, CleanIsRight, Clean
<1> QED BY <1>1, <1>3, <1>4, <1>5, <1>6, <1>7, <1>8 DEF RecoverInv

LEMMA InputAdded ==
    ASSUME NEW m, NEW input, rInputs' = R!WithInput(m, input), m \notin DOMAIN rInputs
    PROVE  /\ DOMAIN rInputs' = DOMAIN rInputs \cup {m} /\ rInputs'[m] = input
           /\ \A x \in DOMAIN rInputs : rInputs'[x] = rInputs[x]
BY DEF R!WithInput

LEMMA ReadOnce ==
    ASSUME NEW met, NEW m \in Modules, m \notin met, NEW reads, NEW after,
           reads = [x \in Modules |-> IF x \in met THEN 1 ELSE 0],
           after = [reads EXCEPT ![m] = @ + 1]
    PROVE  /\ after = [x \in Modules |-> IF x \in met \cup {m} THEN 1 ELSE 0]
           /\ after \in [Modules -> Nat] /\ \A x \in Modules : after[x] <= 1
OBVIOUS

\* A file that cannot be read, or data: an input, and perhaps a value.
LEMMA ReadKeeps ==
    ASSUME RecoverInv, NEW m, Asked(m), R!Answer(m) = "nothing", NEW input \in R!Inputs,
           rInputs' = R!WithInput(m, input), input.targets = {}, ImportsOf(files, m) = {},
           m = Root => input.diagnostics = {},
           \/ rValues' = rValues /\ rReturned' = "none" /\ ~Good(files, m)
           \/ /\ rValues' = rValues \cup {m} /\ rReturned' = "value"
              /\ files[m].imports = <<>> /\ m \in Recoverable(files) /\ input.diagnostics = {}
              /\ files[m].fault = "none",
           rReads' = [rReads EXCEPT ![m] = @ + 1], Moves,
           UNCHANGED <<files, rCancelled, rReported, rStack, rMembers>>
    PROVE  RecoverInv'
<1>1. /\ ~rCancelled /\ m \notin Met /\ m \notin DOMAIN rInputs /\ m \notin rBusy
      /\ rReads[m] = 0 /\ m \in Modules /\ m \in Reachable(files) /\ files \in Graphs
  BY AskedFacts, LoaderFacts DEF Asked
<1>2. /\ DOMAIN rInputs' = DOMAIN rInputs \cup {m} /\ rInputs'[m] = input
      /\ \A x \in DOMAIN rInputs : rInputs'[x] = rInputs[x]
  BY <1>1, InputAdded
<1>3. /\ rTop' = rTop /\ rImports' = rImports /\ rTarget' = rTarget /\ rBusy' = rBusy
      /\ Met' = Met \cup {m}
  BY <1>2 DEF rTop, rImports, rTarget, rBusy, Met
<1>4. rStatus' = "running" /\ (rStack = <<>> => m = Root)
  BY RImportFacts DEF Moves, Asked
<1>5. /\ rValues \subseteq rValues' /\ rValues' \subseteq DOMAIN rInputs'
      /\ rReturned' \in {"value", "none"}
  BY <1>2, LoaderFacts
<1>6. /\ rReads' = [x \in Modules |-> IF x \in Met' THEN 1 ELSE 0]
      /\ rReads' \in [Modules -> Nat] /\ \A x \in Modules : rReads'[x] <= 1
  <2>1. rReads = [x \in Modules |-> IF x \in Met THEN 1 ELSE 0]
    BY <1>1 DEF RecoverInv, AllMet
  <2>2. Met' = Met \cup {m} /\ m \in Modules /\ m \notin Met
    BY <1>1, <1>3
  <2> QED BY ONLY <2>1, <2>2, rReads' = [rReads EXCEPT ![m] = @ + 1], ReadOnce
<1>7. R!TypeOK'
  BY <1>1, <1>2, <1>4, <1>5, <1>6, LoaderFacts, LoaderGraph DEF R!TypeOK, R!Frame, R!Inputs
<1>8. Arrived'
  <2> SUFFICES ASSUME rStack # <<>>
               PROVE  /\ rTop.next <= Len(rImports) /\ rTarget \in Sources /\ rTarget = m
                      /\ rReturned' = "value" => m \in rValues'
                      /\ rReturned' = "none" => m \notin rValues'
    BY <1>2, <1>3 DEF Arrived
  <2> QED BY <1>1, RImportFacts, LoaderFacts DEF Asked
<1>9. /\ InputKept(files, rValues', m, input)
      /\ \A x \in DOMAIN rInputs : InputKept(files, rValues', x, rInputs[x])
  <2>1. InputKept(files, rValues', m, input)
    BY DEF InputKept, InputGood
  <2> QED BY <1>5, <2>1, InputStays DEF RecoverInv
<1>10. ValuesRest(files, rValues')
  <2>1. ValuesRest(files, rValues)
    BY DEF RecoverInv
  <2>2. CASE files[m].imports = <<>>
    <3>1. DOMAIN files[m].imports = {}
      BY <2>2
    <3>2. \A x : HeldBy(files, rValues, x) \subseteq HeldBy(files, rValues', x)
      BY <1>5 DEF HeldBy
    <3>3. \A x, k : BindsName(files, x, HeldBy(files, rValues, x), k) =>
                        BindsName(files, x, HeldBy(files, rValues', x), k)
      BY <3>2 DEF BindsName
    <3>4. rValues' \subseteq rValues \cup {m}
      OBVIOUS
    <3> QED BY <2>1, <3>1, <3>3, <3>4 DEF ValuesRest
  <2> QED BY <2>1, <2>2
<1>11. \A i \in DOMAIN rStack : /\ FrameInv(files, rValues', rReported, rStack[i])
                                /\ FrameGood(files, rValues', rStack[i])
                                /\ FrameMet(files, Met', rStack[i])
  <2> TAKE i \in DOMAIN rStack
  <2>1. /\ FrameInv(files, rValues, rReported, rStack[i]) /\ FrameGood(files, rValues, rStack[i])
        /\ FrameMet(files, Met, rStack[i]) /\ rReported \in BOOLEAN
    BY <1>1, LoaderFacts DEF RecoverInv
  <2>2. FrameInv(files, rValues', rReported, rStack[i])
    BY <1>5, <2>1, FrameKept
  <2>3. FrameGood(files, rValues', rStack[i])
    BY <1>5, <2>1, FrameKept
  <2>4. FrameMet(files, Met', rStack[i])
    BY <1>3, <2>1, MetKept
  <2> QED BY <2>2, <2>3, <2>4
<1>12. AllMet'
  <2>1. DOMAIN rInputs' \cap rBusy' = {}
    BY <1>1, <1>2, <1>3 DEF RecoverInv, AllMet
  <2>2. \A x \in DOMAIN rInputs' : ImportsOf(files, x) \subseteq Met'
    BY <1>1, <1>2, <1>3 DEF RecoverInv, AllMet
  <2>3. Root \in Met'
    <3>1. CASE rStack = <<>>
      BY <1>3, <1>4, <3>1
    <3>2. CASE rStack # <<>>
      BY <1>1, <1>3, <3>2, RTopFacts DEF RecoverInv, AllMet
    <3> QED BY <3>1, <3>2
  <2> QED BY <1>6, <2>1, <2>2, <2>3 DEF AllMet
<1>13. CleanIsRight'
  <2> SUFFICES ASSUME Clean'
               PROVE  /\ ~rReported /\ rValues' \subseteq Recoverable(files)
                      /\ (Root \in DOMAIN rInputs' /\ rInputs'[Root].diagnostics # {}) =>
                             Recovers(files, Root)
    BY DEF CleanIsRight
  <2>1. Clean
    BY <1>2 DEF Clean
  <2>2. CleanIsRight
    BY <1>1 DEF RecoverInv
  <2> QED BY <1>2, <2>1, <2>2 DEF CleanIsRight
<1>14. /\ \A x \in rMembers' : OnCycle(files, x)
       /\ Met' \subseteq Reachable(files)
       /\ \A x \in Modules : rReads'[x] <= 1
  BY <1>1, <1>3, <1>6 DEF RecoverInv
<1>15. Path(files, rStack) /\ Chain(files, rStack)
  BY DEF RecoverInv
<1> QED BY <1>1, <1>2, <1>4, <1>7, <1>8, <1>9, <1>10, <1>11, <1>12, <1>13, <1>14, <1>15
        DEF RecoverInv

LEMMA UnreadableKeeps ==
    ASSUME RecoverInv, NEW m, Asked(m), R!LoadUnreadable(m), Moves,
           UNCHANGED <<files, rCancelled, rReported>>
    PROVE  RecoverInv'
<1>1. ImportsOf(files, m) = {} /\ ~Good(files, m)
  <2>1. files[m].fault = "unreadable" /\ ImportsOf(files, m) = {}
    BY DEF R!LoadUnreadable, ImportsOf
  <2>2. m \notin Recoverable(files)
    BY <2>1, RecoverableRests DEF Accepted
  <2>3. ~Recovers(files, Root) \/ m # Root
    BY <2>1 DEF Recovers, OnlyRuns, Clear
  <2> QED BY <2>1, <2>2, <2>3 DEF Good
<1> DEFINE input == R!Input("Unavailable", {}, {})
<1>2. input \in R!Inputs /\ input.targets = {} /\ input.diagnostics = {}
  BY DEF R!Input, R!Inputs, R!States
<1>3. rInputs' = R!WithInput(m, input)
  BY DEF R!LoadUnreadable
<1> HIDE DEF input
<1> QED BY <1>1, <1>2, <1>3, ReadKeeps DEF R!LoadUnreadable

LEMMA StaticDataKeeps ==
    ASSUME RecoverInv, NEW m, Asked(m), R!LoadStaticData(m), Moves,
           UNCHANGED <<files, rCancelled, rReported>>
    PROVE  RecoverInv'
<1>1. /\ files \in Graphs /\ m \in Modules /\ R!Answer(m) = "nothing"
      /\ files[m].kind # "telora" /\ files[m].fault # "unreadable"
      /\ UNCHANGED <<rStack, rMembers>> /\ rReads' = [rReads EXCEPT ![m] = @ + 1]
  BY LoaderFacts DEF Asked, R!LoadStaticData
<1>2. /\ ImportsOf(files, m) = {} /\ m # Root /\ files[m].imports = <<>>
      /\ files[m].fault = "none" => m \in Recoverable(files)
      /\ files[m].fault # "none" => ~Good(files, m)
  <2>1. m # Root /\ files[m].imports = <<>> /\ ImportsOf(files, m) = {}
    BY <1>1, TreeFacts DEF ImportsOf
  <2>2. files[m].fault = "none" => m \in Recoverable(files)
    BY <1>1, RecoversEvaluates DEF Clear
  <2>3. files[m].fault # "none" => ~Good(files, m)
    BY <1>1, <2>1, RecoverableRests, TreeFacts DEF Good, Accepted
  <2> QED BY <2>1, <2>2, <2>3
<1>3. CASE files[m].fault = "none"
  <2> DEFINE input == R!Input("Known", {}, {})
  <2>1. input \in R!Inputs /\ input.targets = {} /\ input.diagnostics = {}
    BY DEF R!Input, R!Inputs, R!States
  <2>2. /\ rInputs' = R!WithInput(m, input) /\ rValues' = rValues \cup {m}
        /\ rReturned' = "value"
    BY <1>3 DEF R!LoadStaticData
  <2> HIDE DEF input
  <2> QED BY <1>1, <1>2, <1>3, <2>1, <2>2, ReadKeeps
<1>4. CASE files[m].fault # "none"
  <2> DEFINE input == R!Input("Unavailable", {}, {"unparsed"})
  <2>1. input \in R!Inputs /\ input.targets = {}
    BY DEF R!Input, R!Inputs, R!States, R!Diagnostics
  <2>2. /\ rInputs' = R!WithInput(m, input) /\ rValues' = rValues
        /\ rReturned' = "none"
    BY <1>4 DEF R!LoadStaticData
  <2> HIDE DEF input
  <2> QED BY <1>1, <1>2, <1>4, <2>1, <2>2, ReadKeeps
<1> QED BY <1>3, <1>4

\* A new call: its module was not met before, so the path grows by one.
LEMMA LoaderEnters ==
    ASSUME RecoverInv, NEW m, Asked(m), R!EnterTelora(m), Moves,
           UNCHANGED <<files, rCancelled, rReported>>
    PROVE  RecoverInv'
<1> DEFINE frame == R!NewFrame(m)
<1>1. /\ R!Answer(m) = "nothing" /\ files[m].kind = "telora" /\ files[m].fault # "unreadable"
      /\ rStack' = Append(rStack, frame) /\ rReads' = [rReads EXCEPT ![m] = @ + 1]
      /\ rReturned' = "nothing" /\ UNCHANGED <<rInputs, rValues, rMembers>>
  BY DEF R!EnterTelora, Asked
<1>2. /\ ~rCancelled /\ m \notin Met /\ m \notin DOMAIN rInputs /\ m \notin rBusy
      /\ m \in Modules /\ m \in Reachable(files) /\ files \in Graphs
      /\ rStack \in Seq(R!Frame)
  BY <1>1, AskedFacts, LoaderFacts DEF Asked
<1>3. /\ frame.module = m /\ frame.next = 1 /\ frame.bound = {}
      /\ frame.opened = [n \in Names |-> {}]
      /\ frame.diagnostics = {x \in {"option", "native", "silent", "unparsed"} :
                                 files[m].fault = x}
      /\ frame \in R!Frame
  BY <1>2, LoaderGraph DEF R!NewFrame, R!Frame, R!Diagnostics
<1> HIDE DEF frame
<1>4. /\ rStack' \in Seq(R!Frame) /\ rStack' # <<>>
      /\ Len(rStack) \in Nat /\ Len(rStack') = Len(rStack) + 1
      /\ DOMAIN rStack = 1..Len(rStack)
      /\ DOMAIN rStack' = (1..Len(rStack)) \cup {Len(rStack')}
      /\ \A i \in 1..Len(rStack) : rStack'[i] = rStack[i]
      /\ rStack'[Len(rStack')] = frame /\ Len(rStack') \notin 1..Len(rStack)
  BY <1>1, <1>2, <1>3, Appended
<1>5. rBusy' = rBusy \cup {m} /\ Met' = Met \cup {m}
  <2>1. ModulesOf(Append(rStack, frame)) = ModulesOf(rStack) \cup {frame.module}
    BY <1>2, <1>3, ModulesGrow
  <2>2. rBusy' = ModulesOf(rStack')
    BY DEF rBusy
  <2>3. rBusy' = rBusy \cup {m}
    BY <1>1, <1>3, <2>1, <2>2 DEF rBusy
  <2> QED BY <1>1, <2>3 DEF Met
<1>6. rStatus' = "running" /\ (rStack = <<>> => m = Root)
  BY RImportFacts DEF Moves, Asked
<1>7. Path(files, rStack') /\ Chain(files, rStack')
  <2>1. Path(files, rStack) /\ Chain(files, rStack)
    BY DEF RecoverInv
  <2>2. CASE rStack = <<>>
    <3>1. m = Root /\ rStack' = <<frame>>
      BY <1>1, <1>6, <2>2
    <3>2. Path(files, <<frame>>)
      BY <1>1, <1>2, <1>3, <3>1, PathStarts
    <3>3. Chain(files, <<frame>>)
      <4>1. \A i \in DOMAIN <<frame>> : ~(i > 1)
        OBVIOUS
      <4> QED BY <4>1 DEF Chain
    <3> QED BY <3>1, <3>2, <3>3
  <2>3. CASE rStack # <<>>
    <3>1. /\ m \in ImportsOf(files, rStack[Len(rStack)].module) /\ m \in Sources
          /\ rTop.next <= Len(rImports) /\ rTarget = m /\ rTop = rStack[Len(rStack)]
      BY <2>3, RImportFacts, RTopFacts DEF Asked
    <3>2. Path(files, Append(rStack, frame))
      <4>1. /\ frame.module \in ImportsOf(files, rStack[Len(rStack)].module)
            /\ frame.module \notin ModulesOf(rStack)
        BY <1>2, <1>3, <3>1 DEF rBusy
      <4> QED BY <1>1, <1>2, <1>3, <2>1, <2>3, <4>1, PathGrows
    <3>3. Chain(files, rStack')
      <4>1. ASSUME NEW i \in DOMAIN rStack', i > 1
            PROVE  LET below == rStack'[i - 1] IN
                   /\ below.next <= Len(files[below.module].imports)
                   /\ files[below.module].imports[below.next].target = rStack'[i].module
                   /\ rStack'[i].module \in Sources
        <5>1. CASE i \in 1..Len(rStack)
          <6>1. i - 1 \in 1..Len(rStack)
            BY <1>4, <4>1, <5>1
          <6> QED BY <1>4, <2>1, <4>1, <5>1, <6>1 DEF Chain
        <5>2. CASE i = Len(rStack')
          <6>1. i - 1 = Len(rStack) /\ i - 1 \in 1..Len(rStack)
            BY <1>4, <4>1, <5>2
          <6>2. rStack'[i - 1] = rTop /\ rStack'[i].module = m
            BY <1>3, <1>4, <3>1, <5>2, <6>1
          <6> QED BY <3>1, <6>2 DEF rImports, rTarget
        <5> QED BY <1>4, <4>1, <5>1, <5>2
      <4> QED BY <4>1 DEF Chain
    <3> QED BY <1>1, <3>2, <3>3
  <2> QED BY <2>2, <2>3
<1>8. /\ rReads' = [x \in Modules |-> IF x \in Met' THEN 1 ELSE 0]
      /\ rReads' \in [Modules -> Nat] /\ \A x \in Modules : rReads'[x] <= 1
  <2>1. rReads = [x \in Modules |-> IF x \in Met THEN 1 ELSE 0]
    BY <1>2 DEF RecoverInv, AllMet
  <2>2. Met' = Met \cup {m} /\ m \in Modules /\ m \notin Met
    BY <1>2, <1>5
  <2>3. rReads' = [rReads EXCEPT ![m] = @ + 1]
    BY <1>1
  <2> QED BY ONLY <2>1, <2>2, <2>3, ReadOnce
<1>9. R!TypeOK'
  BY <1>1, <1>2, <1>4, <1>6, <1>8, LoaderFacts, LoaderGraph
     DEF RecoverInv, R!TypeOK, R!Frame, R!Inputs
<1>10. /\ FrameInv(files, rValues, rReported, frame) /\ FrameMet(files, Met', frame)
       /\ FrameGood(files, rValues, frame)
  <2>1. 1..frame.next - 1 = {}
    BY <1>3
  <2>2. frame.opened = OpenedBefore(files, frame.module, frame.next)
    BY <1>3, OpenedFirst
  <2>3. frame.diagnostics = {} => FrameDone(files, rValues, frame)
    <3>1. frame.diagnostics = {} => files[m].fault \notin {"option", "native", "silent", "unparsed"}
      BY <1>3
    <3> QED BY <1>3, <2>1, <2>2, <3>1 DEF FrameDone
  <2>4. Good(files, m) => frame.diagnostics = {}
    <3> SUFFICES ASSUME Good(files, m) PROVE frame.diagnostics = {}
      OBVIOUS
    <3>1. Recovers(files, m)
      BY <1>1, <1>2, GoodCompiles
    <3> QED BY <1>3, <3>1 DEF Recovers, OnlyRuns, Clear
  <2>5. FrameInv(files, rValues, rReported, frame)
    BY <1>3, <2>3 DEF FrameInv
  <2> QED BY <1>3, <2>1, <2>3, <2>4, <2>5 DEF FrameMet, FrameGood
<1>11. \A i \in DOMAIN rStack' : /\ FrameInv(files, rValues, rReported, rStack'[i])
                                 /\ FrameMet(files, Met', rStack'[i])
                                 /\ FrameGood(files, rValues, rStack'[i])
  <2>1. \A i \in DOMAIN rStack : /\ FrameInv(files, rValues, rReported, rStack[i])
                                 /\ FrameMet(files, Met, rStack[i])
                                 /\ FrameGood(files, rValues, rStack[i])
    BY <1>2 DEF RecoverInv
  <2>2. \A i \in DOMAIN rStack : FrameMet(files, Met', rStack[i])
    BY <1>5, <2>1, MetKept
  <2> QED BY <1>4, <1>10, <2>1, <2>2
<1>12. AllMet'
  <2>1. AllMet
    BY <1>2 DEF RecoverInv
  <2>2. Root \in Met'
    <3>1. rStack # <<>> => rStatus # "start"
      BY RTopFacts
    <3> QED BY <1>5, <1>6, <2>1, <3>1 DEF AllMet
  <2>3. /\ DOMAIN rInputs' \cap rBusy' = {}
        /\ \A x \in DOMAIN rInputs' : ImportsOf(files, x) \subseteq Met'
    BY <1>1, <1>2, <1>5, <2>1 DEF AllMet
  <2> QED BY <1>8, <2>2, <2>3 DEF AllMet
<1>13. CleanIsRight'
  <2>1. Clean' => Clean
    BY <1>1, <1>4 DEF Clean
  <2>2. CleanIsRight
    BY <1>2 DEF RecoverInv
  <2> QED BY <1>1, <2>1, <2>2 DEF CleanIsRight
<1>14. Met' \subseteq Reachable(files) /\ Arrived'
  BY <1>1, <1>2, <1>5 DEF RecoverInv, Arrived
<1> QED BY <1>1, <1>2, <1>6, <1>7, <1>8, <1>9, <1>11, <1>12, <1>13, <1>14 DEF RecoverInv

LEMMA RootIsOnNoCycle == ASSUME NEW f \in Graphs PROVE ~OnCycle(f, Root)
<1>1. Closure(f, ImportsOf(f, Root)) \subseteq Sources
  BY ClosureWithin, ImportsAreSources
<1> QED BY <1>1, TreeFacts DEF OnCycle

\* A call returns to the one that imports its module.
LEMMA CallReturns ==
    ASSUME RecoverInv, rStack # <<>>, rStack' = SubSeq(rStack, 1, Len(rStack) - 1),
           files' = files
    PROVE  /\ rStack' \in Seq(R!Frame) /\ Path(files, rStack') /\ Chain(files, rStack')
           /\ rBusy = rBusy' \cup {rTop.module} /\ rTop.module \notin rBusy'
           /\ Shorter(rStack, rStack')
           /\ rStack' # <<>> => /\ rTop'.next <= Len(rImports') /\ rTarget' = rTop.module
                                /\ rTop.module \in Sources
<1>1. /\ rStack \in Seq(R!Frame) /\ files \in Graphs /\ Path(files, rStack)
      /\ Chain(files, rStack) /\ rTop = rStack[Len(rStack)]
  BY LoaderFacts, RTopFacts DEF RecoverInv
<1>2. rStack' \in Seq(R!Frame) /\ Shorter(rStack, rStack')
  BY <1>1, Popped
<1>3. /\ Path(files, rStack')
      /\ ModulesOf(rStack) = ModulesOf(rStack') \cup {rTop.module}
      /\ rTop.module \notin ModulesOf(rStack')
  BY <1>1, PathShrinks
<1>4. rBusy = rBusy' \cup {rTop.module} /\ rTop.module \notin rBusy'
  BY <1>3 DEF rBusy
<1>5. Chain(files, rStack')
  <2>1. \A i \in DOMAIN rStack' : i > 1 => i - 1 \in DOMAIN rStack'
    <3>1. DOMAIN rStack' = 1..Len(rStack') /\ Len(rStack') \in Nat
      BY <1>2 DEF Shorter
    <3> QED BY ONLY <3>1
  <2>2. \A i \in DOMAIN rStack' : i \in DOMAIN rStack /\ rStack'[i] = rStack[i]
    BY <1>2 DEF Shorter
  <2> QED BY <1>1, <2>1, <2>2 DEF Chain
<1>6. ASSUME rStack' # <<>>
      PROVE  /\ rTop'.next <= Len(rImports') /\ rTarget' = rTop.module
             /\ rTop.module \in Sources
  <2> DEFINE n == Len(rStack)
  <2>1. n \in DOMAIN rStack /\ n > 1 /\ n - 1 = Len(rStack') /\ n - 1 \in 1..Len(rStack')
    <3>1. n # 1 /\ n \in Nat /\ Len(rStack') = n - 1 /\ Len(rStack') \in Nat /\ n \in DOMAIN rStack
      BY <1>2, <1>6 DEF Shorter
    <3> QED BY <3>1
  <2>2. rTop' = rStack[n - 1]
    <3>1. rTop' = rStack'[Len(rStack')]
      BY DEF rTop
    <3> QED BY <1>2, <2>1, <3>1 DEF Shorter
  <2> HIDE DEF n
  <2>3. LET below == rStack[n - 1] IN
        /\ below.next <= Len(files[below.module].imports)
        /\ files[below.module].imports[below.next].target = rStack[n].module
        /\ rStack[n].module \in Sources
    BY <1>1, <2>1 DEF Chain
  <2> QED BY <1>1, <2>2, <2>3 DEF rImports, rTarget, n
<1> QED BY <1>2, <1>3, <1>4, <1>5, <1>6

\* What the analysis of a module sees when every import of it arrived.
LEMMA AllArrived ==
    ASSUME RecoverInv, rStack # <<>>, rTop.next > Len(rImports)
    PROVE  /\ 1..rTop.next - 1 = DOMAIN rImports
           /\ FrameDone(files, rValues, rTop) =>
                 /\ R!WithPrelude(rTop.opened) = AllOpen(files, rTop.module)
                 /\ \A k \in DOMAIN rImports :
                       /\ rImports[k].target \in rValues \cup {Builtin}
                       /\ Binds(files, rImports[k])
                 /\ R!Analyses(files, rTop.module, rTop.bound, R!WithPrelude(rTop.opened))
                       = Analyses(files, rTop.module, DOMAIN rImports,
                                  AllOpen(files, rTop.module))
<1> DEFINE n == rTop.next
           m == rTop.module
<1>1. /\ n = Len(rImports) + 1 /\ 1..n - 1 = DOMAIN rImports /\ files \in Graphs
      /\ m \in Modules
  <2>1. /\ n \in 1..Len(rImports) + 1 /\ Len(rImports) \in Nat /\ n > Len(rImports)
        /\ DOMAIN rImports = 1..Len(rImports)
    BY RTopFacts
  <2> HIDE DEF n
  <2>2. n = Len(rImports) + 1 /\ 1..n - 1 = DOMAIN rImports
    BY <2>1
  <2> QED BY <2>2, RTopFacts, LoaderFacts
<1>2. ASSUME FrameDone(files, rValues, rTop)
      PROVE  /\ R!WithPrelude(rTop.opened) = AllOpen(files, m)
             /\ \A k \in DOMAIN rImports :
                   /\ rImports[k].target \in rValues \cup {Builtin}
                   /\ Binds(files, rImports[k])
                   /\ rImports[k].open \/ k \in rTop.bound
  <2>1. rTop.opened = OpenedBefore(files, m, Len(rImports) + 1)
    BY <1>1, <1>2 DEF FrameDone
  <2>2. R!WithPrelude(rTop.opened) = [x \in Names |-> rTop.opened[x] \cup OnlyPrelude[x]]
    BY LoaderGraph DEF R!WithPrelude
  <2>3. R!WithPrelude(rTop.opened) = AllOpen(files, m)
    BY <1>1, <2>1, <2>2, OpenedAll DEF rImports
  <2> QED BY <1>1, <1>2, <2>3 DEF FrameDone, rImports
<1>3. ASSUME FrameDone(files, rValues, rTop)
      PROVE  R!Analyses(files, m, rTop.bound, R!WithPrelude(rTop.opened))
                = Analyses(files, m, DOMAIN rImports, AllOpen(files, m))
  <2>1. R!Analyses(files, m, rTop.bound, R!WithPrelude(rTop.opened))
           = Analyses(files, m, rTop.bound, AllOpen(files, m))
    BY <1>2, <1>3, LoaderGraph
  <2>2. /\ \A k \in DOMAIN files[m].imports : files[m].imports[k].open \/ k \in rTop.bound
        /\ \A k \in DOMAIN files[m].imports :
              files[m].imports[k].open \/ k \in DOMAIN rImports
    BY <1>2, <1>3 DEF rImports
  <2>3. Analyses(files, m, rTop.bound, AllOpen(files, m))
           = Analyses(files, m, DOMAIN rImports, AllOpen(files, m))
    BY <2>2 DEF Analyses, BindsName
  <2> QED BY <2>1, <2>3
<1> QED BY <1>1, <1>2, <1>3

\* A good module evaluates, and says nothing but that the root's run failed.
LEMMA GoodEvaluates ==
    ASSUME RecoverInv, rStack # <<>>, rTop.next > Len(rImports), ~rCancelled,
           Good(files, rTop.module)
    PROVE  /\ files[rTop.module].fault \in Clear =>
                 R!Evaluates(rTop) /\ R!LastDiagnostics(rTop) = {}
           /\ files[rTop.module].fault = "raises" => R!LastDiagnostics(rTop) = {"raises"}
<1> DEFINE m == rTop.module
<1>1. /\ files \in Graphs /\ m \in Modules /\ rTop.diagnostics = {}
      /\ FrameDone(files, rValues, rTop) /\ Recovers(files, m)
  BY RTopFacts, LoaderFacts, GoodCompiles DEF FrameGood
<1>2. m \notin rMembers
  <2>1. ~OnCycle(files, m)
    BY <1>1, RootIsOnNoCycle, CyclesNeverEvaluate DEF Good
  <2> QED BY <2>1 DEF RecoverInv
<1>3. /\ R!WithPrelude(rTop.opened) = AllOpen(files, m)
      /\ R!Analyses(files, m, rTop.bound, R!WithPrelude(rTop.opened))
  BY <1>1, AllArrived DEF Recovers, CompilesOver, rImports
<1>4. /\ files[m].fault \in Clear \cup {"raises", "halts"}
      /\ files[m].uses \cap Ambiguous(files, m, AllOpen(files, m)) = {}
  BY <1>1 DEF Recovers, CompilesOver, OnlyRuns
<1>5. R!Tried(m)
  BY <1>2, <1>4 DEF R!Tried, Clear
<1>6. R!LastDiagnostics(rTop) = IF files[m].fault = "raises" THEN {"raises"} ELSE {}
  BY <1>1, <1>3, <1>4, <1>5, LoaderGraph DEF R!LastDiagnostics
<1>7. R!Evaluates(rTop) <=> files[m].fault \in Clear
  BY <1>3, <1>5 DEF R!Evaluates, Clear
<1> QED BY <1>6, <1>7 DEF Clear

\* As long as nothing is reported, a module that passes its analysis compiles.
LEMMA CleanCompiles ==
    ASSUME RecoverInv, rStack # <<>>, rTop.next > Len(rImports),
           rTop.diagnostics = {}, ~rReported, rValues \subseteq Recoverable(files),
           "ambiguous" \notin R!LastDiagnostics(rTop),
           R!Analyses(files, rTop.module, rTop.bound, R!WithPrelude(rTop.opened)),
           files[rTop.module].fault \in Clear
              \/ (rTop.module = Root /\ files[rTop.module].fault = "raises")
    PROVE  Recovers(files, rTop.module)
<1> DEFINE m == rTop.module
<1>1. FrameDone(files, rValues, rTop)
  BY RTopFacts DEF FrameInv
<1>2. /\ R!WithPrelude(rTop.opened) = AllOpen(files, m)
      /\ \A k \in DOMAIN rImports :
            rImports[k].target \in rValues \cup {Builtin} /\ Binds(files, rImports[k])
      /\ Analyses(files, m, DOMAIN rImports, AllOpen(files, m))
  BY <1>1, AllArrived
<1>3. files[m].uses \cap Ambiguous(files, m, AllOpen(files, m)) = {}
  BY <1>2, LoaderGraph DEF R!LastDiagnostics
<1>4. CompilesOver(files, m, Recoverable(files))
  BY <1>2, <1>3 DEF CompilesOver, rImports
<1> QED BY <1>4 DEF Recovers, OnlyRuns

\* The end of a call whose module becomes part of the snapshot.
LEMMA FinishedKeeps ==
    ASSUME RecoverInv, rStack # <<>>, rTop.next > Len(rImports), rStatus = "running",
           ~rCancelled, rStack' = SubSeq(rStack, 1, Len(rStack) - 1),
           NEW input \in R!Inputs, rInputs' = R!WithInput(rTop.module, input),
           input.targets = R!Targets(rTop.module),
           NEW found \in SUBSET {"ill"},
           found # {} => files[rTop.module].fault \in {"ill", "nested"},
           input.diagnostics = R!LastDiagnostics(rTop) \cup found,
           IF R!Evaluates(rTop)
           THEN rValues' = rValues \cup {rTop.module} /\ rReturned' = "value"
           ELSE rValues' = rValues /\ rReturned' = "none",
           UNCHANGED <<files, rCancelled, rStatus, rMembers, rReported, rReads>>
    PROVE  RecoverInv'
<1> DEFINE m == rTop.module
<1>1. /\ files \in Graphs /\ m \in Modules /\ m \in rBusy /\ files[m].kind = "telora"
      /\ rReported \in BOOLEAN /\ m \notin DOMAIN rInputs /\ m \notin rValues
      /\ AllMet /\ CleanIsRight /\ DOMAIN rInputs \subseteq Modules
  BY LoaderFacts, RTopFacts DEF RecoverInv, AllMet
<1>2. /\ rStack' \in Seq(R!Frame) /\ Path(files, rStack') /\ Chain(files, rStack')
      /\ rBusy = rBusy' \cup {m} /\ m \notin rBusy' /\ Shorter(rStack, rStack')
      /\ rStack' # <<>> => rTop'.next <= Len(rImports') /\ rTarget' = m /\ m \in Sources
  BY CallReturns
<1>3. /\ DOMAIN rInputs' = DOMAIN rInputs \cup {m} /\ rInputs'[m] = input
      /\ \A x \in DOMAIN rInputs : rInputs'[x] = rInputs[x]
  BY <1>1, InputAdded
<1>4. Met' = Met
  BY <1>2, <1>3 DEF Met
<1>5. /\ rValues \subseteq rValues' /\ rValues' \subseteq DOMAIN rInputs'
      /\ rReturned' \in {"value", "none"}
      /\ rReturned' = "value" => m \in rValues'
      /\ rReturned' = "none" => m \notin rValues'
  BY <1>1, <1>3, LoaderFacts
<1>6. R!TypeOK'
  BY <1>1, <1>2, <1>3, <1>5, LoaderFacts, LoaderGraph
     DEF RecoverInv, R!TypeOK, R!Frame, R!Inputs
<1>7. Arrived'
  BY <1>2, <1>3, <1>5 DEF Arrived
<1>8. /\ InputKept(files, rValues', m, input)
      /\ \A x \in DOMAIN rInputs : InputKept(files, rValues', x, rInputs[x])
  <2>1. input.targets \cap Sources \subseteq ImportsOf(files, m)
    BY <1>1, RTopFacts DEF R!Targets, ImportsOf
  <2>2. InputGood(files, rValues', m, input)
    <3>1. files[m].fault \in Clear \cup {"raises"} => found = {}
      BY DEF Clear
    <3> QED BY <1>1, <3>1, GoodEvaluates DEF InputGood
  <2> QED BY <1>5, <2>1, <2>2, InputStays DEF RecoverInv, InputKept
<1>9. ValuesRest(files, rValues')
  <2>1. ValuesRest(files, rValues)
    BY DEF RecoverInv
  <2>2. CASE R!Evaluates(rTop)
    <3>1. \A k \in DOMAIN files[m].imports :
             files[m].imports[k].open \/ BindsName(files, m, rTop.bound, k)
      BY <2>2, LoaderGraph DEF R!Evaluates, Analyses
    <3>2. rTop.bound \subseteq HeldBy(files, rValues, m)
      BY RTopFacts, AllArrived DEF FrameInv, HeldBy, rImports
    <3>3. \A x, k : BindsName(files, x, HeldBy(files, rValues, x), k)
                       => BindsName(files, x, HeldBy(files, rValues', x), k)
      BY <1>5 DEF HeldBy, BindsName
    <3>4. \A k : BindsName(files, m, rTop.bound, k)
                    => BindsName(files, m, HeldBy(files, rValues, m), k)
      BY <3>2 DEF BindsName
    <3> QED BY <2>1, <2>2, <3>1, <3>3, <3>4 DEF ValuesRest
  <2>3. CASE ~R!Evaluates(rTop)
    BY <2>1, <2>3
  <2> QED BY <2>2, <2>3
<1>10. \A i \in DOMAIN rStack' : i \in DOMAIN rStack /\ rStack'[i] = rStack[i]
  BY <1>2 DEF Shorter
<1>11. \A i \in DOMAIN rStack : /\ FrameInv(files, rValues', rReported, rStack[i])
                                /\ FrameGood(files, rValues', rStack[i])
                                /\ FrameMet(files, Met', rStack[i])
  <2> TAKE i \in DOMAIN rStack
  <2>1. /\ FrameInv(files, rValues, rReported, rStack[i]) /\ FrameGood(files, rValues, rStack[i])
        /\ FrameMet(files, Met, rStack[i])
    BY <1>1 DEF RecoverInv
  <2>2. FrameInv(files, rValues', rReported, rStack[i])
    BY <1>1, <1>5, <2>1, FrameKept
  <2>3. FrameGood(files, rValues', rStack[i])
    BY <1>5, <2>1, FrameKept
  <2> QED BY <1>4, <2>1, <2>2, <2>3
<1>12. AllMet'
  <2>1. ImportsOf(files, m) \subseteq Met
    <3>1. FrameMet(files, Met, rTop) /\ 1..rTop.next - 1 = DOMAIN rImports
      BY RTopFacts, AllArrived
    <3>2. Builtin \notin Sources /\ Unresolved \notin Sources
      BY <1>1, TreeFacts DEF Modules
    <3> QED BY <3>1, <3>2 DEF FrameMet, ImportsOf, rImports
  <2>2. DOMAIN rInputs' \cap rBusy' = {}
    BY <1>1, <1>2, <1>3 DEF AllMet
  <2>3. \A x \in DOMAIN rInputs' : ImportsOf(files, x) \subseteq Met
    BY <1>1, <1>3, <2>1 DEF AllMet
  <2> QED BY <1>1, <1>4, <2>2, <2>3 DEF AllMet
<1>13. CleanIsRight'
  <2> SUFFICES ASSUME Clean'
               PROVE  /\ ~rReported /\ rValues' \subseteq Recoverable(files)
                      /\ (Root \in DOMAIN rInputs' /\ rInputs'[Root].diagnostics # {}) =>
                             Recovers(files, Root)
    BY DEF CleanIsRight
  <2>1. R!LastDiagnostics(rTop) \subseteq (IF m = Root THEN {"raises"} ELSE {})
    BY <1>3 DEF Clean
  <2>2. rTop.diagnostics = {}
    BY <2>1, RTopFacts DEF R!LastDiagnostics, FrameInv
  <2>3. Clean
    <3>1. \A i \in DOMAIN rStack : rStack[i].diagnostics = {}
      <4> TAKE i \in DOMAIN rStack
      <4>1. i \in DOMAIN rStack' \/ i = Len(rStack)
        BY <1>2 DEF Shorter
      <4> QED BY <1>10, <2>2, <4>1, RTopFacts DEF Clean
    <3>2. \A x \in DOMAIN rInputs :
              rInputs[x].diagnostics \subseteq (IF x = Root THEN {"raises"} ELSE {})
      BY <1>3 DEF Clean
    <3> QED BY <3>1, <3>2 DEF Clean
  <2>4. /\ ~rReported /\ rValues \subseteq Recoverable(files)
        /\ (Root \in DOMAIN rInputs /\ rInputs[Root].diagnostics # {}) => Recovers(files, Root)
    BY <1>1, <2>3 DEF CleanIsRight
  <2>5. "ambiguous" \notin R!LastDiagnostics(rTop)
    BY <2>1
  <2>6. ASSUME R!Evaluates(rTop) PROVE m \in Recoverable(files)
    <3>1. Recovers(files, m)
      BY <2>2, <2>4, <2>5, <2>6, CleanCompiles DEF R!Evaluates, Clear
    <3> QED BY <1>1, <2>6, <3>1, RecoversEvaluates DEF R!Evaluates, Clear
  <2>7. ASSUME m = Root, input.diagnostics # {} PROVE Recovers(files, Root)
    <3>1. input.diagnostics \subseteq {"raises"}
      BY <1>3, <2>7 DEF Clean
    <3>2. "raises" \in R!LastDiagnostics(rTop)
      BY <2>7, <3>1
    <3>3. /\ files[m].fault = "raises"
          /\ R!Analyses(files, m, rTop.bound, R!WithPrelude(rTop.opened))
      BY <2>2, <3>2 DEF R!LastDiagnostics
    <3> QED BY <2>2, <2>4, <2>5, <2>7, <3>3, CleanCompiles
  <2> QED BY <1>3, <2>4, <2>6, <2>7
<1>14. /\ Met' \subseteq Reachable(files)
       /\ \A x \in rMembers' : OnCycle(files, x)
       /\ \A x \in Modules : rReads'[x] <= 1
  BY <1>4 DEF RecoverInv
<1> QED BY <1>1, <1>2, <1>3, <1>6, <1>7, <1>8, <1>9, <1>10, <1>11, <1>12, <1>13, <1>14
        DEF RecoverInv

\* The end of a call after the query was cancelled: nothing is kept.
LEMMA AbandonedKeeps ==
    ASSUME RecoverInv, rStack # <<>>, rStatus = "running", rCancelled,
           rStack' = SubSeq(rStack, 1, Len(rStack) - 1), rReturned' = "none",
           UNCHANGED <<files, rCancelled, rStatus, rInputs, rValues, rMembers, rReported, rReads>>
    PROVE  RecoverInv'
<1>1. /\ rStack' \in Seq(R!Frame) /\ Path(files, rStack') /\ Chain(files, rStack')
      /\ rBusy = rBusy' \cup {rTop.module} /\ Shorter(rStack, rStack')
      /\ rStack' # <<>> => /\ rTop'.next <= Len(rImports') /\ rTarget' = rTop.module
                           /\ rTop.module \in Sources
  BY CallReturns
<1>2. \A i \in DOMAIN rStack' : i \in DOMAIN rStack /\ rStack'[i] = rStack[i]
  BY <1>1 DEF Shorter
<1>3. R!TypeOK'
  BY <1>1, LoaderFacts, LoaderGraph DEF RecoverInv, R!TypeOK, R!Frame, R!Inputs
<1>4. Arrived' /\ Met' \subseteq Reachable(files)
  BY <1>1 DEF Arrived, RecoverInv, Met
<1> QED BY <1>1, <1>2, <1>3, <1>4 DEF RecoverInv

LEMMA LoaderFinishes == RecoverInv /\ R!FinishTelora => RecoverInv'
<1> SUFFICES ASSUME RecoverInv, R!FinishTelora PROVE RecoverInv'
  OBVIOUS
<1>1. /\ rStack # <<>> /\ rStatus = "running" /\ R!Top = rTop
      /\ rTop.next > Len(rImports) /\ rStack' = SubSeq(rStack, 1, Len(rStack) - 1)
      /\ UNCHANGED <<files, rCancelled, rStatus, rMembers, rReported, rReads>>
  <2>1. rStack # <<>> /\ R!Top = rTop
    BY RTopFacts DEF R!FinishTelora
  <2> QED BY <2>1 DEF R!FinishTelora, rImports
<1> DEFINE m == rTop.module
<1>2. files \in Graphs /\ m \in Modules
  BY <1>1, LoaderFacts, RTopFacts
<1>3. CASE rCancelled
  <2>1. rReturned' = "none" /\ UNCHANGED <<rInputs, rValues>>
    BY <1>3 DEF R!FinishTelora
  <2> QED BY <1>1, <1>3, <2>1, AbandonedKeeps
<1>4. CASE ~rCancelled
  <2>1. PICK nothingRecovered \in BOOLEAN, found \in SUBSET {"ill"} :
           /\ found # {} => files[m].fault \in {"ill", "nested"}
           /\ rInputs' = R!WithInput(m, R!Input(R!StateOf(rTop, nothingRecovered), R!Targets(m),
                                                R!LastDiagnostics(rTop) \cup found))
           /\ IF R!Evaluates(rTop)
              THEN rValues' = rValues \cup {m} /\ rReturned' = "value"
              ELSE rReturned' = "none" /\ rValues' = rValues
    BY <1>1, <1>4 DEF R!FinishTelora
  <2> DEFINE diagnostics == R!LastDiagnostics(rTop) \cup found
             input == R!Input(R!StateOf(rTop, nothingRecovered), R!Targets(m), diagnostics)
  <2>2. diagnostics \in SUBSET R!Diagnostics
    <3>1. rTop.diagnostics \subseteq R!Diagnostics
      BY <1>1, RTopFacts DEF R!Frame
    <3> QED BY <3>1 DEF R!LastDiagnostics, R!Diagnostics
  <2>3. R!Targets(m) \in SUBSET (Sources \cup {Builtin})
    BY <1>2, TreeFacts DEF R!Targets
  <2>4. R!StateOf(rTop, nothingRecovered) \in R!States
    BY DEF R!StateOf, R!States
  <2>5. input \in R!Inputs /\ input.targets = R!Targets(m) /\ input.diagnostics = diagnostics
    <3> HIDE DEF diagnostics
    <3> QED BY <2>2, <2>3, <2>4 DEF R!Input, R!Inputs
  <2>6. rInputs' = R!WithInput(m, input)
    BY <2>1
  <2>7. input.diagnostics = R!LastDiagnostics(rTop) \cup found
    BY <2>5
  <2> HIDE DEF input, diagnostics
  <2> QED BY <1>1, <1>4, <2>1, <2>5, <2>6, <2>7, FinishedKeeps
<1> QED BY <1>3, <1>4

LEMMA LoadKeeps ==
    ASSUME RecoverInv, NEW m, Asked(m), R!Load(m), Moves,
           rStack # <<>> \/ R!Answer(m) = "nothing",
           UNCHANGED <<files, rCancelled, rReported>>
    PROVE  RecoverInv'
<1>1. ASSUME R!Answered(m) PROVE RecoverInv'
  <2>1. rStack # <<>>
    BY <1>1 DEF R!Answered
  <2>2. rStatus' = rStatus
    BY <2>1 DEF Moves
  <2> QED BY <1>1, <2>1, <2>2, AnsweredKeeps
<1> QED BY <1>1, UnreadableKeeps, StaticDataKeeps, LoaderEnters DEF R!Load

LEMMA ImportSourceKeeps == RecoverInv /\ R!ImportSource => RecoverInv'
<1> SUFFICES ASSUME RecoverInv, R!ImportSource PROVE RecoverInv'
  OBVIOUS
<1>1. /\ R!AtImport /\ rReturned = "nothing" /\ R!NextImport.target = rTarget
      /\ R!Load(rTarget) /\ rTarget \in Sources
      /\ UNCHANGED <<files, rCancelled, rStatus, rReported>>
  BY RImportFacts DEF R!ImportSource
<1>2. rStack # <<>> /\ Asked(rTarget)
  BY <1>1, RImportFacts DEF Asked
<1>3. Moves
  BY <1>1, <1>2 DEF Moves
<1> QED BY <1>1, <1>2, <1>3, LoadKeeps

LEMMA LoaderBegins == RecoverInv /\ R!Start => RecoverInv'
<1> SUFFICES ASSUME RecoverInv, R!Start PROVE RecoverInv'
  OBVIOUS
<1>1. /\ files \in Graphs /\ rStatus = "start" /\ rStack = <<>> /\ rReturned = "nothing"
      /\ DOMAIN rInputs = {} /\ UNCHANGED <<files, rCancelled, rReported>>
      /\ Path(files, rStack) /\ rCancelled \in BOOLEAN
  BY LoaderFacts DEF R!Start, RecoverInv
<1>2. CASE rCancelled
  <2>1. /\ rStatus' = "failed"
        /\ UNCHANGED <<rStack, rReturned, rInputs, rValues, rMembers, rReads>>
    BY <1>2 DEF R!Start
  <2>2. Met' = Met /\ (Arrived => Arrived')
    BY <1>1, <2>1 DEF Met, rBusy, Arrived
  <2>3. R!TypeOK'
    BY <1>1, <2>1, LoaderFacts, LoaderGraph DEF RecoverInv, R!TypeOK, R!Frame, R!Inputs
  <2> QED BY <1>1, <1>2, <2>1, <2>2, <2>3 DEF RecoverInv
<1>3. CASE ~rCancelled
  <2>1. rStatus' = "running" /\ R!Load(Root)
    BY <1>3 DEF R!Start
  <2>2. Root \in Modules /\ Root \in Reachable(files)
    BY <1>1, TreeFacts, ClosureHasStart DEF Reachable
  <2>3. Asked(Root) /\ Moves
    BY <1>1, <1>3, <2>1, <2>2 DEF Asked, Moves
  <2>4. R!Answer(Root) = "nothing"
    <3>1. Root \notin rValues /\ Root \notin DOMAIN rInputs /\ Root \notin R!Visiting
      BY <1>1, LoaderFacts DEF R!Visiting
    <3> QED BY <1>3, <3>1 DEF R!Answer
  <2> QED BY <1>1, <2>1, <2>3, <2>4, LoadKeeps
<1> QED BY <1>1, <1>2, <1>3

LEMMA LoaderStops == RecoverInv /\ R!Stop => RecoverInv'
<1> SUFFICES ASSUME RecoverInv, R!Stop PROVE RecoverInv'
  OBVIOUS
<1>1. /\ rStatus = "running" /\ rStack = <<>>
      /\ rStatus' = IF rCancelled THEN "failed" ELSE "done"
      /\ UNCHANGED <<files, rCancelled, rStack, rReturned, rInputs, rValues, rMembers,
                     rReported, rReads>>
  BY DEF R!Stop
<1>2. /\ Met' = Met /\ rBusy' = rBusy /\ Arrived'
      /\ (AllMet => AllMet') /\ (CleanIsRight => CleanIsRight')
  BY <1>1 DEF Met, rBusy, Arrived, AllMet, CleanIsRight, Clean
<1>3. R!TypeOK'
  BY <1>1, LoaderFacts, LoaderGraph DEF RecoverInv, R!TypeOK, R!Frame, R!Inputs
<1> QED BY <1>1, <1>2, <1>3, LoaderFacts DEF RecoverInv

LEMMA CancelKeeps == RecoverInv /\ R!Cancel => RecoverInv'
<1> SUFFICES ASSUME RecoverInv, R!Cancel PROVE RecoverInv'
  OBVIOUS
<1>1. /\ rStatus \in {"start", "running"} /\ rCancelled' = TRUE
      /\ UNCHANGED <<files, rStatus, rStack, rReturned, rInputs, rValues, rMembers,
                     rReported, rReads>>
  BY DEF R!Cancel
<1>2. Met' = Met /\ (Arrived => Arrived')
  BY <1>1 DEF Met, rBusy, Arrived, rTop, rTarget, rImports
<1>3. R!TypeOK'
  BY <1>1, LoaderFacts, LoaderGraph DEF RecoverInv, R!TypeOK, R!Frame, R!Inputs
<1> QED BY <1>1, <1>2, <1>3 DEF RecoverInv

LEMMA RecoverKeeps == RecoverInv /\ (R!Build \/ R!Cancel) => RecoverInv'
BY LoaderBegins, ImportUnresolvedKeeps, ImportBuiltinKeeps, ImportSourceKeeps, BindValueKeeps,
   BindNoneKeeps, LoaderFinishes, LoaderStops, CancelKeeps DEF R!Build

\* While the strict loader runs the builder has not begun.
LEMMA RecoverStays == RecoverInv /\ UNCHANGED <<files, recoverable>> => RecoverInv'
<1> SUFFICES ASSUME RecoverInv, UNCHANGED <<files, recoverable>> PROVE RecoverInv'
  OBVIOUS
<1>1. /\ Met' = Met /\ (Arrived => Arrived')
      /\ (AllMet => AllMet') /\ (CleanIsRight => CleanIsRight')
  BY DEF recoverable, Met, rBusy, Arrived, AllMet, CleanIsRight, Clean, rTop, rTarget, rImports
<1>2. R!TypeOK'
  BY LoaderFacts, LoaderGraph DEF recoverable, RecoverInv, R!TypeOK, R!Frame, R!Inputs
<1> QED BY <1>1, <1>2 DEF RecoverInv, recoverable

----------------------------------------------------------------------------
(* What the invariants say of the properties.                              *)

LEMMA SnapshotWhole == RecoverInv => SnapshotIsWhole
<1> SUFFICES ASSUME RecoverInv PROVE SnapshotIsWhole
  OBVIOUS
<1>1. R!TypeOK /\ Path(files, rStack) /\ Chain(files, rStack) /\ rStack \in Seq(R!Frame)
      /\ files \in Graphs
  BY LoaderFacts DEF RecoverInv
<1>2. R!VisitingIsAPath
  <2>1. ASSUME NEW i \in DOMAIN rStack, i > 1
        PROVE  rStack[i].module \in R!ImportsOf(files, rStack[i - 1].module)
    <3> DEFINE below == rStack[i - 1]
    <3>1. i - 1 \in DOMAIN rStack
      BY <1>1, <2>1
    <3>2. /\ below.module \in Modules /\ files[below.module].kind = "telora"
          /\ files[below.module].fault # "unreadable"
          /\ below.next \in 1..Len(files[below.module].imports) + 1
      BY <1>1, <3>1 DEF Path
    <3>3. /\ below.next <= Len(files[below.module].imports)
          /\ files[below.module].imports[below.next].target = rStack[i].module
          /\ rStack[i].module \in Sources
      BY <1>1, <2>1 DEF Chain
    <3> HIDE DEF below
    <3>4. below.next \in DOMAIN files[below.module].imports
      <4>1. /\ Len(files[below.module].imports) \in Nat
            /\ DOMAIN files[below.module].imports = 1..Len(files[below.module].imports)
        BY <1>1, <3>2, TreeFacts
      <4> QED BY <3>2, <3>3, <4>1
    <3>5. rStack[i].module \in ImportsOf(files, below.module)
      BY <3>2, <3>3, <3>4 DEF ImportsOf
    <3> QED BY <3>5, LoaderGraph DEF below
  <2> QED BY <1>1, <2>1 DEF R!VisitingIsAPath, Path
<1>3. R!MembersAreOnCycles
  BY LoaderClosures DEF RecoverInv, R!MembersAreOnCycles
<1>4. ASSUME rStatus = "done"
      PROVE  AllMet /\ Met = DOMAIN rInputs
  <2>1. AllMet /\ rStack = <<>>
    BY <1>4 DEF RecoverInv
  <2>2. DOMAIN rStack = {}
    BY <2>1
  <2> QED BY <2>1, <2>2 DEF Met, rBusy, ModulesOf
<1>5. R!SnapshotIsClosed
  <2> SUFFICES ASSUME rStatus = "done"
               PROVE  \A m \in DOMAIN rInputs :
                         rInputs[m].targets \cap Sources \subseteq DOMAIN rInputs
    BY DEF R!SnapshotIsClosed
  <2>1. \A m \in DOMAIN rInputs : ImportsOf(files, m) \subseteq DOMAIN rInputs
    BY <1>4 DEF AllMet
  <2> QED BY <2>1 DEF RecoverInv, InputKept
<1>6. R!EachOnce
  <2>1. ASSUME rStatus = "done" PROVE DOMAIN rInputs = Reachable(files)
    <3>1. /\ {Root} \subseteq DOMAIN rInputs /\ {Root} \subseteq Modules
          /\ \A m \in DOMAIN rInputs \cap Modules : ImportsOf(files, m) \subseteq DOMAIN rInputs
      BY <1>1, <1>4, <2>1, TreeFacts DEF AllMet
    <3>2. Reachable(files) \subseteq DOMAIN rInputs
      BY <3>1, ClosureWithin DEF Reachable
    <3>3. DOMAIN rInputs \subseteq Reachable(files)
      BY <1>4, <2>1 DEF RecoverInv
    <3> QED BY <3>2, <3>3
  <2> QED BY <2>1, LoaderGraph, LoaderClosures DEF RecoverInv, R!EachOnce
<1> QED BY <1>1, <1>2, <1>3, <1>5, <1>6 DEF SnapshotIsWhole

LEMMA DoneFacts ==
    ASSUME RecoverInv, rStatus = "done"
    PROVE  /\ files \in Graphs /\ DOMAIN rInputs = Reachable(files)
           /\ rStack = <<>> /\ CleanIsRight /\ Root \in DOMAIN rInputs
           /\ Clean <=> \A m \in DOMAIN rInputs :
                 rInputs[m].diagnostics \subseteq (IF m = Root THEN {"raises"} ELSE {})
           /\ \A m \in DOMAIN rInputs : InputGood(files, rValues, m, rInputs[m])
<1>1. DOMAIN rInputs = Reachable(files)
  BY SnapshotWhole, LoaderClosures DEF SnapshotIsWhole, R!EachOnce
<1>2. rStack = <<>> /\ CleanIsRight /\ files \in Graphs
  BY DEF RecoverInv
<1>3. Root \in Reachable(files)
  BY <1>2, TreeFacts, ClosureHasStart DEF Reachable
<1> QED BY <1>1, <1>2, <1>3 DEF Clean, RecoverInv, InputKept

LEMMA RecoverableIsGood ==
    ASSUME NEW f \in Graphs, NEW m \in Recoverable(f)
    PROVE  Good(f, m) /\ f[m].fault \in Clear
<1>1. f[m].fault \in Clear
  BY RecoverableRests DEF Accepted, Clear
<1>2. m = Root => Recovers(f, Root)
  BY RecoverableCompiles, TreeFacts
<1> QED BY <1>1, <1>2 DEF Good

LEMMA KnownRight == RecoverInv => KnownIsRight
<1> SUFFICES ASSUME RecoverInv PROVE KnownIsRight
  OBVIOUS
<1>1. R!KnownRestsOnKnown
  BY LoaderGraph DEF RecoverInv, ValuesRest, HeldBy, R!KnownRestsOnKnown
<1>2. ASSUME rStatus = "done"
      PROVE  /\ Recoverable(files) \cap Reachable(files) \subseteq rValues
             /\ (\A m \in DOMAIN rInputs : rInputs[m].diagnostics = {}) =>
                    rValues \subseteq Recoverable(files)
  <2>1. ASSUME NEW m \in Recoverable(files), m \in Reachable(files) PROVE m \in rValues
    BY <1>2, <2>1, DoneFacts, RecoverableIsGood DEF InputGood
  <2>2. (\A m \in DOMAIN rInputs : rInputs[m].diagnostics = {}) => Clean
    BY <1>2, DoneFacts
  <2> QED BY <1>2, <2>1, <2>2, DoneFacts DEF CleanIsRight
<1>3. R!KnownIfRecoverable
  BY <1>2, LoaderClosures DEF R!KnownIfRecoverable
<1> QED BY <1>1, <1>3 DEF KnownIsRight

\* Everything that is reached from a root over grounded modules is grounded.
LEMMA ReachedGrounded ==
    ASSUME NEW f \in Graphs, NEW G, G \subseteq Modules, RestsOn(f, G, Root),
           \A m \in G : RestsOn(f, G, m)
    PROVE  Reachable(f) \subseteq G \cup {Root}
<1> DEFINE T == G \cup {Root}
<1>1. {Root} \subseteq T /\ {Root} \subseteq Modules
  BY TreeFacts
<1>2. ASSUME NEW m \in T \cap Modules PROVE ImportsOf(f, m) \subseteq T
  <2>1. Builtin \notin Sources
    BY TreeFacts DEF Modules
  <2> QED BY <1>2, <2>1, ImportsEvaluate
<1>3. \A m \in T \cap Modules : ImportsOf(f, m) \subseteq T
  BY <1>2
<1> HIDE DEF T
<1>4. Reachable(f) \subseteq T
  BY <1>1, <1>3, ClosureWithin DEF Reachable
<1> QED BY <1>4 DEF T

LEMMA CompilesRests ==
    ASSUME NEW f, NEW m, NEW E, CompilesOver(f, m, E)
    PROVE  RestsOn(f, E, m)
BY DEF CompilesOver, RestsOn

LEMMA RestsCompiles ==
    ASSUME NEW f, NEW m, NEW E, NEW X, CompilesOver(f, m, E), RestsOn(f, X, m)
    PROVE  CompilesOver(f, m, X)
BY DEF CompilesOver, RestsOn

\* What compiles strictly is what is recovered without an error that only the
\* strict loader looks for.
LEMMA CompilesIsRecovers ==
    ASSUME NEW f \in Graphs
    PROVE  Compiles(f, Root) <=> /\ Recovers(f, Root)
                                 /\ \A m \in Reachable(f) : ~StrictOnly(f, m)
<1>1. Evaluable(f) \subseteq Recoverable(f)
  <2> DEFINE sound == {m \in Modules : Sound(f, m)}
  <2>1. \A m \in sound : RestsOn(f, Recoverable(f) \cap Modules, m) => m \in Recoverable(f)
    <3> TAKE m \in sound
    <3> HAVE RestsOn(f, Recoverable(f) \cap Modules, m)
    <3>1. RestsOn(f, Recoverable(f), m) /\ Accepted(f, m) /\ m \in Modules
      BY RestsOnMore DEF Sound
    <3> QED BY <3>1, Grounds DEF Recoverable
  <2>2. sound \subseteq Modules
    OBVIOUS
  <2> HIDE DEF sound
  <2>3. Grounded(f, sound) \subseteq Recoverable(f)
    BY <2>1, <2>2, GroundedWithin
  <2> QED BY <2>3 DEF Evaluable, sound
<1>2. Root \in Modules /\ Root \in Reachable(f) /\ DOMAIN f[Root].imports \subseteq Nat
  BY TreeFacts, ClosureHasStart DEF Reachable
<1>3. ASSUME Compiles(f, Root)
      PROVE  Recovers(f, Root) /\ \A m \in Reachable(f) : ~StrictOnly(f, m)
  <2>1. CompilesOver(f, Root, Evaluable(f)) /\ RestsOn(f, Evaluable(f), Root)
    BY <1>3, CompilesRests DEF Compiles
  <2>2. CompilesOver(f, Root, Recoverable(f))
    BY <1>1, <2>1, RestsOnMore, RestsCompiles
  <2>3. Recovers(f, Root)
    BY <1>3, <2>2 DEF Recovers, Compiles, Clear
  <2>4. Reachable(f) \subseteq Evaluable(f) \cup {Root}
    BY <2>1, EvaluableRests, ReachedGrounded
  <2>5. ~StrictOnly(f, Root)
    BY <1>3 DEF Compiles, StrictOnly, OnlyRuns
  <2>6. \A m \in Evaluable(f) : ~StrictOnly(f, m)
    BY EvaluableRests DEF Sound
  <2> QED BY <2>3, <2>4, <2>5, <2>6
<1>4. ASSUME Recovers(f, Root), \A m \in Reachable(f) : ~StrictOnly(f, m)
      PROVE  Compiles(f, Root)
  <2>1. CompilesOver(f, Root, Recoverable(f)) /\ RestsOn(f, Recoverable(f), Root)
    BY <1>4, CompilesRests DEF Recovers
  \* What is recovered and reached evaluates.
  <2> DEFINE T == Evaluable(f) \cup {m \in Modules : m \notin Reachable(f)}
             accepted == {m \in Modules : Accepted(f, m)}
  <2>2. ASSUME NEW m \in accepted, RestsOn(f, T \cap Modules, m), m \in Reachable(f)
        PROVE  m \in Evaluable(f)
    <3>1. \A t \in ImportsOf(f, m) : t \in Reachable(f)
      BY <2>2, ClosureFollows DEF Reachable
    <3>2. RestsOn(f, Evaluable(f), m)
      <4>1. f[m].fault # "unreadable"
        BY <2>2 DEF Accepted
      <4>2. CASE f[m].kind = "telora"
        <5> SUFFICES ASSUME NEW k \in DOMAIN f[m].imports
                     PROVE  f[m].imports[k].target \in Evaluable(f) \cup {Builtin}
          BY DEF RestsOn
        <5>1. f[m].imports[k].target \in T \cup {Builtin}
          BY <2>2 DEF RestsOn
        <5>2. CASE f[m].imports[k].target \in Sources
          <6>1. f[m].imports[k].target \in ImportsOf(f, m)
            BY <4>1, <4>2, <5>2 DEF ImportsOf
          <6> QED BY <3>1, <5>1, <6>1, TreeFacts
        <5>3. CASE f[m].imports[k].target \notin Sources
          <6>1. f[m].imports[k].target \in {Builtin, Unresolved}
            BY <2>2, <5>3, TreeFacts
          <6>2. T \subseteq Modules
            BY EvaluableRests
          <6> QED BY <5>1, <6>1, <6>2, TreeFacts
        <5> QED BY <5>2, <5>3
      <4>3. CASE f[m].kind # "telora"
        <5>1. f[m].imports = <<>>
          BY <2>2, <4>3, TreeFacts
        <5>2. DOMAIN f[m].imports = {}
          BY <5>1
        <5> QED BY <5>2 DEF RestsOn
      <4> QED BY <4>2, <4>3
    <3>3. Sound(f, m) /\ m \in Modules
      BY <1>4, <2>2 DEF Sound
    <3> QED BY <3>2, <3>3, Grounds DEF Evaluable
  <2>3. \A m \in accepted : RestsOn(f, T \cap Modules, m) => m \in T
    BY <2>2
  <2>4. accepted \subseteq Modules
    OBVIOUS
  <2> HIDE DEF T, accepted
  <2>5. Grounded(f, accepted) \subseteq T
    BY <2>3, <2>4, GroundedWithin
  <2>6. \A m \in Recoverable(f) \cap Reachable(f) : m \in Evaluable(f)
    BY <2>5 DEF Recoverable, accepted, T
  <2>7. RestsOn(f, Evaluable(f), Root)
    <3> SUFFICES ASSUME NEW k \in DOMAIN f[Root].imports
                 PROVE  f[Root].imports[k].target \in Evaluable(f) \cup {Builtin}
      BY DEF RestsOn
    <3>1. f[Root].imports[k].target \in Recoverable(f) \cup {Builtin}
      BY <2>1 DEF RestsOn
    <3>2. CASE f[Root].imports[k].target \in Sources
      <4>1. f[Root].fault # "unreadable"
        BY <1>4 DEF Recovers, Clear, OnlyRuns
      <4>2. f[Root].imports[k].target \in ImportsOf(f, Root)
        BY <3>2, <4>1, TreeFacts DEF ImportsOf
      <4>3. f[Root].imports[k].target \in Reachable(f)
        BY <1>2, <4>2, ClosureFollows DEF Reachable
      <4> QED BY <2>6, <3>1, <4>3
    <3>3. CASE f[Root].imports[k].target \notin Sources
      <4>1. f[Root].imports[k].target \in {Builtin, Unresolved}
        BY <1>2, <3>3, TreeFacts
      <4> QED BY <3>1, <4>1, RecoverableRests, TreeFacts
    <3> QED BY <3>2, <3>3
  <2>8. CompilesOver(f, Root, Evaluable(f))
    BY <2>1, <2>7, RestsCompiles
  <2>9. ~StrictOnly(f, Root)
    BY <1>2, <1>4
  <2> QED BY <1>4, <2>8, <2>9 DEF Compiles, Recovers, Clear, StrictOnly
<1> QED BY <1>3, <1>4

\* The snapshot of a program whose root does not run out of quota shows nothing
\* wrong exactly when the root is recovered.
LEMMA ShownIsRecovers ==
    ASSUME RecoverInv, rStatus = "done", files[Root].fault # "halts"
    PROVE  ShowsNothingWrong <=> Recovers(files, Root)
<1>1. ASSUME Recovers(files, Root), NEW m \in DOMAIN rInputs
      PROVE  /\ rInputs[m].diagnostics \subseteq (IF m = Root THEN {"raises"} ELSE {})
             /\ m \in rValues \/ (m = Root /\ "raises" \in rInputs[m].diagnostics)
  <2>1. RestsOn(files, Recoverable(files), Root)
    BY <1>1, CompilesRests DEF Recovers
  <2>2. m \in Recoverable(files) \cup {Root} /\ InputGood(files, rValues, m, rInputs[m])
    BY <1>1, <2>1, DoneFacts, RecoverableRests, ReachedGrounded
  <2>3. CASE m = Root
    <3>1. files[Root].fault \in Clear \cup {"raises"} /\ Good(files, Root)
      BY <1>1 DEF Recovers, Good, OnlyRuns
    <3> QED BY <2>2, <2>3, <3>1 DEF InputGood
  <2>4. CASE m # Root
    <3>1. Good(files, m) /\ files[m].fault \in Clear
      BY <2>2, <2>4, DoneFacts, RecoverableIsGood
    <3> QED BY <2>2, <3>1 DEF InputGood
  <2> QED BY <2>3, <2>4
<1>2. ASSUME ShowsNothingWrong PROVE Recovers(files, Root)
  <2>1. Clean
    BY <1>2, DoneFacts DEF ShowsNothingWrong
  <2>2. CASE Root \in rValues
    BY <2>1, <2>2, DoneFacts, RecoverableCompiles, TreeFacts DEF CleanIsRight
  <2>3. CASE Root \notin rValues
    BY <1>2, <2>1, <2>3, DoneFacts DEF CleanIsRight, ShowsNothingWrong
  <2> QED BY <2>2, <2>3
<1> QED BY <1>1, <1>2 DEF ShowsNothingWrong

\* The two loaders agree but for the errors that only one of them looks for.
LEMMA Agree ==
    ASSUME StrictInv, RecoverInv, rStatus # "start" => sStatus \in {"ok", "failed"},
           files[Root].fault # "halts"
    PROVE  LoadersAgree
<1> SUFFICES ASSUME rStatus = "done"
             PROVE  sStatus = "ok" <=> /\ ShowsNothingWrong
                                       /\ \A m \in Reachable(files) : ~StrictOnly(files, m)
  BY DEF LoadersAgree
<1>1. sStatus = "ok" <=> Compiles(files, Root)
  <2>1. S!OkIfCompiles /\ files \in Graphs
    BY StrictLoaderRight DEF StrictInv
  <2>2. S!RootCompiles <=> Compiles(files, Root)
    BY <2>1, RootCompilesIs
  <2> QED BY <2>1, <2>2 DEF S!OkIfCompiles
<1>2. ShowsNothingWrong <=> Recovers(files, Root)
  BY ShownIsRecovers
<1> QED BY <1>1, <1>2, CompilesIsRecovers DEF StrictInv

----------------------------------------------------------------------------
(* The theorems.                                                           *)

LoadInv == StrictInv /\ RecoverInv /\ (rStatus # "start" => Loaded)

\* Nothing either loader does changes the source tree.
LEMMA FilesStay ==
    /\ S!Next => files' = files /\ sStatus \in {"start", "running"}
    /\ R!Build \/ R!Cancel => files' = files
<1>1. S!Next => files' = files /\ sStatus \in {"start", "running"}
  BY DEF S!Next, S!Start, S!ImportDuplicate, S!ImportUnresolved, S!ImportUnloaded, S!ImportLoaded,
         S!FinishTelora, S!Fail, S!Stop, S!AtImport, S!Running
<1>2. R!Build \/ R!Cancel => files' = files
  BY DEF R!Build, R!Start, R!ImportUnresolved, R!ImportBuiltin, R!ImportSource, R!BindValue,
         R!BindNone, R!FinishTelora, R!Stop, R!Cancel
<1> QED BY <1>1, <1>2

LEMMA LoadInvHolds == Spec => []LoadInv
<1>1. Init => LoadInv
  BY StrictStarts, LoaderStarts DEF LoadInv, Init, R!NewBuilder
<1>2. LoadInv /\ [Next]_vars => LoadInv'
  <2> SUFFICES ASSUME LoadInv, [Next]_vars PROVE LoadInv'
    OBVIOUS
  <2>1. CASE LoadStrictly
    <3>1. S!Next /\ UNCHANGED recoverable /\ files' = files /\ rStatus = "start"
      BY <2>1, FilesStay DEF LoadStrictly, LoadInv, Loaded
    <3>2. StrictInv' /\ RecoverInv'
      BY <3>1, StrictKeeps, RecoverStays DEF LoadInv
    <3> QED BY <3>1, <3>2 DEF LoadInv, recoverable
  <2>2. CASE Recover \/ Cancel
    <3>1. Loaded /\ (R!Build \/ R!Cancel) /\ UNCHANGED strict /\ files' = files
      BY <2>2, FilesStay DEF Recover, Cancel
    <3>2. StrictInv' /\ RecoverInv'
      BY <3>1, StrictKeeps, RecoverKeeps DEF LoadInv
    <3> QED BY <3>1, <3>2 DEF LoadInv, Loaded, strict
  <2>3. CASE UNCHANGED vars
    <3>1. UNCHANGED <<files, strict>> /\ UNCHANGED <<files, recoverable>>
      BY <2>3 DEF vars
    <3>2. StrictInv' /\ RecoverInv'
      BY <3>1, StrictKeeps, RecoverStays DEF LoadInv
    <3> QED BY <3>1, <3>2 DEF LoadInv, Loaded, strict, recoverable
  <2> QED BY <2>1, <2>2, <2>3 DEF Next
<1> QED BY <1>1, <1>2, PTL DEF Spec

\* ModuleLoader::load_root: it loads exactly the programs whose root compiles
\* over modules that evaluate, caches no other module, and reads no file twice.
THEOREM StrictRight == Spec => []StrictIsRight
<1>1. LoadInv => StrictIsRight
  BY StrictLoaderRight DEF LoadInv, StrictIsRight
<1> QED BY <1>1, LoadInvHolds, PTL

\* recover_workspace_async: whatever fails on the way, the snapshot has each
\* module the root reaches, read once, and what it marks as cyclic is on a cycle.
THEOREM SnapshotRight == Spec => []SnapshotIsWhole
<1>1. LoadInv => SnapshotIsWhole
  BY SnapshotWhole DEF LoadInv
<1> QED BY <1>1, LoadInvHolds, PTL

\* RecoverableWorkspaceBuilder: a module is Known only over modules that are, all
\* that evaluate are, and when nothing is reported no other.
THEOREM KnownHolds == Spec => []KnownIsRight
<1>1. LoadInv => KnownIsRight
  BY KnownRight DEF LoadInv
<1> QED BY <1>1, LoadInvHolds, PTL

\* load_root succeeds on a program exactly when its recovered snapshot shows
\* nothing wrong and no module of it has an error that only compile_telora looks
\* for: an option's value, an import inside an expression, a name imported twice.
\* A root that exhausts a quota when it is run is a further exception: it loads,
\* and its snapshot has neither a value nor a diagnostic.
THEOREM LoadersAgreeAlways == Spec => []LoadersAgree
<1>1. LoadInv => LoadersAgree
  <2>1. LoadInv /\ files[Root].fault = "halts" => LoadersAgree
    BY DEF LoadersAgree
  <2>2. LoadInv /\ files[Root].fault # "halts" => LoadersAgree
    BY Agree DEF LoadInv, Loaded
  <2> QED BY <2>1, <2>2
<1> QED BY <1>1, LoadInvHolds, PTL

=============================================================================
