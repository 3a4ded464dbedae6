---------------------------- MODULE PendingModule ----------------------------
(***************************************************************************)
(* telora-core: PendingModule of module.rs and the natives of              *)
(* entry_runtime.rs that reach it.  A host prepares @main, its entry       *)
(* module injects values under module ids and then initializes it.  The    *)
(* handle is a shared reference with a mutex around its state; any thread  *)
(* that holds it may call it.  The lock is not held while the module is    *)
(* loaded and executed.                                                    *)
(***************************************************************************)
EXTENDS Naturals, FiniteSets

CONSTANTS
    Threads,    \* callers that hold the handle
    Ids,        \* ids that may be injected
    Invalid,    \* ids that are refused: relative, @main, entry/, private, native
    Builtins,   \* ids of built-in modules
    MaxEdits    \* bound: edits of the file

ASSUME PendingAssumption ==
    /\ Invalid \subseteq Ids /\ Builtins \subseteq Ids
    /\ MaxEdits \in Nat

VARIABLES
    disk,       \* what loading the file of @main would give now (external)
    edits,      \* edits made so far (bound)
    state,      \* PendingModuleState
    doing,      \* by thread: what its call is at
    answers,    \* by thread: what its calls of initialize returned (history)
    accepted,   \* ids whose inject_module returned Ok (history)
    loads       \* how often the module has been loaded (history)

vars == <<disk, edits, state, doing, answers, accepted, loads>>

\* Contents of the file: it loads and runs, it fails, or loading it panics.
Contents == {"good", "bad", "panics"}

TypeOK ==
    /\ disk \in Contents
    /\ edits \in 0..MaxEdits
    /\ \/ state.kind = "Pending" /\ state.modules \subseteq Ids \ (Invalid \cup Builtins)
       \/ state.kind \in {"Initializing", "Failed"}
       \/ state.kind = "Ready" /\ state.module.modules \subseteq Ids \ (Invalid \cup Builtins)
    \* A thread is outside, loads with the modules it took, or holds the
    \* outcome and has yet to store it; one that panicked never comes back.
    /\ \A t \in Threads : doing[t].at \in {"outside", "panicked", "loading", "loaded"}
    /\ \A t \in Threads : \A a \in answers[t] : a.kind \in {"Initializing", "Ready", "Failed"}
    /\ accepted \subseteq Ids
    /\ loads \in Nat

Outside == [at |-> "outside"]
Pending(modules) == [kind |-> "Pending", modules |-> modules]
Ready(modules, load) ==
    [kind |-> "Ready", module |-> [load |-> load, modules |-> modules]]

\* prepare_module_with_arguments parses the file, which an edit may break later.
Init ==
    /\ disk \in Contents
    /\ edits = 0
    /\ state = Pending({})
    /\ doing = [t \in Threads |-> Outside]
    /\ answers = [t \in Threads |-> {}]
    /\ accepted = {}
    /\ loads = 0

\* inject_module returns Ok: the id is legal and new, and initialization has
\* not started.  Every other call changes nothing.
InjectOk(id) ==
    /\ id \notin Invalid \cup Builtins
    /\ state.kind = "Pending"
    /\ id \notin state.modules
    /\ state' = Pending(state.modules \cup {id})
    /\ accepted' = accepted \cup {id}

Inject(t, id) ==
    /\ doing[t] = Outside
    /\ InjectOk(id)
    /\ UNCHANGED <<disk, edits, doing, answers, loads>>

\* Mutant: initialize takes the modules but does not mark the state.
TakeUnmarked(t) ==
    /\ state.kind = "Pending"
    /\ doing' = [doing EXCEPT ![t] = [at |-> "loading", modules |-> state.modules]]
    /\ state' = Pending({})
    /\ UNCHANGED answers

\* initialize under its first lock: the first caller takes the modules.
Take(t) ==
    /\ state.kind = "Pending"
    /\ doing' = [doing EXCEPT ![t] = [at |-> "loading", modules |-> state.modules]]
    /\ state' = [kind |-> "Initializing"]
    /\ UNCHANGED answers

\* ... any other caller is answered at once.
AnswerNow(t) ==
    /\ state.kind # "Pending"
    /\ answers' = [answers EXCEPT ![t] = @ \cup {state}]
    /\ UNCHANGED <<state, doing>>

Initialize(t) ==
    /\ doing[t] = Outside
    /\ Take(t) \/ AnswerNow(t)
    /\ UNCHANGED <<disk, edits, accepted, loads>>

\* load_module_with_native_modules, then execute: the file is read again.
Load(t) ==
    /\ doing[t].at = "loading"
    /\ loads' = loads + 1
    /\ doing' = [doing EXCEPT ![t] =
          IF disk = "panics" THEN [at |-> "panicked"]
          ELSE [at |-> "loaded", modules |-> @.modules, load |-> loads',
                result |-> IF disk = "good" THEN "Ready" ELSE "Failed"]]
    /\ UNCHANGED <<disk, edits, state, answers, accepted>>

\* Mutant: a failed load leaves the state as it is.
StoredReadyOnly(d) ==
    IF d.result = "Ready" THEN Ready(d.modules, d.load) ELSE state

\* What initialize stores under its second lock.
Stored(d) ==
    IF d.result = "Ready" THEN Ready(d.modules, d.load) ELSE [kind |-> "Failed"]

Store(t) ==
    /\ doing[t].at = "loaded"
    /\ state' = Stored(doing[t])
    /\ answers' = [answers EXCEPT ![t] = @ \cup {state'}]
    /\ doing' = [doing EXCEPT ![t] = Outside]
    /\ UNCHANGED <<disk, edits, accepted, loads>>

\* The file is written by others (external).
Edit ==
    /\ edits < MaxEdits
    /\ edits' = edits + 1
    /\ disk' \in Contents \ {disk}
    /\ UNCHANGED <<state, doing, answers, accepted, loads>>

Next ==
    \/ Edit
    \/ \E t \in Threads :
          Initialize(t) \/ Load(t) \/ Store(t) \/ \E id \in Ids : Inject(t, id)

Spec == Init /\ [][Next]_vars
\* A thread inside initialize runs on; loading a file ends (StrictLoader).
FairSpec == Spec /\ \A t \in Threads : WF_vars(Load(t) \/ Store(t))

----------------------------------------------------------------------------
\* @main is loaded and executed once, however many threads initialize it, and
\* every one of them that gets a module gets the same one.
InitializedOnce ==
    /\ loads <= 1
    /\ Cardinality({a \in UNION {answers[t] : t \in Threads} :
                       a.kind # "Initializing"}) <= 1

\* No accepted injection is lost: the module is made with every id whose
\* injection returned Ok, and with no other.
AllInjected ==
    state.kind = "Ready" => state.module.modules = accepted

\* Started initialization gets an outcome, unless loading panicked: then the
\* state stays Initializing and all later callers are told to wait for nobody.
Settles ==
    state.kind = "Initializing" ~>
        state.kind \in {"Ready", "Failed"} \/ \E t \in Threads : doing[t].at = "panicked"
=============================================================================
