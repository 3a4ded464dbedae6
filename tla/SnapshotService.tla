-------------------------- MODULE SnapshotService --------------------------
(***************************************************************************)
(* What a Workspace promises to the editor that drives it, with no lock,   *)
(* task or checkpoint in sight: the editor's inputs change one revision at *)
(* a time, and the published snapshot is always a complete reading of the  *)
(* inputs of exactly the revision it carries.                              *)
(*                                                                         *)
(* Workspace.tla (the API with its lock and its rebuild tasks) and         *)
(* LspServer.tla (the language server above it) are both shown to          *)
(* implement this module.                                                  *)
(***************************************************************************)
EXTENDS Integers

CONSTANTS
    Docs,        \* canonical paths of the documents of the workspace
    Root,        \* the root module, the first one a rebuild loads
    Texts,       \* document texts, told apart by what they import
    Imports,     \* Imports[x]: the documents that text x imports
    Closed,      \* the document has no overlay: the disk decides
    Missing,     \* the document cannot be read from the disk either
    NoSnapshot   \* nothing has been published yet

\* A text a rebuild finds for a document; Missing is the module input that
\* stands for a file that could not be read.
Readable == Texts \cup {Missing}

\* The modules a snapshot holds, with the text each was built from.
Sources == UNION {[D -> Readable] : D \in SUBSET Docs}

Snapshots == [revision : Nat, sources : Sources]

\* What an instance assumes of the constants.
ConstantsOK ==
    /\ Root \in Docs
    /\ Imports \in [Texts -> SUBSET Docs]
    /\ Closed \notin Readable
    /\ Missing \notin Texts
    /\ NoSnapshot \notin Snapshots

ImportsOf(text) == IF text = Missing THEN {} ELSE Imports[text]

(***************************************************************************)
(* A set of modules is a complete reading of the inputs when it holds the  *)
(* root and everything its members import, nothing that no member imports, *)
(* and the editor's text of every document the editor holds open.          *)
(***************************************************************************)
Complete(sources, in) ==
    /\ Root \in DOMAIN sources
    /\ \A d \in DOMAIN sources :
         /\ in[d] # Closed => sources[d] = in[d]
         /\ ImportsOf(sources[d]) \subseteq DOMAIN sources
         /\ d # Root => \E e \in DOMAIN sources : d \in ImportsOf(sources[e])

VARIABLES inputs, revision, published
vars == <<inputs, revision, published>>

Init ==
    /\ inputs = [d \in Docs |-> Closed]
    /\ revision = 0
    /\ published = NoSnapshot

\* The editor opens, changes or closes one document: the next revision.
Edit ==
    /\ \E d \in Docs, in \in Texts \cup {Closed} :
         inputs' = [inputs EXCEPT ![d] = in]
    /\ revision' = revision + 1
    /\ UNCHANGED published

\* A rebuild publishes; only ever the present revision, and all of it.
Publish ==
    /\ published' \in Snapshots
    /\ published'.revision = revision
    /\ Complete(published'.sources, inputs)
    /\ UNCHANGED <<inputs, revision>>

Next == Edit \/ Publish

Spec == Init /\ [][Next]_vars
=============================================================================
