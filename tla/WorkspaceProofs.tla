--------------------------- MODULE WorkspaceProofs ---------------------------
(***************************************************************************)
(* For any set of documents, texts, editors and rebuild tasks: what the    *)
(* workspace publishes is coherent, never goes back, and the workspace     *)
(* implements SnapshotService.                                             *)
(***************************************************************************)
EXTENDS Workspace, TLAPS

\* Any map of some documents to readable texts can be a snapshot's content.
LEMMA SourcesIntro ==
  ASSUME NEW D \in SUBSET Docs, NEW f \in [D -> Abs!Readable]
  PROVE  f \in Abs!Sources
BY DEF Abs!Sources

LEMMA SourcesElim ==
  ASSUME NEW f \in Abs!Sources
  PROVE  DOMAIN f \subseteq Docs /\ f \in [DOMAIN f -> Abs!Readable]
<1>1. PICK D \in SUBSET Docs : f \in [D -> Abs!Readable]
  BY DEF Abs!Sources
<1> QED
  BY <1>1

LEMMA NoSourcesType == NoSources \in Abs!Sources /\ DOMAIN NoSources = {}
<1>1. NoSources \in [{} -> Abs!Readable]
  BY DEF NoSources
<1> QED
  BY <1>1, SourcesIntro

\* A module's text is readable and its imports are documents.
LEMMA SourceType ==
  ASSUME TypeOK, NEW t \in Tasks, NEW d \in Docs
  PROVE  /\ SourceOf(t, d) \in Abs!Readable
         /\ Abs!ImportsOf(SourceOf(t, d)) \subseteq Docs
<1>1. SourceOf(t, d) \in Abs!Readable
  BY BoundsAssumption DEF SourceOf, TypeOK, Abs!Readable
<1> QED
  BY <1>1, ServiceAssumption DEF Abs!ConstantsOK, Abs!ImportsOf, Abs!Readable

LEMMA OverlayTextsType ==
  ASSUME TypeOK PROVE OverlayTexts \in [Docs -> Texts \cup {Closed}]
<1> SUFFICES ASSUME NEW d \in Docs
             PROVE  (IF overlays[d] = Closed THEN Closed
                     ELSE overlays[d].text) \in Texts \cup {Closed}
  BY DEF OverlayTexts
<1>1. overlays[d] \in Documents \cup {Closed}
  BY DEF TypeOK
<1> QED
  BY <1>1 DEF Documents

LEMMA InitType == Init => TypeOK
BY NoSourcesType, BoundsAssumption
   DEF Init, TypeOK, NothingOpen, Phases, Outcomes

LEMMA ReturnType ==
  ASSUME TypeOK, NEW t \in Tasks, NEW r \in Outcomes, Return(t, r),
         published' \in Abs!Snapshots \cup {NoSnapshot}
  PROVE  TypeOK'
BY NoSourcesType DEF TypeOK, Return, NothingOpen, Phases, edits

LEMMA StepType == TypeOK /\ [Next]_vars => TypeOK'
<1> SUFFICES ASSUME TypeOK, [Next]_vars PROVE TypeOK'
  OBVIOUS
<1>1. ASSUME NEW e \in Editors, NEW d \in Docs,
             NEW document \in Documents \cup {Closed}, Insert(e, d, document)
      PROVE  TypeOK'
  BY <1>1 DEF TypeOK, Insert, task
<1>2. ASSUME NEW e \in Editors, Advance(e) PROVE TypeOK'
  BY <1>2 DEF TypeOK, Advance, task
<1>3. ASSUME NEW t \in Tasks, StartRebuild(t) PROVE TypeOK'
  BY <1>3 DEF TypeOK, StartRebuild, edits, Phases, Outcomes
<1>4. ASSUME NEW t \in Tasks, Cancel(t) PROVE TypeOK'
  BY <1>4 DEF TypeOK, Cancel, edits
<1>5. ASSUME NEW t \in Tasks, Abandon(t) PROVE TypeOK'
  BY <1>5, ReturnType DEF TypeOK, Abandon, Outcomes
<1>6. ASSUME NEW t \in Tasks, EngineFails(t) PROVE TypeOK'
  BY <1>6, ReturnType DEF TypeOK, EngineFails, Outcomes
<1>7. ASSUME NEW t \in Tasks, CopyOverlays(t) PROVE TypeOK'
  BY <1>7, OverlayTextsType, ServiceAssumption
     DEF TypeOK, CopyOverlays, edits, Phases, Abs!ConstantsOK
<1>8. ASSUME NEW t \in Tasks, NEW d \in Docs, LoadModule(t, d) PROVE TypeOK'
  <2> DEFINE loaded == DOMAIN sources[t] \cup {d}
             new == [m \in loaded |->
                       IF m = d THEN SourceOf(t, d) ELSE sources[t][m]]
  <2>1. DOMAIN sources[t] \subseteq Docs
        /\ sources[t] \in [DOMAIN sources[t] -> Abs!Readable]
    BY SourcesElim DEF TypeOK
  <2>2. new \in Abs!Sources
    BY <2>1, SourcesIntro, SourceType
  <2>3. (todo[t] \cup Abs!ImportsOf(SourceOf(t, d))) \ loaded \in SUBSET Docs
    BY SourceType DEF TypeOK
  <2> QED
    BY <1>8, <2>2, <2>3 DEF TypeOK, LoadModule, edits
<1>9. ASSUME NEW t \in Tasks, NEW d \in Docs, SkipModule(t, d) PROVE TypeOK'
  BY <1>9 DEF TypeOK, SkipModule, edits
<1>10. ASSUME NEW t \in Tasks, FinishLoad(t) PROVE TypeOK'
  BY <1>10 DEF TypeOK, FinishLoad, edits, Phases
<1>11. ASSUME NEW t \in Tasks, Publish(t) PROVE TypeOK'
  <2>1. [revision |-> ctx[t], sources |-> sources[t]] \in Abs!Snapshots
    BY DEF TypeOK, Abs!Snapshots
  <2> QED
    BY <1>11, <2>1, ReturnType DEF Publish, Outcomes
<1>12. ASSUME NEW d \in Docs, WriteDisk(d) PROVE TypeOK'
  BY <1>12 DEF TypeOK, WriteDisk, edits, task
<1>13. CASE UNCHANGED vars
  BY <1>13 DEF TypeOK, vars
<1> QED
  BY <1>1, <1>2, <1>3, <1>4, <1>5, <1>6, <1>7, <1>8, <1>9, <1>10, <1>11,
     <1>12, <1>13
     DEF Next, Edit, Run, Open, Change, Close

\* Every variable keeps its type; in particular what is published is a
\* snapshot, whichever task published it.
THEOREM TypeCorrect == Spec => []TypeOK
BY InitType, StepType, PTL DEF Spec

----------------------------------------------------------------------------
(* The inductive invariant.                                                *)

LEMMA InitInv == Init => WorkspaceInv
BY NoSourcesType DEF Init, WorkspaceInv, PublishedCoherent, RebuildInv

\* A step that leaves a task's own state, the clock, the lock and the
\* overlays alone keeps what is known of that task.
LEMMA TaskFrame ==
  ASSUME NEW u \in Tasks, RebuildInv(u), UNCHANGED edits,
         phase'[u] = phase[u], ctx'[u] = ctx[u],
         cancelled'[u] = cancelled[u], copy'[u] = copy[u],
         todo'[u] = todo[u], sources'[u] = sources[u]
  PROVE  RebuildInv(u)'
<1>1. PartlyComplete(u)' <=> PartlyComplete(u)
  BY DEF PartlyComplete, Abs!ImportsOf
<1> QED
  BY <1>1 DEF RebuildInv, CheckOK, OverlayTexts, edits

\* Nor does a step that changes neither the snapshot nor what it is of
\* disturb the snapshot's coherence.
LEMMA PublishedFrame ==
  ASSUME UNCHANGED edits, UNCHANGED published, PublishedCoherent
  PROVE  PublishedCoherent'
BY DEF PublishedCoherent, edits, OverlayTexts, Abs!Complete, Abs!ImportsOf

\* A rebuild that returns with nothing published leaves no trace.
LEMMA ReturnInv ==
  ASSUME TypeOK, WorkspaceInv, NEW t \in Tasks, NEW r, Return(t, r)
  PROVE  \A u \in Tasks : RebuildInv(u)'
<1> SUFFICES ASSUME NEW u \in Tasks PROVE RebuildInv(u)'
  OBVIOUS
<1>1. CASE u = t
  BY <1>1, NoSourcesType DEF TypeOK, WorkspaceInv, RebuildInv, Return, edits
<1>2. CASE u # t
  BY <1>2, TaskFrame DEF TypeOK, WorkspaceInv, Return
<1> QED
  BY <1>1, <1>2

\* The snapshot a task is about to publish is complete.
LEMMA ReadyIsComplete ==
  ASSUME TypeOK, NEW t \in Tasks, RebuildInv(t), phase[t] = "publish",
         lock = Free, CheckOK(t)
  PROVE  Abs!Complete(sources[t], OverlayTexts)
BY DEF RebuildInv, PartlyComplete, Abs!Complete

LEMMA StepInv == TypeOK /\ WorkspaceInv /\ [Next]_vars => WorkspaceInv'
<1> SUFFICES ASSUME TypeOK, WorkspaceInv, [Next]_vars PROVE WorkspaceInv'
  OBVIOUS
<1> USE DEF WorkspaceInv
<1>1. ASSUME NEW e \in Editors, NEW d \in Docs,
             NEW document \in Documents \cup {Closed}, Insert(e, d, document)
      PROVE  WorkspaceInv'
  <2>1. lock' # Free
    BY <1>1, BoundsAssumption DEF Insert
  <2>2. ASSUME NEW u \in Tasks PROVE RebuildInv(u)'
    <3>1. PartlyComplete(u)' <=> PartlyComplete(u)
      BY <1>1 DEF PartlyComplete, Abs!ImportsOf, Insert, task
    <3> QED
      BY <1>1, <2>1, <3>1 DEF RebuildInv, CheckOK, Insert, task
  <2> QED
    BY <1>1, <2>1, <2>2 DEF PublishedCoherent, Insert
<1>2. ASSUME NEW e \in Editors, Advance(e) PROVE WorkspaceInv'
  <2>1. ASSUME NEW u \in Tasks PROVE RebuildInv(u)'
    BY <1>2 DEF TypeOK, RebuildInv, CheckOK, Advance, task
  <2>2. published # NoSnapshot => published.revision \in Nat
    BY DEF TypeOK, Abs!Snapshots
  <2> QED
    BY <1>2, <2>1, <2>2 DEF TypeOK, PublishedCoherent, Advance
<1>3. ASSUME NEW t \in Tasks, StartRebuild(t) PROVE WorkspaceInv'
  <2>1. ASSUME NEW u \in Tasks PROVE RebuildInv(u)'
    <3>1. CASE u = t
      BY <1>3, <3>1 DEF TypeOK, RebuildInv, StartRebuild, edits
    <3>2. CASE u # t
      BY <1>3, <3>2, TaskFrame DEF TypeOK, StartRebuild
    <3> QED
      BY <3>1, <3>2
  <2> QED
    BY <1>3, <2>1, PublishedFrame DEF StartRebuild, edits
<1>4. ASSUME NEW t \in Tasks, Cancel(t) PROVE WorkspaceInv'
  <2>1. ASSUME NEW u \in Tasks PROVE RebuildInv(u)'
    <3>1. CASE u = t
      BY <1>4, <3>1 DEF TypeOK, RebuildInv, CheckOK, Cancel, edits
    <3>2. CASE u # t
      BY <1>4, <3>2, TaskFrame DEF TypeOK, Cancel
    <3> QED
      BY <3>1, <3>2
  <2> QED
    BY <1>4, <2>1, PublishedFrame DEF Cancel, edits
<1>5. ASSUME NEW t \in Tasks, Abandon(t) \/ EngineFails(t) PROVE WorkspaceInv'
  <2>1. \E r \in Outcomes : Return(t, r)
    BY <1>5 DEF Abandon, EngineFails, Outcomes
  <2> QED
    BY <1>5, <2>1, ReturnInv, PublishedFrame
       DEF Abandon, EngineFails, Return, edits
<1>6. ASSUME NEW t \in Tasks, CopyOverlays(t) PROVE WorkspaceInv'
  <2>1. ASSUME NEW u \in Tasks PROVE RebuildInv(u)'
    <3>1. CASE u = t
      <4>1. /\ copy'[u] = OverlayTexts /\ todo'[u] = {Root}
            /\ DOMAIN sources'[u] = {}
        BY <1>6, <3>1 DEF TypeOK, RebuildInv, CopyOverlays
      <4> QED
        BY <1>6, <3>1, <4>1
           DEF TypeOK, RebuildInv, PartlyComplete, CopyOverlays, edits,
               OverlayTexts
    <3>2. CASE u # t
      BY <1>6, <3>2, TaskFrame DEF TypeOK, CopyOverlays
    <3> QED
      BY <3>1, <3>2
  <2> QED
    BY <1>6, <2>1, PublishedFrame DEF CopyOverlays, edits
<1>7. ASSUME NEW t \in Tasks, NEW d \in Docs, LoadModule(t, d)
      PROVE  WorkspaceInv'
  <2>1. ASSUME NEW u \in Tasks PROVE RebuildInv(u)'
    <3>1. CASE u = t
      <4> DEFINE loaded == DOMAIN sources[t] \cup {d}
                 imports == Abs!ImportsOf(SourceOf(t, d))
      <4>1. PartlyComplete(t)
        BY <1>7 DEF RebuildInv, LoadModule
      <4>2. /\ sources'[t] = [m \in loaded |->
                  IF m = d THEN SourceOf(t, d) ELSE sources[t][m]]
            /\ todo'[t] = (todo[t] \cup imports) \ loaded
            /\ copy'[t] = copy[t]
            /\ d \in todo[t]
        BY <1>7 DEF TypeOK, LoadModule
      <4>3. DOMAIN sources'[t] = loaded
        BY <4>2
      <4>4. DOMAIN sources'[t] \cup todo'[t]
              = (DOMAIN sources[t] \cup todo[t]) \cup imports
        BY <4>2, <4>3
      <4>5. /\ sources'[t][d] = SourceOf(t, d)
            /\ \A m \in DOMAIN sources[t] : sources'[t][m] = sources[t][m]
        BY <4>1, <4>2 DEF PartlyComplete
      <4>6. ASSUME NEW m \in loaded
            PROVE  /\ copy'[t][m] # Closed => sources'[t][m] = copy'[t][m]
                   /\ Abs!ImportsOf(sources'[t][m])
                        \subseteq DOMAIN sources'[t] \cup todo'[t]
        <5>1. CASE m = d
          BY <4>2, <4>4, <4>5, <5>1 DEF SourceOf
        <5>2. CASE m # d
          BY <4>1, <4>2, <4>4, <4>5, <5>2 DEF PartlyComplete
        <5> QED
          BY <5>1, <5>2
      <4>7. ASSUME NEW m \in (DOMAIN sources'[t] \cup todo'[t]) \ {Root}
            PROVE  \E e \in loaded : m \in Abs!ImportsOf(sources'[t][e])
        <5>1. CASE m \in DOMAIN sources[t] \cup todo[t]
          BY <4>1, <4>5, <5>1 DEF PartlyComplete
        <5>2. CASE m \in imports
          BY <4>5, <5>2
        <5> QED
          BY <4>4, <4>7, <5>1, <5>2
      <4>8. PartlyComplete(t)'
        <5>1. Root \in DOMAIN sources'[t] \cup todo'[t]
          BY <4>1, <4>4 DEF PartlyComplete
        <5>2. DOMAIN sources'[t] \cap todo'[t] = {}
          BY <4>2, <4>3
        <5> QED
          BY <4>3, <4>6, <4>7, <5>1, <5>2 DEF PartlyComplete, Abs!ImportsOf
      <4> QED
        BY <1>7, <3>1, <4>8
           DEF TypeOK, RebuildInv, CheckOK, LoadModule, edits, OverlayTexts
    <3>2. CASE u # t
      BY <1>7, <3>2, TaskFrame DEF TypeOK, LoadModule
    <3> QED
      BY <3>1, <3>2
  <2> QED
    BY <1>7, <2>1, PublishedFrame DEF LoadModule, edits
<1>8. ASSUME NEW t \in Tasks, NEW d \in Docs, SkipModule(t, d)
      PROVE  WorkspaceInv'
  <2>1. ASSUME NEW u \in Tasks PROVE RebuildInv(u)'
    <3>1. CASE u = t
      BY <1>8, <3>1 DEF TypeOK, RebuildInv, CheckOK, SkipModule, edits
    <3>2. CASE u # t
      BY <1>8, <3>2, TaskFrame DEF TypeOK, SkipModule
    <3> QED
      BY <3>1, <3>2
  <2> QED
    BY <1>8, <2>1, PublishedFrame DEF SkipModule, edits
<1>9. ASSUME NEW t \in Tasks, FinishLoad(t) PROVE WorkspaceInv'
  <2>1. ASSUME NEW u \in Tasks PROVE RebuildInv(u)'
    <3>1. CASE u = t
      <4>1. PartlyComplete(t)' <=> PartlyComplete(t)
        BY <1>9 DEF PartlyComplete, Abs!ImportsOf, FinishLoad
      <4> QED
        BY <1>9, <3>1, <4>1
           DEF TypeOK, RebuildInv, CheckOK, FinishLoad, edits, OverlayTexts
    <3>2. CASE u # t
      BY <1>9, <3>2, TaskFrame DEF TypeOK, FinishLoad
    <3> QED
      BY <3>1, <3>2
  <2> QED
    BY <1>9, <2>1, PublishedFrame DEF FinishLoad, edits
<1>10. ASSUME NEW t \in Tasks, Publish(t) PROVE WorkspaceInv'
  <2>1. Abs!Complete(sources[t], OverlayTexts)
    BY <1>10, ReadyIsComplete DEF Publish
  <2>2. published'.revision = clock /\ published'.sources = sources[t]
    BY <1>10 DEF Publish, CheckOK
  <2>3. UNCHANGED edits /\ OverlayTexts' = OverlayTexts
    BY <1>10 DEF Publish, Return, edits, OverlayTexts
  <2>4. PublishedCoherent'
    BY <2>1, <2>2, <2>3 DEF PublishedCoherent, Abs!Complete, Abs!ImportsOf
  <2>5. published'.revision <= clock'
    BY <2>2, <2>3 DEF TypeOK, edits
  <2>6. \A u \in Tasks : RebuildInv(u)'
    BY <1>10, ReturnInv DEF Publish
  <2> QED
    BY <2>4, <2>5, <2>6
<1>11. ASSUME NEW d \in Docs, WriteDisk(d) PROVE WorkspaceInv'
  BY <1>11, TaskFrame, PublishedFrame DEF WriteDisk, edits, task
<1>12. CASE UNCHANGED vars
  BY <1>12, TaskFrame, PublishedFrame DEF vars, edits
<1> QED
  BY <1>1, <1>2, <1>3, <1>4, <1>5, <1>6, <1>7, <1>8, <1>9, <1>10, <1>11,
     <1>12
     DEF Next, Edit, Run, Open, Change, Close

\* While a rebuild's context is good, its copy is of the present overlays and
\* nothing it reached was skipped: what every publication relies on.
THEOREM InvHolds == Spec => []WorkspaceInv
<1>1. Init => TypeOK /\ WorkspaceInv
  BY InitType, InitInv
<1>2. TypeOK /\ WorkspaceInv /\ [Next]_vars => (TypeOK /\ WorkspaceInv)'
  BY StepType, StepInv
<1> QED
  BY <1>1, <1>2, PTL DEF Spec

\* A snapshot that carries the present revision is a complete reading of the
\* present overlays, whatever the interleaving of editors and rebuilds.
THEOREM Coherent == Spec => []PublishedCoherent
<1>1. WorkspaceInv => PublishedCoherent
  BY DEF WorkspaceInv
<1> QED
  BY <1>1, InvHolds, PTL

----------------------------------------------------------------------------
(* What a step may do to the published snapshot.                           *)

LEMMA OnlyPublishPublishes ==
  ASSUME TypeOK, [Next]_vars, published' # published
  PROVE  \E t \in Tasks : Publish(t)
BY DEF Next, Edit, Run, Open, Change, Close, Insert, Advance, StartRebuild,
       Cancel, Abandon, EngineFails, CopyOverlays, LoadModule, SkipModule,
       FinishLoad, WriteDisk, vars

\* Rebuilds that overlap never replace a snapshot by an older one.
THEOREM NeverOlder == Spec => PublishedNeverOlder
<1>1. TypeOK /\ WorkspaceInv /\ [Next]_vars =>
        [published # NoSnapshot =>
            /\ published' # NoSnapshot
            /\ published'.revision >= published.revision]_vars
  <2> SUFFICES ASSUME TypeOK, WorkspaceInv, [Next]_vars,
                      published # NoSnapshot
               PROVE  /\ published' # NoSnapshot
                      /\ published'.revision >= published.revision
    OBVIOUS
  <2>1. published.revision \in Nat /\ published.revision <= clock
    BY DEF TypeOK, WorkspaceInv, Abs!Snapshots
  <2>2. CASE published' = published
    BY <2>1, <2>2
  <2>3. CASE published' # published
    <3>1. PICK t \in Tasks : Publish(t)
      BY <2>3, OnlyPublishPublishes
    <3>2. published' \in Abs!Snapshots /\ published'.revision = clock
      BY <3>1 DEF TypeOK, Publish, CheckOK, Abs!Snapshots
    <3> QED
      BY <2>1, <3>2, ServiceAssumption DEF TypeOK, Abs!ConstantsOK
  <2> QED
    BY <2>2, <2>3
<1> QED
  BY <1>1, TypeCorrect, InvHolds, PTL DEF Spec, PublishedNeverOlder

----------------------------------------------------------------------------
(* The refinement.                                                         *)

\* An insertion is the abstract edit: the overlay's text changes and, with
\* the lock taken, the abstract revision is one ahead of the clock.
LEMMA InsertIsEdit ==
  ASSUME TypeOK, NEW e \in Editors, NEW d \in Docs,
         NEW document \in Documents \cup {Closed}, Insert(e, d, document)
  PROVE  Abs!Edit
<1> DEFINE text == IF document = Closed THEN Closed ELSE document.text
<1>1. text \in Texts \cup {Closed}
  BY DEF Documents
<1>2. OverlayTexts' = [OverlayTexts EXCEPT ![d] = text]
  BY DEF TypeOK, Insert, OverlayTexts
<1>3. lock = Free /\ lock' # Free /\ clock' = clock /\ published' = published
  BY BoundsAssumption DEF Insert
<1> QED
  BY <1>1, <1>2, <1>3 DEF Abs!Edit

LEMMA PublishIsPublish ==
  ASSUME TypeOK, WorkspaceInv, NEW t \in Tasks, Publish(t)
  PROVE  Abs!Publish
<1>1. published' \in Abs!Snapshots /\ published'.revision = clock
  BY DEF TypeOK, Publish, CheckOK, Abs!Snapshots
<1>2. Abs!Complete(published'.sources, OverlayTexts)
  BY ReadyIsComplete DEF WorkspaceInv, Publish
<1>3. lock = Free /\ UNCHANGED edits /\ OverlayTexts' = OverlayTexts
  BY DEF Publish, Return, edits, OverlayTexts
<1> QED
  BY <1>1, <1>2, <1>3 DEF Abs!Publish, edits

\* The workspace implements the snapshot service: however its lock, clock
\* and tasks interleave, an editor sees edits happen one revision at a time
\* and only complete snapshots of the revision they carry.
THEOREM Implements == Spec => ImplementsService
<1>1. Init => Abs!Init
  BY DEF Init, Abs!Init, OverlayTexts, NothingOpen
<1>2. TypeOK /\ WorkspaceInv /\ [Next]_vars => [Abs!Next]_(Abs!vars)
  <2> SUFFICES ASSUME TypeOK, WorkspaceInv, [Next]_vars
               PROVE  [Abs!Next]_(Abs!vars)
    OBVIOUS
  <2>1. ASSUME NEW e \in Editors, NEW d \in Docs,
               NEW document \in Documents \cup {Closed},
               Insert(e, d, document)
        PROVE  Abs!Next
    BY <2>1, InsertIsEdit DEF Abs!Next
  <2>2. ASSUME NEW e \in Editors, Advance(e) PROVE UNCHANGED Abs!vars
    BY <2>2, BoundsAssumption DEF Advance, Abs!vars, OverlayTexts
  <2>3. ASSUME NEW t \in Tasks, Publish(t) PROVE Abs!Next
    BY <2>3, PublishIsPublish DEF Abs!Next
  <2>4. ASSUME UNCHANGED edits, UNCHANGED published PROVE UNCHANGED Abs!vars
    BY <2>4 DEF edits, Abs!vars, OverlayTexts
  <2>5. ASSUME NEW t \in Tasks, StartRebuild(t) \/ Cancel(t) \/ Run(t),
               ~Publish(t)
        PROVE  UNCHANGED edits /\ UNCHANGED published
    BY <2>5 DEF Run, StartRebuild, Cancel, Abandon, EngineFails,
                CopyOverlays, LoadModule, SkipModule, FinishLoad, Return,
                edits
  <2>6. ASSUME NEW d \in Docs, WriteDisk(d) PROVE UNCHANGED Abs!vars
    BY <2>6, <2>4 DEF WriteDisk, edits
  <2>7. CASE UNCHANGED vars
    BY <2>4, <2>7 DEF vars, edits
  <2> QED
    BY <2>1, <2>2, <2>3, <2>4, <2>5, <2>6, <2>7
       DEF Next, Edit, Open, Change, Close
<1> QED
  BY <1>1, <1>2, TypeCorrect, InvHolds, PTL
     DEF Spec, ImplementsService, Abs!Spec
=============================================================================
