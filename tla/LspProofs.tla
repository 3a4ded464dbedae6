------------------------------ MODULE LspProofs ------------------------------
(***************************************************************************)
(* Theorems about LspServer, for any documents, edits and requests.        *)
(*                                                                         *)
(* The registry owns exactly the tokens of the active requests when the    *)
(* client keeps its ids apart.  What the editor is shown, and what it is   *)
(* answered, is of the texts it holds: the three texts of a document - the *)
(* editor's, the overlay, the copy of the current rebuild - agree, and no  *)
(* snapshot claims a revision it was not read at.                          *)
(***************************************************************************)
EXTENDS LspServer, TLAPS

\* No document is opened by a path that is a symbolic link to another one.
NoLinks == Aliases = {}

\* canonicalize answers for every file of the editor.
AllReadable == Unreadable = {}

----------------------------------------------------------------------------
(* The invariants.                                                         *)

\* A registered token is that of a query under the id, and not cancelled.
PendingIsLive ==
    \A i \in Ids : pending[i] # NoRequest =>
        /\ rphase[pending[i]] = "query"
        /\ rid[pending[i]] = i
        /\ ~cancelled[pending[i]]

\* A query that is not cancelled is registered, in a server not shut down.
QueryIsRegistered ==
    \A r \in Requests : rphase[r] = "query" /\ ~cancelled[r] =>
        /\ pending[rid[r]] = r
        /\ lifecycle # "shutdown"

\* A future that was never polled has no token to cancel.
ArrivedIsLive ==
    \A r \in Requests : rphase[r] = "arrived" => ~cancelled[r]

\* The ids of the requests in flight differ.
IdsApart ==
    \A q, r \in Requests :
        rphase[q] # "none" /\ rphase[r] # "none" /\ rid[q] = rid[r] => q = r

Registry == PendingIsLive /\ QueryIsRegistered /\ ArrivedIsLive /\ IdsApart

\* Before the first accepted edit nothing is open; after it there is a root.
EditsNeedRoot ==
    /\ lifecycle = "uninitialized" => clock = 0
    /\ clock > 0 => root # NoRoot
    /\ clock = 0 => \A d \in Docs : documents[d] = NotOpen

\* A document the server has registered is the editor's, and the overlay is
\* its text; only one that cannot be read is open at the editor alone.
DocumentsAgree ==
    \A d \in Docs :
        /\ documents[d] = NotOpen <=> overlays[d] = Closed
        /\ documents[d] # NotOpen =>
              /\ client[d] = overlays[d]
              /\ overlays[d].version = documents[d]
        /\ d \in Unreadable => documents[d] = NotOpen
        /\ d \notin Unreadable =>
              (client[d] = NotOpen <=> documents[d] = NotOpen)

\* What a build of the root reads now.
Present == Reading(root, OverlayTexts)

\* Each edit has its rebuild, whose context is no older than the edit.
TasksFollowEdits ==
    \A k \in Edits :
        /\ tphase[k] = "none" <=> k > clock
        /\ tphase[k] \in {"started", "building"} =>
              k <= tctx[k] /\ tctx[k] <= clock
        /\ tphase[k] = "building" /\ tctx[k] = clock => tcopy[k] = OverlayTexts

\* A snapshot of the present revision is a reading of the present overlays.
Faithful(snapshot) ==
    /\ 0 < snapshot.revision
    /\ snapshot.revision <= clock
    /\ snapshot.revision = clock => snapshot.sources = Present

SnapshotsFaithful ==
    /\ published # NoSnapshot => Faithful(published)
    /\ \A r \in Requests : snap[r] # NoSnapshot => Faithful(snap[r])

\* The snapshot a query holds.
QueryHasSnapshot ==
    \A r \in Requests : rphase[r] = "query" => snap[r] # NoSnapshot

\* Once the rebuild of the last edit has ended well, everything it reaches is
\* diagnosed.
LastEditDiagnosed ==
    clock > 0 /\ (\A k \in Edits : k = clock => tphase[k] = "done") =>
        \A d \in Docs :
            documents[d] # NotOpen /\ d \in DOMAIN Present =>
                shown[d] = [version |-> documents[d], text |-> Present[d]]

Editing ==
    /\ EditsNeedRoot
    /\ DocumentsAgree
    /\ TasksFollowEdits
    /\ SnapshotsFaithful
    /\ QueryHasSnapshot
    /\ LastEditDiagnosed

----------------------------------------------------------------------------
(* Readings and types.                                                     *)

\* A reading holds documents, each with its overlay text if it has one.
LEMMA ReadingHoldsTexts ==
    ASSUME NEW r, NEW texts \in [Docs -> Texts \cup {Closed}]
    PROVE  /\ DOMAIN Reading(r, texts) \subseteq Docs
           /\ Reading(r, texts) \in [DOMAIN Reading(r, texts) -> Readable]
           /\ \A d \in DOMAIN Reading(r, texts) :
                 texts[d] # Closed => Reading(r, texts)[d] = texts[d]
<1> DEFINE source == [d \in Docs |->
              IF texts[d] = Closed THEN OnDisk[d] ELSE texts[d]]
           imports(d) == IF source[d] = Missing THEN {} ELSE Imports[source[d]]
           closed == {S \in SUBSET Docs :
              r \in S /\ \A d \in S : imports(d) \subseteq S}
           reached == {d \in Docs : \A S \in closed : d \in S}
<1>1. Reading(r, texts) = [d \in reached |-> source[d]]
  BY DEF Reading
<1>2. reached \subseteq Docs
  OBVIOUS
<1>3. \A d \in Docs : source[d] \in Readable
                      /\ (texts[d] # Closed => source[d] = texts[d])
  BY PathsAssumption DEF Readable
<1> HIDE DEF reached, source
<1> QED BY <1>1, <1>2, <1>3

LEMMA ReadingIsSource ==
    ASSUME NEW r, NEW texts \in [Docs -> Texts \cup {Closed}]
    PROVE  Reading(r, texts) \in Sources
<1>1. DOMAIN Reading(r, texts) \in SUBSET Docs
  BY ReadingHoldsTexts
<1>2. Reading(r, texts) \in [DOMAIN Reading(r, texts) -> Readable]
  BY ReadingHoldsTexts
<1> QED BY <1>1, <1>2 DEF Sources

\* The copy of the overlays is of the texts they hold.
LEMMA OverlayTextsHold ==
    ASSUME TypeOK
    PROVE  /\ OverlayTexts \in [Docs -> Texts \cup {Closed}]
           /\ \A d \in Docs : overlays[d] # Closed =>
                 /\ overlays[d] \in Document
                 /\ OverlayTexts[d] = overlays[d].text
                 /\ OverlayTexts[d] # Closed
<1>1. ASSUME NEW d \in Docs
      PROVE  /\ OverlayTexts[d] \in Texts \cup {Closed}
             /\ overlays[d] # Closed =>
                   /\ overlays[d] \in Document
                   /\ OverlayTexts[d] = overlays[d].text
                   /\ OverlayTexts[d] # Closed
  <2>1. overlays[d] \in Document \cup {Closed}
    BY DEF TypeOK
  <2>2. OverlayTexts[d] = IF overlays[d] = Closed THEN Closed
                          ELSE overlays[d].text
    BY DEF OverlayTexts
  <2>3. overlays[d] \in Document => overlays[d].text \in Texts
    BY DEF Document
  <2> QED BY <2>1, <2>2, <2>3, AbsenceAssumption
<1>2. OverlayTexts = [d \in Docs |-> OverlayTexts[d]]
  BY DEF OverlayTexts
<1> QED BY <1>1, <1>2

LEMMA InitType == Init => TypeOK
BY PathsAssumption DEF Init, TypeOK, NoTexts, Responses

LEMMA AcceptType ==
    ASSUME TypeOK, NEW p \in Paths, NEW overlay \in Document \cup {Closed},
           NEW version \in Versions \cup {NotOpen},
           Accept(p, overlay, version),
           root' \in Docs \cup {NoRoot},
           client' \in [Paths -> Document \cup {NotOpen}]
    PROVE  TypeOK'
<1>1. clock' \in 0..MaxRevision
  BY PathsAssumption DEF TypeOK, Accept
<1>2. overlays' \in [Docs -> Document \cup {Closed}]
  BY PathsAssumption DEF TypeOK, Accept
<1>3. documents' \in [Paths -> Versions \cup {NotOpen}]
  BY DEF TypeOK, Accept
<1>4. tphase' \in [Edits -> {"none", "scheduled", "started", "building",
                             "done", "failed"}]
  BY DEF TypeOK, Accept
<1> QED BY <1>1, <1>2, <1>3, <1>4 DEF TypeOK, Accept, requests

LEMMA NotificationType ==
    ASSUME TypeOK, NEW p \in Paths, Notification(p)
    PROVE  TypeOK'
<1>1. ASSUME NEW c \in Document \cup {NotOpen},
             client' = [client EXCEPT ![p] = c]
      PROVE  client' \in [Paths -> Document \cup {NotOpen}]
  BY <1>1 DEF TypeOK
<1>2. ASSUME Refuse, client' \in [Paths -> Document \cup {NotOpen}]
      PROVE  TypeOK'
  BY <1>2 DEF TypeOK, Refuse, workspace, tasks, requests
<1>3. ASSUME Panic, client' \in [Paths -> Document \cup {NotOpen}]
      PROVE  TypeOK'
  BY <1>3 DEF TypeOK, Panic, workspace, tasks, requests
<1>4. Canon[p] \in Docs /\ root \in Docs \cup {NoRoot}
  BY PathsAssumption DEF TypeOK
<1>5. CASE DidOpen(p)
  <2> PICK document \in Document :
         /\ client' = [client EXCEPT ![p] = document]
         /\ \/ Refuse
            \/ /\ root' = IF root = NoRoot THEN Canon[p] ELSE root
               /\ Accept(p, document, document.version)
    BY <1>5 DEF DidOpen
  <2>1. document.version \in Versions
    BY DEF Document
  <2> QED BY <2>1, <1>1, <1>2, <1>4, AcceptType
<1>6. CASE DidChange(p)
  <2> PICK document \in Document :
         /\ client' = [client EXCEPT ![p] = document]
         /\ \/ Panic
            \/ Refuse
            \/ Accept(p, document, document.version) /\ root' = root
    BY <1>6 DEF DidChange
  <2>1. document.version \in Versions
    BY DEF Document
  <2> QED BY <2>1, <1>1, <1>2, <1>3, <1>4, AcceptType
<1>7. CASE DidClose(p)
  BY <1>7, <1>1, <1>2, <1>3, <1>4, AcceptType DEF DidClose
<1> QED BY <1>5, <1>6, <1>7 DEF Notification

LEMMA TaskType ==
    ASSUME TypeOK, NEW k \in Edits, RunTask(k)
    PROVE  TypeOK'
<1> USE DEF TypeOK, workspace, editing, tasks, requests
<1>1. CASE StartTask(k)
  BY <1>1 DEF StartTask
<1>2. CASE CopyTask(k)
  BY <1>2, OverlayTextsHold DEF CopyTask
<1>3. CASE DropTask(k)
  BY <1>3 DEF DropTask
<1>4. CASE FailTask(k)
  BY <1>4 DEF FailTask
<1>5. CASE FinishTask(k)
  <2> DEFINE sources == Reading(root, tcopy[k])
  <2>1. /\ sources \in Sources
        /\ sources \in [DOMAIN sources -> Readable]
    BY ReadingIsSource, ReadingHoldsTexts
  <2> HIDE DEF sources
  <2>2. published' = [revision |-> tctx[k], sources |-> sources]
        /\ Diagnose(sources)
    BY <1>5 DEF FinishTask, sources
  <2>3. published' \in Snapshots
    BY <2>1, <2>2 DEF Snapshots
  <2>4. shown' \in [Paths -> [version : Versions, text : Readable]
                                 \cup {NothingShown}]
    BY <2>1, <2>2 DEF Diagnose
  <2>5. tphase' \in [Edits -> {"none", "scheduled", "started", "building",
                               "done", "failed"}]
    BY <1>5 DEF FinishTask
  <2> QED BY <1>5, <2>3, <2>4, <2>5 DEF FinishTask
<1> QED BY <1>1, <1>2, <1>3, <1>4, <1>5 DEF RunTask

LEMMA RespondType ==
    ASSUME TypeOK, NEW r \in Requests, NEW response \in Responses,
           Respond(r, response),
           pending' \in [Ids -> Requests \cup {NoRequest}]
    PROVE  TypeOK'
BY DEF TypeOK, Respond, workspace, editing, tasks

LEMMA RequestType ==
    ASSUME TypeOK,
           \/ \E r \in Requests, i \in Ids : Arrive(r, i)
           \/ \E r \in Requests : PollRequest(r)
           \/ \E i \in Ids : CancelRequest(i)
    PROVE  TypeOK'
<1>1. ASSUME NEW r \in Requests, NEW i \in Ids, Arrive(r, i) PROVE TypeOK'
  BY <1>1 DEF TypeOK, Arrive, Responses, workspace, editing, tasks
<1>2. ASSUME NEW r \in Requests, RejectRequest(r) PROVE TypeOK'
  BY <1>2, RespondType DEF RejectRequest, Responses, TypeOK
<1>3. ASSUME NEW r \in Requests, FailRequest(r) PROVE TypeOK'
  BY <1>3, RespondType DEF FailRequest, Responses, TypeOK
<1>4. ASSUME NEW r \in Requests, StartRequest(r) PROVE TypeOK'
  BY <1>4 DEF TypeOK, StartRequest, workspace, editing, tasks
<1>5. ASSUME NEW r \in Requests, FinishRequest(r) PROVE TypeOK'
  <2>1. Outcome(r) \in Responses
    BY DEF Outcome, Responses
  <2>2. pending' \in [Ids -> Requests \cup {NoRequest}]
    BY <1>5 DEF FinishRequest, TypeOK
  <2> QED BY <1>5, <2>1, <2>2, RespondType DEF FinishRequest
<1>6. ASSUME NEW i \in Ids, CancelRequest(i) PROVE TypeOK'
  <2>1. cancelled' \in [Requests -> BOOLEAN]
    BY <1>6 DEF CancelRequest, TypeOK
  <2> QED BY <1>6, <2>1
      DEF TypeOK, CancelRequest, workspace, editing, tasks
<1> QED BY <1>1, <1>2, <1>3, <1>4, <1>5, <1>6 DEF PollRequest

LEMMA LifecycleType ==
    ASSUME TypeOK, Initialize \/ Initialized \/ Shutdown \/ Exit
    PROVE  TypeOK'
<1>1. CancelAll => /\ cancelled' \in [Requests -> BOOLEAN]
                   /\ pending' \in [Ids -> Requests \cup {NoRequest}]
  BY DEF CancelAll, TypeOK
<1> QED BY <1>1, PathsAssumption
        DEF TypeOK, Initialize, Initialized, Shutdown, Exit, workspace,
            editing, tasks, requests

LEMMA StepType == TypeOK /\ [Next]_vars => TypeOK'
<1>1. UNCHANGED vars /\ TypeOK => TypeOK'
  BY DEF vars, TypeOK
<1> QED BY <1>1, LifecycleType, NotificationType, TaskType, RequestType
        DEF Next

\* The state of the server and of its client is of its type.
THEOREM LspTypeCorrect == Spec => []TypeOK
BY InitType, StepType, PTL DEF Spec

----------------------------------------------------------------------------
(* The registry of requests.                                               *)

LEMMA InitRegistry == Init => Registry
BY DEF Init, Registry, PendingIsLive, QueryIsRegistered, ArrivedIsLive,
       IdsApart

\* What leaves the requests alone leaves the registry in order.
LEMMA OthersKeepRegistry ==
    ASSUME Registry, UNCHANGED requests,
           lifecycle' = lifecycle \/ lifecycle' # "shutdown"
    PROVE  Registry'
BY DEF requests, Registry, PendingIsLive, QueryIsRegistered, ArrivedIsLive,
       IdsApart

\* cancel_all: no token is left, and no query is left uncancelled.
LEMMA CancelAllKeepsRegistry ==
    ASSUME TypeOK, Registry, CancelAll, UNCHANGED <<rphase, rid>>
    PROVE  Registry'
<1> USE DEF TypeOK, CancelAll
<1>1. PendingIsLive'
  BY DEF PendingIsLive
<1>2. QueryIsRegistered'
  BY DEF Registry, QueryIsRegistered
<1>3. ArrivedIsLive'
  <2> SUFFICES ASSUME NEW r \in Requests, rphase[r] = "arrived"
               PROVE  ~cancelled'[r]
    BY DEF ArrivedIsLive
  <2>1. \A i \in Ids : pending[i] # r
    BY AbsenceAssumption DEF Registry, PendingIsLive
  <2> QED BY <2>1 DEF Registry, ArrivedIsLive
<1>4. IdsApart'
  BY DEF Registry, IdsApart
<1> QED BY <1>1, <1>2, <1>3, <1>4 DEF Registry

LEMMA ArriveKeepsRegistry ==
    ASSUME TypeOK, Registry, UniqueIds, NEW r \in Requests, NEW i \in Ids,
           Arrive(r, i)
    PROVE  Registry'
<1> USE DEF TypeOK, Arrive
<1>1. \A j \in Ids : pending[j] # r
  BY AbsenceAssumption DEF Registry, PendingIsLive
<1>2. PendingIsLive'
  BY <1>1 DEF Registry, PendingIsLive
<1>3. QueryIsRegistered'
  BY DEF Registry, QueryIsRegistered
<1>4. ArrivedIsLive'
  BY DEF Registry, ArrivedIsLive
<1>5. IdsApart'
  BY DEF Registry, IdsApart
<1> QED BY <1>2, <1>3, <1>4, <1>5 DEF Registry

\* A future that ends before it is registered.
LEMMA RefusalKeepsRegistry ==
    ASSUME TypeOK, Registry, NEW r \in Requests, rphase[r] = "arrived",
           NEW response, Respond(r, response), UNCHANGED pending
    PROVE  Registry'
<1> USE DEF TypeOK, Respond
<1>1. \A j \in Ids : pending[j] # r
  BY AbsenceAssumption DEF Registry, PendingIsLive
<1>2. PendingIsLive'
  BY <1>1 DEF Registry, PendingIsLive
<1>3. QueryIsRegistered'
  BY DEF Registry, QueryIsRegistered
<1>4. ArrivedIsLive'
  BY DEF Registry, ArrivedIsLive
<1>5. IdsApart'
  BY DEF Registry, IdsApart
<1> QED BY <1>2, <1>3, <1>4, <1>5 DEF Registry

LEMMA StartKeepsRegistry ==
    ASSUME TypeOK, Registry, NEW r \in Requests, StartRequest(r)
    PROVE  Registry'
<1> USE DEF TypeOK, StartRequest
<1>1. rid[r] \in Ids /\ ~cancelled[r]
  BY DEF Registry, ArrivedIsLive
<1>2. PendingIsLive'
  BY <1>1 DEF Registry, PendingIsLive
<1>3. QueryIsRegistered'
  BY <1>1, AbsenceAssumption DEF Registry, QueryIsRegistered
<1>4. ArrivedIsLive'
  BY DEF Registry, ArrivedIsLive
<1>5. IdsApart'
  BY DEF Registry, IdsApart
<1> QED BY <1>2, <1>3, <1>4, <1>5 DEF Registry

\* The entry a query removes on completion is its own, or already removed:
\* no other request in flight has its id.
LEMMA FinishKeepsRegistry ==
    ASSUME TypeOK, Registry, NEW r \in Requests, FinishRequest(r)
    PROVE  Registry'
<1> USE DEF TypeOK, FinishRequest, Respond
<1>1. \A j \in Ids : pending[j] = r => j = rid[r]
  BY AbsenceAssumption DEF Registry, PendingIsLive
<1>2. PendingIsLive'
  BY <1>1 DEF Registry, PendingIsLive
<1>3. QueryIsRegistered'
  BY DEF Registry, QueryIsRegistered, IdsApart
<1>4. ArrivedIsLive'
  BY DEF Registry, ArrivedIsLive
<1>5. IdsApart'
  BY DEF Registry, IdsApart
<1> QED BY <1>2, <1>3, <1>4, <1>5 DEF Registry

LEMMA CancelKeepsRegistry ==
    ASSUME TypeOK, Registry, NEW i \in Ids, CancelRequest(i)
    PROVE  Registry'
<1> USE DEF TypeOK, CancelRequest
<1>1. PendingIsLive'
  BY AbsenceAssumption DEF Registry, PendingIsLive
<1>2. QueryIsRegistered'
  BY DEF Registry, QueryIsRegistered
<1>3. ArrivedIsLive'
  BY AbsenceAssumption DEF Registry, ArrivedIsLive, PendingIsLive
<1>4. IdsApart'
  BY DEF Registry, IdsApart
<1> QED BY <1>1, <1>2, <1>3, <1>4 DEF Registry

LEMMA NotificationKeepsRequests ==
    ASSUME NEW p \in Paths, Notification(p)
    PROVE  UNCHANGED requests /\ (lifecycle' = lifecycle
                                  \/ lifecycle' # "shutdown")
BY DEF Notification, DidOpen, DidChange, DidClose, Accept, Refuse, Panic

LEMMA TaskKeepsRequests ==
    ASSUME NEW k \in Edits, RunTask(k)
    PROVE  UNCHANGED requests /\ lifecycle' = lifecycle
BY DEF RunTask, StartTask, CopyTask, DropTask, FailTask, FinishTask

LEMMA StepRegistry ==
    ASSUME UniqueIds, TypeOK, Registry, [Next]_vars
    PROVE  Registry'
<1>1. CASE Initialize \/ Initialized
  BY <1>1, OthersKeepRegistry DEF Initialize, Initialized
<1>2. CASE Shutdown \/ Exit
  BY <1>2, CancelAllKeepsRegistry DEF Shutdown, Exit
<1>3. CASE \E p \in Paths : Notification(p)
  BY <1>3, OthersKeepRegistry, NotificationKeepsRequests
<1>4. CASE \E k \in Edits : RunTask(k)
  BY <1>4, OthersKeepRegistry, TaskKeepsRequests
<1>5. CASE \E r \in Requests, i \in Ids : Arrive(r, i)
  BY <1>5, ArriveKeepsRegistry
<1>6. CASE \E r \in Requests : PollRequest(r)
  BY <1>6, RefusalKeepsRegistry, StartKeepsRegistry, FinishKeepsRegistry
     DEF PollRequest, RejectRequest, FailRequest
<1>7. CASE \E i \in Ids : CancelRequest(i)
  BY <1>7, CancelKeepsRegistry
<1>8. CASE UNCHANGED vars
  BY <1>8, OthersKeepRegistry DEF vars, requests
<1> QED BY <1>1, <1>2, <1>3, <1>4, <1>5, <1>6, <1>7, <1>8 DEF Next

\* As long as the client keeps the ids of its requests apart, the registry
\* has the token of each query until the query is cancelled, and a shutdown
\* leaves none uncancelled.
THEOREM RegistryHolds ==
    ASSUME UniqueIds
    PROVE  Spec => []RegistryOwnsActive
<1>1. TypeOK /\ Registry => RegistryOwnsActive
  BY AbsenceAssumption DEF TypeOK, Registry, RegistryOwnsActive,
     PendingIsLive, QueryIsRegistered
<1>2. TypeOK /\ Registry /\ [Next]_vars => Registry'
  BY StepRegistry
<1> QED BY <1>1, <1>2, InitRegistry, LspTypeCorrect, PTL DEF Spec

----------------------------------------------------------------------------
(* Editing, rebuilding and diagnosing.                                     *)

LEMMA InitEditing == Init => Editing
<1>1. Init => \A d \in Docs : d \in Paths
  BY DEF Paths
<1>2. \A k \in Edits : k > 0
  BY DEF Edits
<1> QED BY <1>1, <1>2, PathsAssumption
        DEF Init, Editing, EditsNeedRoot, DocumentsAgree, TasksFollowEdits,
            SnapshotsFaithful, QueryHasSnapshot, LastEditDiagnosed

\* Without links a path is its own canonical path.
LEMMA PathsAreDocs ==
    ASSUME NoLinks
    PROVE  Paths = Docs /\ \A p \in Paths : Canon[p] = p
BY PathsAssumption DEF NoLinks, Paths

LEMMA PresentKept ==
    ASSUME UNCHANGED <<root, overlays>>
    PROVE  OverlayTexts' = OverlayTexts /\ Present' = Present
BY DEF Present, OverlayTexts, Reading

\* A step of the requests, or of the lifecycle, that touches no text.
LEMMA OthersKeepEditing ==
    ASSUME TypeOK, Editing, UNCHANGED <<clock, overlays, published, editing>>,
           UNCHANGED tasks, lifecycle' # "uninitialized" \/ UNCHANGED lifecycle,
           UNCHANGED root \/ clock = 0,
           \A r \in Requests : rphase'[r] = "query" => snap'[r] # NoSnapshot,
           \A r \in Requests : snap'[r] # NoSnapshot =>
              snap'[r] = snap[r] \/ snap'[r] = published
    PROVE  Editing'
<1> USE DEF editing, tasks
<1>1. EditsNeedRoot'
  BY DEF Editing, EditsNeedRoot
<1>2. DocumentsAgree'
  BY DEF Editing, DocumentsAgree
<1>3. OverlayTexts' = OverlayTexts
  BY DEF OverlayTexts
<1>4. TasksFollowEdits'
  BY <1>3 DEF Editing, TasksFollowEdits
<1>5. Present' = Present \/ clock = 0
  BY PresentKept
<1>6. SnapshotsFaithful'
  BY <1>5 DEF Editing, SnapshotsFaithful, Faithful, TypeOK
<1>7. QueryHasSnapshot'
  BY DEF QueryHasSnapshot
<1>8. LastEditDiagnosed'
  BY <1>5 DEF Editing, LastEditDiagnosed
<1> QED BY <1>1, <1>2, <1>4, <1>6, <1>7, <1>8 DEF Editing

\* An accepted edit: the registered document, the overlay and the editor's
\* text change together, every context is now old, and a rebuild is due.
LEMMA AcceptKeepsEditing ==
    ASSUME NoLinks, TypeOK, Editing, NEW p \in Paths, p \notin Unreadable,
           NEW document \in Document \cup {NotOpen},
           NEW overlay, NEW version, Accept(p, overlay, version),
           client' = [client EXCEPT ![p] = document],
           \/ document = NotOpen /\ overlay = Closed /\ version = NotOpen
           \/ document # NotOpen /\ overlay = document
              /\ version = document.version,
           lifecycle # "uninitialized", root' # NoRoot
    PROVE  Editing'
<1> USE PathsAreDocs, PathsAssumption DEF Accept, TypeOK
<1>1. clock \in Nat /\ clock' = clock + 1 /\ clock' \in Edits
  BY DEF Edits
<1>2. EditsNeedRoot'
  BY <1>1 DEF Editing, EditsNeedRoot
<1>3. DocumentsAgree'
  <2> SUFFICES ASSUME NEW d \in Docs
               PROVE  /\ documents'[d] = NotOpen <=> overlays'[d] = Closed
                      /\ documents'[d] # NotOpen =>
                            /\ client'[d] = overlays'[d]
                            /\ overlays'[d].version = documents'[d]
                      /\ d \in Unreadable => documents'[d] = NotOpen
                      /\ d \notin Unreadable =>
                            (client'[d] = NotOpen <=> documents'[d] = NotOpen)
    BY DEF DocumentsAgree
  <2>1. CASE d = p
    BY <2>1, AbsenceAssumption DEF Document
  <2>2. CASE d # p
    BY <2>2 DEF Editing, DocumentsAgree
  <2> QED BY <2>1, <2>2
<1>4. TasksFollowEdits'
  <2> SUFFICES ASSUME NEW k \in Edits
               PROVE  /\ tphase'[k] = "none" <=> k > clock'
                      /\ tphase'[k] \in {"started", "building"} =>
                            k <= tctx'[k] /\ tctx'[k] < clock'
    BY <1>1 DEF TasksFollowEdits, Edits
  <2>1. k \in Int /\ tctx[k] \in Int
    BY DEF Edits
  <2> QED BY <1>1, <2>1 DEF Editing, TasksFollowEdits
<1>5. SnapshotsFaithful'
  <2>1. ASSUME NEW s \in Snapshots, Faithful(s) PROVE Faithful(s)'
    BY <1>1, <2>1 DEF Faithful, Snapshots
  <2>2. published' = published /\ snap' = snap
    BY DEF requests
  <2> QED BY <2>1, <2>2 DEF Editing, SnapshotsFaithful
<1>6. QueryHasSnapshot'
  BY DEF Editing, QueryHasSnapshot, requests
<1>7. LastEditDiagnosed'
  BY <1>1 DEF LastEditDiagnosed
<1> QED BY <1>2, <1>3, <1>4, <1>5, <1>6, <1>7 DEF Editing

\* The server refuses, or meets its assertion, only over a document it cannot
\* read.
LEMMA OnlyUnreadableRefused ==
    ASSUME NoLinks, TypeOK, Editing, NEW p \in Paths, p \notin Unreadable
    PROVE  /\ client[p] = NotOpen => documents[p] = NotOpen
           /\ client[p] # NotOpen =>
                 /\ root # NoRoot
                 /\ overlays[Canon[p]] # Closed
                 /\ overlays[Canon[p]].version = client[p].version
BY PathsAreDocs DEF TypeOK, Editing, DocumentsAgree, EditsNeedRoot

LEMMA RefusalKeepsEditing ==
    ASSUME NoLinks, TypeOK, Editing, NEW p \in Paths, p \in Unreadable,
           NEW document, client' = [client EXCEPT ![p] = document],
           Refuse \/ Panic
    PROVE  Editing'
<1> USE PathsAreDocs DEF TypeOK, Refuse, Panic, workspace, tasks
<1>1. EditsNeedRoot'
  BY DEF Editing, EditsNeedRoot
<1>2. DocumentsAgree'
  BY DEF Editing, DocumentsAgree
<1>3. OverlayTexts' = OverlayTexts /\ Present' = Present
  BY PresentKept
<1>4. TasksFollowEdits'
  BY <1>3 DEF Editing, TasksFollowEdits
<1>5. SnapshotsFaithful'
  BY <1>3 DEF Editing, SnapshotsFaithful, Faithful, requests
<1>6. QueryHasSnapshot'
  BY DEF Editing, QueryHasSnapshot, requests
<1>7. LastEditDiagnosed'
  BY <1>3 DEF Editing, LastEditDiagnosed
<1> QED BY <1>1, <1>2, <1>4, <1>5, <1>6, <1>7 DEF Editing

LEMMA NotificationKeepsEditing ==
    ASSUME NoLinks, TypeOK, Editing, NEW p \in Paths, Notification(p)
    PROVE  Editing'
<1>1. lifecycle = "running" /\ root \in Docs \cup {NoRoot} /\ Canon[p] # NoRoot
  BY PathsAssumption, AbsenceAssumption
     DEF TypeOK, Notification, DidOpen, DidChange, DidClose
<1>2. ASSUME p \in Unreadable PROVE Editing'
  <2> USE <1>2
  <2>1. documents[p] = NotOpen /\ overlays[Canon[p]] = Closed
    BY PathsAreDocs DEF Editing, DocumentsAgree
  <2>2. \E document : client' = [client EXCEPT ![p] = document]
                      /\ (Refuse \/ Panic)
    BY <2>1 DEF Notification, DidOpen, DidChange, DidClose
  <2> QED BY <2>2, RefusalKeepsEditing
<1>3. ASSUME p \notin Unreadable, DidOpen(p) PROVE Editing'
  <2> USE <1>3
  <2> PICK document \in Document :
         /\ client' = [client EXCEPT ![p] = document]
         /\ IF documents[p] # NotOpen \/ p \in Unreadable
            THEN Refuse
            ELSE /\ root' = IF root = NoRoot THEN Canon[p] ELSE root
                 /\ Accept(p, document, document.version)
    BY DEF DidOpen
  <2>1. documents[p] = NotOpen
    BY OnlyUnreadableRefused DEF DidOpen
  <2>2. document # NotOpen
    BY AbsenceAssumption
  <2> QED BY <1>1, <2>1, <2>2, AcceptKeepsEditing
<1>4. ASSUME p \notin Unreadable, DidChange(p) PROVE Editing'
  <2> USE <1>4
  <2> PICK document \in Document :
         /\ document.version > client[p].version
         /\ client' = [client EXCEPT ![p] = document]
         /\ IF root = NoRoot THEN Panic
            ELSE IF \/ p \in Unreadable
                    \/ overlays[Canon[p]] = Closed
                    \/ document.version <= overlays[Canon[p]].version
            THEN Refuse
            ELSE Accept(p, document, document.version) /\ UNCHANGED root
    BY DEF DidChange
  <2>1. /\ root # NoRoot
        /\ overlays[Canon[p]] # Closed
        /\ overlays[Canon[p]].version = client[p].version
    BY OnlyUnreadableRefused DEF DidChange
  <2>2. client[p] \in Document
    BY DEF DidChange, TypeOK
  <2>3. document.version \in Int /\ client[p].version \in Int
    BY <2>2, PathsAssumption DEF Document
  <2>4. Accept(p, document, document.version) /\ UNCHANGED root
    BY <2>1, <2>3
  <2>5. document # NotOpen
    BY AbsenceAssumption
  <2> QED BY <1>1, <2>1, <2>4, <2>5, AcceptKeepsEditing
<1>5. ASSUME p \notin Unreadable, DidClose(p) PROVE Editing'
  <2>1. /\ root # NoRoot
        /\ overlays[Canon[p]] # Closed
    BY <1>5, OnlyUnreadableRefused DEF DidClose
  <2> QED BY <1>1, <1>5, <2>1, AcceptKeepsEditing DEF DidClose
<1> QED BY <1>2, <1>3, <1>4, <1>5 DEF Notification

\* A task that only moves on, or ends without publishing.
LEMMA MoveKeepsEditing ==
    ASSUME TypeOK, Editing, NEW k \in Edits,
           StartTask(k) \/ CopyTask(k) \/ DropTask(k) \/ FailTask(k)
    PROVE  Editing'
<1> USE DEF TypeOK, workspace, editing, tasks, requests
<1>1. UNCHANGED <<lifecycle, root, workspace, editing, requests>>
  BY DEF StartTask, CopyTask, DropTask, FailTask
<1>2. EditsNeedRoot'
  BY <1>1 DEF Editing, EditsNeedRoot
<1>3. DocumentsAgree'
  BY <1>1 DEF Editing, DocumentsAgree
<1>4. OverlayTexts' = OverlayTexts /\ Present' = Present
  BY <1>1, PresentKept
<1>5. clock \in Int /\ (\A j \in Edits : tctx[j] \in Int /\ j \in Int)
  BY PathsAssumption DEF Edits
<1>6. TasksFollowEdits'
  <2> SUFFICES ASSUME NEW j \in Edits
               PROVE  /\ tphase'[j] = "none" <=> j > clock
                      /\ tphase'[j] \in {"started", "building"} =>
                            j <= tctx'[j] /\ tctx'[j] <= clock
                      /\ tphase'[j] = "building" /\ tctx'[j] = clock =>
                            tcopy'[j] = OverlayTexts
    BY <1>1, <1>4 DEF TasksFollowEdits
  <2> USE <1>5 DEF Editing, TasksFollowEdits
  <2>1. CASE StartTask(k)
    BY <2>1 DEF StartTask
  <2>2. CASE CopyTask(k)
    BY <2>2 DEF CopyTask
  <2>3. CASE DropTask(k)
    BY <2>3 DEF DropTask
  <2>4. CASE FailTask(k)
    BY <2>4 DEF FailTask
  <2> QED BY <2>1, <2>2, <2>3, <2>4
<1>7. SnapshotsFaithful'
  BY <1>1, <1>4 DEF Editing, SnapshotsFaithful, Faithful
<1>8. QueryHasSnapshot'
  BY <1>1 DEF Editing, QueryHasSnapshot
<1>9. LastEditDiagnosed'
  <2>1. ASSUME k = clock, tphase'[k] = "done" PROVE FALSE
    <3>1. DropTask(k)
      BY <2>1 DEF StartTask, CopyTask, FailTask
    <3>2. tphase[k] \in {"started", "building"} /\ tctx[k] # clock
      BY <3>1 DEF DropTask
    <3>3. k <= tctx[k] /\ tctx[k] <= clock
      BY <3>2 DEF Editing, TasksFollowEdits
    <3>4. tctx[k] \in Int /\ clock \in Int
      BY <1>5
    <3> HIDE DEF TypeOK
    <3> QED BY <2>1, <3>2, <3>3, <3>4
  <2>2. \A j \in Edits : tphase'[j] = tphase[j] \/ j = k
    BY DEF StartTask, CopyTask, DropTask, FailTask
  <2> QED BY <1>1, <1>4, <2>1, <2>2 DEF Editing, LastEditDiagnosed
<1> QED BY <1>2, <1>3, <1>6, <1>7, <1>8, <1>9 DEF Editing

\* What the rebuild that finishes has read is what a build would read now.
LEMMA FinishedIsPresent ==
    ASSUME TypeOK, Editing, NEW k \in Edits, FinishTask(k)
    PROVE  /\ Reading(root, tcopy[k]) = Present
           /\ published' = [revision |-> clock, sources |-> Present]
           /\ Diagnose(Present)
           /\ 0 < clock
<1>1. tcopy[k] = OverlayTexts /\ tctx[k] = clock
  BY DEF FinishTask, Editing, TasksFollowEdits
<1>2. k <= clock /\ 0 < k /\ k \in Int
  BY <1>1 DEF FinishTask, Editing, TasksFollowEdits, Edits
<1>3. Reading(root, tcopy[k]) = Present
  BY <1>1 DEF Present
<1>4. published' = [revision |-> clock, sources |-> Present]
      /\ Diagnose(Present)
  BY <1>1, <1>3 DEF FinishTask
<1>5. 0 < clock
  BY <1>2, PathsAssumption DEF TypeOK
<1> QED BY <1>3, <1>4, <1>5

LEMMA FinishKeepsEditing ==
    ASSUME NoLinks, TypeOK, Editing, NEW k \in Edits, FinishTask(k)
    PROVE  Editing'
<1> USE DEF TypeOK, workspace, editing, tasks, requests
<1>1. UNCHANGED <<lifecycle, root, clock, overlays, documents, client, tctx,
                  tcopy, requests>>
  BY DEF FinishTask
<1>2. EditsNeedRoot'
  BY <1>1 DEF Editing, EditsNeedRoot
<1>3. DocumentsAgree'
  BY <1>1 DEF Editing, DocumentsAgree
<1>4. OverlayTexts' = OverlayTexts /\ Present' = Present
  BY <1>1, PresentKept
<1>5. TasksFollowEdits'
  BY <1>1, <1>4 DEF FinishTask, Editing, TasksFollowEdits
<1>6. SnapshotsFaithful'
  BY <1>1, <1>4, FinishedIsPresent, PathsAssumption
     DEF Editing, SnapshotsFaithful, Faithful
<1>7. QueryHasSnapshot'
  BY <1>1 DEF Editing, QueryHasSnapshot
<1>8. LastEditDiagnosed'
  <2>1. shown' = [p \in Paths |->
           IF documents[p] # NotOpen /\ p \in DOMAIN Present
           THEN [version |-> documents[p], text |-> Present[p]]
           ELSE shown[p]]
    BY FinishedIsPresent DEF Diagnose
  <2> QED BY <1>1, <1>4, <2>1, PathsAreDocs DEF LastEditDiagnosed
<1> QED BY <1>2, <1>3, <1>5, <1>6, <1>7, <1>8 DEF Editing

LEMMA RequestKeepsEditing ==
    ASSUME TypeOK, Editing,
           \/ \E r \in Requests, i \in Ids : Arrive(r, i)
           \/ \E r \in Requests : PollRequest(r)
           \/ \E i \in Ids : CancelRequest(i)
    PROVE  Editing'
<1>1. UNCHANGED <<lifecycle, root, workspace, editing, tasks>>
  BY DEF Arrive, PollRequest, RejectRequest, FailRequest, StartRequest,
         FinishRequest, Respond, CancelRequest
<1>2. /\ \A r \in Requests : rphase'[r] = "query" => snap'[r] # NoSnapshot
      /\ \A r \in Requests : snap'[r] # NoSnapshot =>
            snap'[r] = snap[r] \/ snap'[r] = published
  <2> USE DEF TypeOK, Editing, QueryHasSnapshot
  <2>1. CASE \E r \in Requests, i \in Ids : Arrive(r, i)
    BY <2>1 DEF Arrive
  <2>2. CASE \E r \in Requests : PollRequest(r)
    BY <2>2 DEF PollRequest, RejectRequest, FailRequest, StartRequest,
                FinishRequest, Respond
  <2>3. CASE \E i \in Ids : CancelRequest(i)
    BY <2>3 DEF CancelRequest
  <2> QED BY <2>1, <2>2, <2>3
<1> QED BY <1>1, <1>2, OthersKeepEditing DEF workspace

LEMMA LifecycleKeepsEditing ==
    ASSUME TypeOK, Editing, Initialize \/ Initialized \/ Shutdown \/ Exit
    PROVE  Editing'
<1>1. /\ UNCHANGED <<workspace, editing, tasks, rphase, snap>>
      /\ lifecycle' # "uninitialized"
      /\ UNCHANGED root \/ clock = 0
  BY DEF Initialize, Initialized, Shutdown, Exit, requests, Editing,
         EditsNeedRoot
<1> QED BY <1>1, OthersKeepEditing
        DEF workspace, Editing, QueryHasSnapshot

LEMMA StepEditing ==
    ASSUME NoLinks, TypeOK, Editing, [Next]_vars
    PROVE  Editing'
<1>1. CASE Initialize \/ Initialized \/ Shutdown \/ Exit
  BY <1>1, LifecycleKeepsEditing
<1>2. CASE \E p \in Paths : Notification(p)
  BY <1>2, NotificationKeepsEditing
<1>3. CASE \E k \in Edits : RunTask(k)
  BY <1>3, MoveKeepsEditing, FinishKeepsEditing DEF RunTask
<1>4. CASE \/ \E r \in Requests, i \in Ids : Arrive(r, i)
           \/ \E r \in Requests : PollRequest(r)
           \/ \E i \in Ids : CancelRequest(i)
  BY <1>4, RequestKeepsEditing
<1>5. CASE UNCHANGED vars
  BY <1>5, OthersKeepEditing
     DEF vars, editing, tasks, Editing, QueryHasSnapshot
<1> QED BY <1>1, <1>2, <1>3, <1>4, <1>5 DEF Next

\* Documents, overlays, rebuilds and snapshots agree, whatever the order in
\* which edits arrive and futures are polled.
THEOREM EditingHolds ==
    ASSUME NoLinks
    PROVE  Spec => []Editing
<1>1. TypeOK /\ Editing /\ [Next]_vars => Editing'
  BY StepEditing
<1> QED BY <1>1, InitEditing, LspTypeCorrect, PTL DEF Spec

\* What a build reads of an open document is the editor's own text.
LEMMA PresentIsClients ==
    ASSUME NoLinks, TypeOK, Editing, NEW d \in Docs, documents[d] # NotOpen,
           d \in DOMAIN Present
    PROVE  [version |-> documents[d], text |-> Present[d]] = client[d]
<1>1. /\ overlays[d] # Closed
      /\ client[d] = overlays[d]
      /\ overlays[d].version = documents[d]
  BY DEF Editing, DocumentsAgree
<1>2. overlays[d] \in Document /\ OverlayTexts[d] = overlays[d].text
      /\ OverlayTexts[d] # Closed
  BY <1>1, OverlayTextsHold
<1>3. Present[d] = overlays[d].text
  BY <1>2, OverlayTextsHold, ReadingHoldsTexts DEF Present
<1> QED BY <1>1, <1>2, <1>3 DEF Document

\* Without symbolic links, a diagnostic that reaches the editor is of the
\* text, and has the version, that the editor holds at that moment: the
\* context checked before publication cannot miss an edit.
THEOREM DiagnosticsCurrent ==
    ASSUME NoLinks
    PROVE  Spec => DiagnosticsAreCurrent
<1> DEFINE Current == \A p \in Paths : shown'[p] # shown[p] =>
                                          shown'[p] = client[p]
<1>1. ASSUME TypeOK, Editing, [Next]_vars PROVE [Current]_vars
  <2>1. ASSUME NEW k \in Edits, FinishTask(k) PROVE Current
    <3>1. Diagnose(Present)
      BY <1>1, <2>1, FinishedIsPresent
    <3> QED BY <1>1, <3>1, PresentIsClients, PathsAreDocs DEF Diagnose
  <2>2. ASSUME ~\E k \in Edits : FinishTask(k) PROVE shown' = shown
    <3>1. CASE Initialize \/ Initialized \/ Shutdown \/ Exit
      BY <3>1 DEF Initialize, Initialized, Shutdown, Exit, editing
    <3>2. CASE \E p \in Paths : Notification(p)
      BY <3>2 DEF Notification, DidOpen, DidChange, DidClose, Accept, Refuse,
                  Panic
    <3>3. CASE \E k \in Edits : RunTask(k)
      BY <2>2, <3>3 DEF RunTask, StartTask, CopyTask, DropTask, FailTask,
                        editing
    <3>4. CASE \/ \E r \in Requests, i \in Ids : Arrive(r, i)
               \/ \E r \in Requests : PollRequest(r)
               \/ \E i \in Ids : CancelRequest(i)
      BY <3>4 DEF Arrive, PollRequest, RejectRequest, FailRequest,
                  StartRequest, FinishRequest, Respond, CancelRequest, editing
    <3>5. CASE UNCHANGED vars
      BY <3>5 DEF vars
    <3> QED BY <1>1, <3>1, <3>2, <3>3, <3>4, <3>5 DEF Next
  <2> QED BY <2>1, <2>2
<1> QED BY <1>1, EditingHolds, LspTypeCorrect, PTL
        DEF Spec, DiagnosticsAreCurrent

\* When every rebuild has run and none failed, each open document the root
\* reaches shows diagnostics of its last version: the last edit is answered,
\* although every rebuild but its own may have found itself stale.
THEOREM DiagnosticsCatchUp ==
    ASSUME NoLinks, AllReadable
    PROVE  Spec => []DiagnosticsCaughtUp
<1>1. ASSUME TypeOK, Editing, Settled, NEW p \in Paths, client[p] # NotOpen,
             Canon[p] \in DOMAIN Reading(root, OverlayTexts)
      PROVE  shown[p] = client[p]
  <2>1. p \in Docs /\ p \in DOMAIN Present
    BY <1>1, PathsAreDocs DEF Present
  <2>2. documents[p] # NotOpen
    BY <1>1, <2>1 DEF AllReadable, Editing, DocumentsAgree
  <2>3. clock > 0 /\ clock \in Edits
    BY <1>1, <2>1, <2>2, PathsAssumption
       DEF TypeOK, Editing, EditsNeedRoot, Edits
  <2>4. tphase[clock] = "done"
    BY <1>1, <2>3 DEF Settled, Editing, TasksFollowEdits, Edits
  <2>5. shown[p] = [version |-> documents[p], text |-> Present[p]]
    BY <1>1, <2>1, <2>2, <2>3, <2>4 DEF Editing, LastEditDiagnosed
  <2> QED BY <1>1, <2>1, <2>2, <2>5, PresentIsClients
<1>2. TypeOK /\ Editing => DiagnosticsCaughtUp
  BY <1>1 DEF DiagnosticsCaughtUp
<1> QED BY <1>2, EditingHolds, LspTypeCorrect, PTL

\* An answer is drawn from a complete reading of the editor's texts of the
\* moment it is sent: the revisions compared at the end are enough.
THEOREM AnswersCurrent ==
    ASSUME NoLinks, AllReadable
    PROVE  Spec => AnswersAreCurrent
<1> DEFINE Current == \A r \in Requests :
              rphase[r] = "query" /\ rphase'[r] = "none"
              /\ rresult'[r] = "answer"
                  => snap[r].sources = Reading(root, ClientTexts)
<1>1. ASSUME TypeOK, Editing PROVE OverlayTexts = ClientTexts
  <2>1. \A d \in Docs : /\ client[d] = NotOpen <=> overlays[d] = Closed
                        /\ client[d] # NotOpen => client[d] = overlays[d]
    BY <1>1 DEF AllReadable, Editing, DocumentsAgree
  <2> QED BY <2>1 DEF OverlayTexts, ClientTexts
<1>2. ASSUME TypeOK, Editing, [Next]_vars PROVE [Current]_vars
  <2> SUFFICES ASSUME NEW r \in Requests, rphase[r] = "query",
                      rphase'[r] = "none", rresult'[r] = "answer"
               PROVE  snap[r].sources = Reading(root, ClientTexts)
    OBVIOUS
  <2>1. FinishRequest(r)
    <3>1. \/ \E q \in Requests, i \in Ids : Arrive(q, i)
          \/ \E q \in Requests : PollRequest(q)
          \/ \E i \in Ids : CancelRequest(i)
      BY <1>2, NotificationKeepsRequests, TaskKeepsRequests
         DEF Next, Initialize, Initialized, Shutdown, Exit, requests, vars
    <3> QED BY <1>2, <3>1
            DEF TypeOK, Arrive, PollRequest, RejectRequest, FailRequest,
                StartRequest, FinishRequest, Respond, CancelRequest
  <2>2. Outcome(r) = "answer"
    BY <1>2, <2>1 DEF FinishRequest, Respond, TypeOK
  <2>3. snap[r].revision = clock
    BY <2>2 DEF Outcome
  <2>4. snap[r].sources = Present
    BY <1>2, <2>3
       DEF Editing, QueryHasSnapshot, SnapshotsFaithful, Faithful
  <2> QED BY <1>1, <1>2, <2>4 DEF Present
<1> QED BY <1>2, EditingHolds, LspTypeCorrect, PTL
        DEF Spec, AnswersAreCurrent

\* The assertion of didChange and didClose cannot fail when every file can be
\* read: it is a document the workspace could not be made for that breaks it.
THEOREM NeverPanics ==
    ASSUME NoLinks, AllReadable
    PROVE  Spec => []RunningHasWorkspace
<1>1. ASSUME TypeOK, Editing, RunningHasWorkspace, [Next]_vars
      PROVE  RunningHasWorkspace'
  <2> USE <1>1 DEF RunningHasWorkspace
  <2>1. ASSUME NEW p \in Paths, Notification(p) PROVE lifecycle' # "panicked"
    <3>1. client[p] # NotOpen => root # NoRoot
      BY OnlyUnreadableRefused DEF AllReadable
    <3> QED BY <2>1, <3>1
            DEF Notification, DidOpen, DidChange, DidClose, Accept, Refuse
  <2>2. CASE Initialize \/ Initialized \/ Shutdown \/ Exit
    BY <2>2 DEF Initialize, Initialized, Shutdown, Exit
  <2>3. CASE \E k \in Edits : RunTask(k)
    BY <2>3, TaskKeepsRequests
  <2>4. CASE \/ \E r \in Requests, i \in Ids : Arrive(r, i)
             \/ \E r \in Requests : PollRequest(r)
             \/ \E i \in Ids : CancelRequest(i)
    BY <2>4 DEF Arrive, PollRequest, RejectRequest, FailRequest,
                StartRequest, FinishRequest, Respond, CancelRequest
  <2>5. CASE UNCHANGED vars
    BY <2>5 DEF vars
  <2> QED BY <2>1, <2>2, <2>3, <2>4, <2>5 DEF Next
<1>2. Init => RunningHasWorkspace
  BY DEF Init, RunningHasWorkspace
<1> QED BY <1>1, <1>2, EditingHolds, LspTypeCorrect, PTL DEF Spec

=============================================================================
