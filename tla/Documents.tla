----------------------------- MODULE Documents -----------------------------
(***************************************************************************)
(* A document with its versions and signatures, and a drawing with its     *)
(* revisions. A call is a sequence of separate queries, one action each:   *)
(*                                                                         *)
(*   upload, supersede  document read -> "store" -> "commit"               *)
(*   sign               version read -> "download" -> "guard" -> "sign"    *)
(*   submit a revision  revision read -> "submit" -> "open"                *)
(*   approval of one    decision -> "converge" -> "construct"              *)
(*                                               [-> "retire"] -> "point"  *)
(*                                                                         *)
(* The file of a version is stored under its number and the name it was    *)
(* uploaded with.                                                          *)
(***************************************************************************)
EXTENDS Naturals, Sequences, FiniteSets

CONSTANTS
    Files,          \* contents of files
    Names,          \* file names
    MaxVersions,    \* bounds the versions of the document
    Revisions,      \* revisions of the drawing
    Requests,       \* the calls that can be in flight at the same time
    MaxSubjects,    \* bounds what is looked at: the document, the drawing or both
    Faults,         \* TRUE: a call may be cut off between two queries
    NoRevision, NoFile, NoWork

ASSUME DocumentsFaults == Faults \in BOOLEAN
ASSUME VersionsAssumption == MaxVersions \in Nat
ASSUME NoRevisionAssumption == NoRevision \notin Revisions

VARIABLES
    document,       \* status and current version (0: none) of the document
    versions,       \* its versions in the order of their ids
    store,          \* the stored file under each number and name
    revision,       \* the status of each revision
    flow,           \* the status of its latest workflow instance
    head,           \* currentRevisionId of the drawing
    work,           \* the calls in flight
    approved,       \* history: the revisions the engine approved
    disturbed,      \* history: subjects with two calls at a time
    halted          \* history: subjects with a call cut off

docVars == <<document, versions, store>>
drawingVars == <<revision, flow, head, approved>>
vars == <<document, versions, store, revision, flow, head, work, approved, disturbed, halted>>

Subjects == {"document", "drawing"}

DocumentStatuses == {"absent", "draft", "in_review", "signed"}

RevisionStatuses == {"absent", "for_information", "for_approval", "for_construction", "superseded"}

FlowStatuses == {"none", "in_progress", "returned", "approved", "rejected", "cancelled"}
Running == {"in_progress", "returned"}

\* A call in flight: its subject, its next query and what it read so far.
FilingJobs == [on : {"document"}, at : {"store", "commit"}, no : 1..MaxVersions, file : Files,
               name : Names, status : DocumentStatuses, old : 0..MaxVersions]

SigningJobs == [on : {"document"}, at : {"download", "guard", "sign"}, id : Nat]

RevisingJobs == [on : {"drawing"},
                 at : {"submit", "open", "converge", "construct", "retire", "point"},
                 rev : Revisions, previous : Revisions \cup {NoRevision}]

Jobs == FilingJobs \cup SigningJobs \cup RevisingJobs

ASSUME NoWorkAssumption == NoWork \notin Jobs

Init ==
    /\ document = [status |-> "absent", current |-> 0]
    /\ versions = <<>>
    /\ store = [key \in (1..MaxVersions) \X Names |-> NoFile]
    /\ revision = [r \in Revisions |-> "absent"]
    /\ flow = [r \in Revisions |-> "none"]
    /\ head = NoRevision
    /\ work = [q \in Requests |-> NoWork]
    /\ approved = {} /\ disturbed = {} /\ halted = {}

At(q, stage) == work[q] # NoWork /\ work[q].at = stage

GoTo(q, stage) == work' = [work EXCEPT ![q].at = stage]

Done(q) == work' = [work EXCEPT ![q] = NoWork]

InFlight(subject) == \E q \in Requests : work[q] # NoWork /\ work[q].on = subject

Begin(q, job) ==
    /\ work[q] = NoWork
    /\ work' = [work EXCEPT ![q] = job]
    /\ UNCHANGED halted
    /\ disturbed' = IF InFlight(job.on) THEN disturbed \cup {job.on} ELSE disturbed

\* The subjects looked at so far.
Begun == (IF document.status = "absent" THEN {} ELSE {"document"})
         \cup (IF \A r \in Revisions : revision[r] = "absent" THEN {} ELSE {"drawing"})

Admits(subject) == Cardinality(Begun \cup {subject}) <= MaxSubjects

-----------------------------------------------------------------------------
(* The document *)

CreateDocument ==
    /\ document.status = "absent" /\ Admits("document")
    /\ document' = [document EXCEPT !.status = "draft"]
    /\ UNCHANGED <<versions, store, drawingVars, work, disturbed, halted>>

\* versions: orderBy versionNo desc, take 1.
LastNo == IF versions = <<>> THEN 0
          ELSE CHOOSE n \in 1..MaxVersions :
                  /\ \E i \in DOMAIN versions : versions[i].no = n
                  /\ \A i \in DOMAIN versions : versions[i].no <= n

Filing(no, file, name, old) ==
    [on |-> "document", at |-> "store", no |-> no, file |-> file, name |-> name,
     status |-> document.status, old |-> old]

\* Mutated form: the new version takes the number of the last one.
AskUploadSameNumber(q, file, name) ==
    /\ document.status # "absent"
    /\ LastNo < MaxVersions
    /\ Begin(q, Filing(IF LastNo = 0 THEN 1 ELSE LastNo, file, name, 0))
    /\ UNCHANGED <<docVars, drawingVars>>

\* uploadVersion reads the document and its last version.
AskUpload(q, file, name) ==
    /\ document.status # "absent"
    /\ LastNo < MaxVersions
    /\ Begin(q, Filing(LastNo + 1, file, name, 0))
    /\ UNCHANGED <<docVars, drawingVars>>

\* supersedeVersion also reads the current version.
AskSupersede(q, file, name) ==
    /\ document.current # 0
    /\ LastNo < MaxVersions
    /\ Begin(q, Filing(LastNo + 1, file, name, document.current))
    /\ UNCHANGED <<docVars, drawingVars>>

\* storage.upload overwrites what is stored under the key.
Store(q) ==
    LET w == work[q] IN
    /\ At(q, "store")
    /\ store' = [store EXCEPT ![<<w.no, w.name>>] = w.file]
    /\ GoTo(q, "commit")
    /\ UNCHANGED <<document, versions, drawingVars, disturbed, halted>>

NewVersion(w) == [no |-> w.no, file |-> w.file, name |-> w.name, signed |-> FALSE,
                  signatures |-> 0, next |-> 0]

\* Mutated form: the number of a version is not unique in its document.
CommitTwice(q) ==
    LET w == work[q]
        id == Len(versions) + 1
    IN
    /\ At(q, "commit")
    /\ versions' = Append(IF w.old = 0 THEN versions
                          ELSE [versions EXCEPT ![w.old].next = id], NewVersion(w))
    /\ document' = [current |-> id,
                    status |-> IF w.old # 0 \/ w.status = "draft" THEN "in_review" ELSE w.status]
    /\ Done(q)
    /\ UNCHANGED <<store, drawingVars, disturbed, halted>>

\* Mutated form: an upload puts the document back in review.
CommitInReview(q) ==
    LET w == work[q]
        id == Len(versions) + 1
        taken == \E i \in DOMAIN versions : versions[i].no = w.no
    IN
    /\ At(q, "commit")
    /\ \/ taken /\ UNCHANGED <<document, versions>>
       \/ /\ ~taken
          /\ versions' = Append(IF w.old = 0 THEN versions
                                ELSE [versions EXCEPT ![w.old].next = id], NewVersion(w))
          /\ document' = [current |-> id, status |-> "in_review"]
    /\ Done(q)
    /\ UNCHANGED <<store, drawingVars, disturbed, halted>>

\* The transaction, which fails when the number is taken. An upload writes
\* back the status it read, unless that was draft.
Commit(q) ==
    LET w == work[q]
        id == Len(versions) + 1
        taken == \E i \in DOMAIN versions : versions[i].no = w.no
    IN
    /\ At(q, "commit")
    /\ \/ taken /\ UNCHANGED <<document, versions>>
       \/ /\ ~taken
          /\ versions' = Append(IF w.old = 0 THEN versions
                                ELSE [versions EXCEPT ![w.old].next = id], NewVersion(w))
          /\ document' = [current |-> id,
                          status |-> IF w.old # 0 \/ w.status = "draft" THEN "in_review"
                                     ELSE w.status]
    /\ Done(q)
    /\ UNCHANGED <<store, drawingVars, disturbed, halted>>

\* signVersion reads a version that is not signed.
AskSign(q, i) ==
    /\ ~versions[i].signed
    /\ Begin(q, [on |-> "document", at |-> "download", id |-> i])
    /\ UNCHANGED <<docVars, drawingVars>>

\* It downloads the file and compares its hash with that of the upload.
Download(q) ==
    LET v == versions[work[q].id] IN
    /\ At(q, "download")
    /\ IF store[v.no, v.name] = v.file THEN GoTo(q, "guard") ELSE Done(q)
    /\ UNCHANGED <<docVars, drawingVars, disturbed, halted>>

\* The middleware looks, in a query of its own, whether the version is signed.
Guard(q) ==
    /\ At(q, "guard")
    /\ IF versions[work[q].id].signed THEN Done(q) ELSE GoTo(q, "sign")
    /\ UNCHANGED <<docVars, drawingVars, disturbed, halted>>

Sign(q) ==
    LET i == work[q].id IN
    /\ At(q, "sign")
    /\ versions' = [versions EXCEPT ![i].signed = TRUE, ![i].signatures = @ + 1]
    /\ document' = [document EXCEPT !.status = "signed"]
    /\ Done(q)
    /\ UNCHANGED <<store, drawingVars, disturbed, halted>>

-----------------------------------------------------------------------------
(* The drawing *)

CreateRevision(r) ==
    /\ revision[r] = "absent" /\ Admits("drawing")
    /\ revision' = [revision EXCEPT ![r] = "for_information"]
    /\ UNCHANGED <<docVars, flow, head, work, approved, disturbed, halted>>

Revising(stage, r) == [on |-> "drawing", at |-> stage, rev |-> r, previous |-> NoRevision]

\* submit is the only action a user has.
AskSubmit(q, r) ==
    /\ revision[r] = "for_information"
    /\ Begin(q, Revising("submit", r))
    /\ UNCHANGED <<docVars, drawingVars>>

\* Mutated form: the submitted revision is released.
SubmitReleases(q) ==
    /\ At(q, "submit")
    /\ revision' = [revision EXCEPT ![work[q].rev] = "for_construction"]
    /\ GoTo(q, "open")
    /\ UNCHANGED <<docVars, flow, head, approved, disturbed, halted>>

\* The update, by id only.
Submit(q) ==
    /\ At(q, "submit")
    /\ revision' = [revision EXCEPT ![work[q].rev] = "for_approval"]
    /\ GoTo(q, "open")
    /\ UNCHANGED <<docVars, flow, head, approved, disturbed, halted>>

\* startInstance; with no template, or when it fails, the revision waits.
Open(q) ==
    LET r == work[q].rev IN
    /\ At(q, "open")
    /\ \/ flow' = [flow EXCEPT ![r] = IF @ \in Running THEN @ ELSE "in_progress"]
       \/ UNCHANGED flow
    /\ Done(q)
    /\ UNCHANGED <<docVars, revision, head, approved, disturbed, halted>>

\* The final approval by the engine, in the call of the last approver.
Approve(q, r) ==
    /\ flow[r] \in Running
    /\ flow' = [flow EXCEPT ![r] = "approved"]
    /\ approved' = approved \cup {r}
    /\ Begin(q, Revising("converge", r))
    /\ UNCHANGED <<docVars, revision, head>>

\* Any other step of the engine; no handler listens to it.
Decide(r, outcome) ==
    /\ flow[r] \in Running /\ flow[r] # outcome
    /\ outcome \in {"in_progress", "returned", "rejected", "cancelled"}
    /\ flow' = [flow EXCEPT ![r] = outcome]
    /\ UNCHANGED <<docVars, revision, head, work, approved, disturbed, halted>>

\* handleDrawingRevisionApproved reads the revision and its drawing.
Converge(q) ==
    /\ At(q, "converge")
    /\ IF revision[work[q].rev] = "for_construction" THEN Done(q)
       ELSE work' = [work EXCEPT ![q].at = "construct", ![q].previous = head]
    /\ UNCHANGED <<docVars, drawingVars, disturbed, halted>>

\* Mutated form: the revision before it is not superseded.
ConstructOnly(q) ==
    /\ At(q, "construct")
    /\ revision' = [revision EXCEPT ![work[q].rev] = "for_construction"]
    /\ GoTo(q, "point")
    /\ UNCHANGED <<docVars, flow, head, approved, disturbed, halted>>

Construct(q) ==
    LET w == work[q] IN
    /\ At(q, "construct")
    /\ revision' = [revision EXCEPT ![w.rev] = "for_construction"]
    /\ GoTo(q, IF w.previous \in {NoRevision, w.rev} THEN "point" ELSE "retire")
    /\ UNCHANGED <<docVars, flow, head, approved, disturbed, halted>>

Retire(q) ==
    /\ At(q, "retire")
    /\ revision' = [revision EXCEPT ![work[q].previous] = "superseded"]
    /\ GoTo(q, "point")
    /\ UNCHANGED <<docVars, flow, head, approved, disturbed, halted>>

Point(q) ==
    /\ At(q, "point")
    /\ head' = work[q].rev
    /\ Done(q)
    /\ UNCHANGED <<docVars, revision, flow, approved, disturbed, halted>>

-----------------------------------------------------------------------------

\* The process dies or the connection is lost; nothing resumes the call.
CutOff(q) ==
    /\ Faults
    /\ work[q] # NoWork
    /\ halted' = halted \cup {work[q].on}
    /\ Done(q)
    /\ UNCHANGED <<docVars, drawingVars, disturbed>>

Next ==
    \/ CreateDocument
    \/ \E q \in Requests :
        \/ \E file \in Files, name \in Names :
              AskUpload(q, file, name) \/ AskSupersede(q, file, name)
        \/ \E i \in DOMAIN versions : AskSign(q, i)
        \/ Store(q) \/ Commit(q) \/ Download(q) \/ Guard(q) \/ Sign(q)
    \/ \E r \in Revisions :
        \/ CreateRevision(r)
        \/ \E outcome \in FlowStatuses : Decide(r, outcome)
        \/ \E q \in Requests : AskSubmit(q, r) \/ Approve(q, r)
    \/ \E q \in Requests :
        \/ Submit(q) \/ Open(q) \/ Converge(q) \/ Construct(q) \/ Retire(q) \/ Point(q)
        \/ CutOff(q)

Spec == Init /\ [][Next]_vars

-----------------------------------------------------------------------------
(* Properties *)

(* However uploads and supersessions race or are cut off, the versions of  *)
(* a document are numbered in the order of their creation, the newest is   *)
(* the current one, and a version is superseded only by the one after it.  *)
LinearHistory ==
    /\ document.current = Len(versions)
    /\ \A i \in DOMAIN versions : versions[i].no = i /\ versions[i].next \in {0, i + 1}

(* As long as calls on the document do not overlap, wherever they are cut  *)
(* off, what is stored for a signed version is the file that was signed.   *)
SignedFileKept ==
    "document" \notin disturbed =>
        \A i \in DOMAIN versions :
            versions[i].signed => store[versions[i].no, versions[i].name] = versions[i].file

(* And a signed document stays signed until a version is superseded.       *)
SignedUntilSuperseded ==
    [][document.status = "signed" /\ document'.status # "signed" /\ "document" \notin disturbed'
          => \E i \in DOMAIN versions : versions'[i].next # versions[i].next]_vars

(* However submissions and approvals race or are cut off, a revision is    *)
(* for construction, superseded or the head of its drawing only after the  *)
(* engine approved it.                                                     *)
OnlyApprovedBuilt ==
    \A r \in Revisions :
        revision[r] \in {"for_construction", "superseded"} \/ head = r => r \in approved

(* Between undisturbed calls at most one revision is for construction, the *)
(* head of the drawing.                                                    *)
OneForConstruction ==
    "drawing" \notin disturbed \cup halted /\ ~InFlight("drawing") =>
        \A r \in Revisions : revision[r] = "for_construction" <=> head = r

\* The workflows, as the engine shows them to a record.
Engine == INSTANCE RecordApproval WITH
    Records <- Revisions,
    undecided <- [r \in Revisions |-> IF flow[r] \in Running THEN flow[r] ELSE "none"],
    approved <- approved

(* Whatever submissions and handlers do to the workflow of a revision, and *)
(* however they race or are cut off, is what the engine promises of it.    *)
FollowsEngine == Engine!ApprovalSpec

\* The versions of the document, without the way they are linked and stored.
Line == INSTANCE VersionLine WITH
    line <- [i \in DOMAIN versions |->
                [file |-> versions[i].file, signed |-> versions[i].signed,
                 superseded |-> versions[i].next # 0]],
    current <- document.current

(* However uploads, supersessions and signatures race or are cut off, they *)
(* only add to the line of versions and sign versions of it.               *)
KeepsLine == Line!LineSpec

=============================================================================
