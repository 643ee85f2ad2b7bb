-------------------------- MODULE DocumentsProofs --------------------------
(***************************************************************************)
(* Theorems about Documents for any files, revisions and requests: the     *)
(* history of a document is linear and a drawing shows approved revisions  *)
(* whatever races; signed files are kept and one revision is for           *)
(* construction as long as calls on the subject do not overlap.            *)
(***************************************************************************)
EXTENDS Documents, SequenceTheorems, TLAPS

Rows == [no : 1..MaxVersions, file : Files, name : Names, signed : BOOLEAN,
         signatures : Nat, next : Nat]

\* Type invariant
TypeOK ==
    /\ document \in [status : DocumentStatuses, current : Nat]
    /\ versions \in Seq(Rows)
    /\ store \in [(1..MaxVersions) \X Names -> Files \cup {NoFile}]
    /\ revision \in [Revisions -> RevisionStatuses]
    /\ flow \in [Revisions -> FlowStatuses]
    /\ head \in Revisions \cup {NoRevision}
    /\ work \in [Requests -> Jobs \cup {NoWork}]
    /\ approved \in SUBSET Revisions
    /\ disturbed \in SUBSET Subjects
    /\ halted \in SUBSET Subjects

Busy(q) == work[q] # NoWork

\* A subject is disturbed once two calls are on it.
OneCall ==
    \A p, q \in Requests :
        Busy(p) /\ Busy(q) /\ work[p].on = work[q].on /\ work[p].on \notin disturbed => p = q

Uploads(q) == Busy(q) /\ work[q].at \in {"store", "commit"}
Signs(q) == Busy(q) /\ work[q].at \in {"download", "guard", "sign"}
Revises(q) == Busy(q) /\ work[q].on = "drawing"

\* LinearHistory, with the versions a call has read.
History ==
    /\ document.current = Len(versions)
    /\ document.status = "absent" => Len(versions) = 0
    /\ \A i \in 1..Len(versions) :
          /\ versions[i].no = i
          /\ versions[i].next \in {0, i + 1} /\ versions[i].next <= Len(versions)
    /\ \A q \in Requests :
          /\ Uploads(q) => /\ work[q].no <= Len(versions) + 1
                          /\ work[q].old \in {0, work[q].no - 1}
                          /\ work[q].status # "absent" /\ document.status # "absent"
          /\ Signs(q) => work[q].id \in 1..Len(versions)

Kept(v) == store[v.no, v.name] = v.file

\* As long as calls on the document do not overlap, what a call has read
\* of it is still so.
Undisturbed ==
    "document" \notin disturbed =>
        /\ \A i \in 1..Len(versions) : versions[i].signed => Kept(versions[i])
        /\ \A q \in Requests :
              /\ Uploads(q) => /\ work[q].no = Len(versions) + 1
                              /\ work[q].status = document.status
              /\ Busy(q) /\ work[q].at \in {"guard", "sign"} => Kept(versions[work[q].id])

\* OnlyApprovedBuilt, with the revisions a call is about to release.
Approvals ==
    /\ OnlyApprovedBuilt
    /\ \A q \in Requests :
          Busy(q) /\ work[q].at \in {"converge", "construct", "retire", "point"} =>
              work[q].rev \in approved /\ work[q].previous \in approved \cup {NoRevision}

OnlyBuilt(S) == \A r \in Revisions : revision[r] = "for_construction" <=> r \in S

\* OneForConstruction, with the revisions for construction at each query.
Building ==
    "drawing" \notin disturbed \cup halted =>
        /\ ~InFlight("drawing") => OnlyBuilt({head})
        /\ \A q \in Requests : Revises(q) =>
              LET w == work[q] IN
              /\ w.at \in {"submit", "open", "converge", "construct"} => OnlyBuilt({head})
              /\ w.at = "submit" => revision[w.rev] = "for_information"
              /\ w.at = "construct" =>
                    w.previous = head /\ revision[w.rev] # "for_construction"
              /\ w.at = "retire" =>
                    w.previous \in Revisions \ {w.rev} /\ OnlyBuilt({w.rev, w.previous})
              /\ w.at = "point" => OnlyBuilt({w.rev})

Inv == TypeOK /\ OneCall /\ History /\ Undisturbed /\ Approvals /\ Building

-----------------------------------------------------------------------------
(* The calls *)

(* A call is known by its next query.                                      *)
LEMMA JobKinds ==
    ASSUME NEW w \in Jobs
    PROVE  /\ w.on \in Subjects
           /\ w.at \in {"store", "commit"} => w \in FilingJobs
           /\ w.at \in {"download", "guard", "sign"} => w \in SigningJobs
           /\ w.on = "drawing" => w \in RevisingJobs
           /\ w.at \in {"submit", "open", "converge", "construct", "retire", "point"} =>
                 w \in RevisingJobs
BY DEF Jobs, FilingJobs, SigningJobs, RevisingJobs, Subjects

(* A call begins: the others are as they were, and on a subject that is    *)
(* still undisturbed there is no other.                                    *)
LEMMA BeginCall ==
    ASSUME TypeOK, OneCall, NEW q \in Requests, NEW job \in Jobs, Begin(q, job)
    PROVE  /\ work' \in [Requests -> Jobs \cup {NoWork}]
           /\ disturbed' \in SUBSET Subjects /\ halted' \in SUBSET Subjects
           /\ OneCall'
           /\ disturbed \subseteq disturbed' /\ halted' = halted
           /\ work[q] = NoWork /\ work'[q] = job /\ job # NoWork
           /\ \A p \in Requests \ {q} : work'[p] = work[p]
           /\ job.on \notin disturbed' => \A p \in Requests : Busy(p) => work[p].on # job.on
<1>1. /\ work \in [Requests -> Jobs \cup {NoWork}] /\ halted \in SUBSET Subjects
      /\ disturbed \in SUBSET Subjects
  BY DEF TypeOK
<1>2. job # NoWork /\ job.on \in Subjects
  BY NoWorkAssumption, JobKinds
<1>3. /\ work' \in [Requests -> Jobs \cup {NoWork}]
      /\ work[q] = NoWork /\ work'[q] = job
      /\ \A p \in Requests \ {q} : work'[p] = work[p]
  BY <1>1 DEF Begin
<1>4. /\ disturbed \subseteq disturbed' /\ halted' = halted
      /\ disturbed' \in SUBSET Subjects
      /\ job.on \notin disturbed' => \A p \in Requests : Busy(p) => work[p].on # job.on
  BY <1>1, <1>2 DEF Begin, InFlight, Busy
<1>5. OneCall'
  BY <1>2, <1>3, <1>4 DEF OneCall, Busy
<1>6. QED
  BY <1>1, <1>2, <1>3, <1>4, <1>5

(* A call goes on with its subject, or ends.                               *)
LEMMA StepCall ==
    ASSUME TypeOK, OneCall, NEW q \in Requests, NEW w \in Jobs \cup {NoWork}, Busy(q),
           work' = [work EXCEPT ![q] = w], w # NoWork => w.on = work[q].on,
           disturbed' = disturbed
    PROVE  /\ work' \in [Requests -> Jobs \cup {NoWork}]
           /\ OneCall'
           /\ work'[q] = w
           /\ \A p \in Requests \ {q} : work'[p] = work[p]
<1>1. work \in [Requests -> Jobs \cup {NoWork}]
  BY DEF TypeOK
<1>2. /\ work' \in [Requests -> Jobs \cup {NoWork}] /\ work'[q] = w
      /\ \A p \in Requests \ {q} : work'[p] = work[p]
  BY <1>1
<1>3. OneCall'
  BY <1>2 DEF OneCall, Busy
<1>4. QED
  BY <1>2, <1>3

(* The next query of a call is of the same kind.                           *)
LEMMA NextQuery ==
    ASSUME TypeOK, NEW q \in Requests, Busy(q), NEW stage, GoTo(q, stage),
           \/ work[q].at \in {"store", "commit"} /\ stage = "commit"
           \/ work[q].at \in {"download", "guard", "sign"} /\ stage \in {"guard", "sign"}
           \/ /\ work[q].on = "drawing"
              /\ stage \in {"submit", "open", "converge", "construct", "retire", "point"}
    PROVE  \E w \in Jobs :
              /\ work' = [work EXCEPT ![q] = w]
              /\ w # NoWork /\ w.at = stage /\ w.on = work[q].on
              /\ w = [work[q] EXCEPT !.at = stage]
<1>1. work[q] \in Jobs
  BY DEF TypeOK, Busy
<1>2. work' = [work EXCEPT ![q] = [work[q] EXCEPT !.at = stage]]
  BY DEF GoTo
<1>3. CASE work[q] \in FilingJobs
  <2>1. [work[q] EXCEPT !.at = stage] \in FilingJobs
    BY <1>3 DEF FilingJobs
  <2>2. QED
    BY <1>2, <1>3, <2>1, NoWorkAssumption DEF Jobs, FilingJobs
<1>4. CASE work[q] \in SigningJobs
  <2>1. [work[q] EXCEPT !.at = stage] \in SigningJobs
    BY <1>4 DEF SigningJobs
  <2>2. QED
    BY <1>2, <1>4, <2>1, NoWorkAssumption DEF Jobs, SigningJobs
<1>5. CASE work[q] \in RevisingJobs
  <2>1. [work[q] EXCEPT !.at = stage] \in RevisingJobs
    BY <1>5 DEF RevisingJobs
  <2>2. QED
    BY <1>2, <1>5, <2>1, NoWorkAssumption DEF Jobs, RevisingJobs
<1>6. QED
  BY <1>1, <1>3, <1>4, <1>5 DEF Jobs

(* The document is as it was as long as its calls are.                     *)
LEMMA DocumentKept ==
    ASSUME Inv, UNCHANGED docVars, disturbed \subseteq disturbed',
           \A p \in Requests : Uploads(p)' \/ Signs(p)' => work'[p] = work[p]
    PROVE  History' /\ Undisturbed'
<1>1. document' = document /\ versions' = versions /\ store' = store
  BY DEF docVars
<1>2. \A p \in Requests : (Uploads(p)' => Uploads(p)) /\ (Signs(p)' => Signs(p))
  BY DEF Uploads, Signs, Busy
<1>3. History'
  BY <1>1, <1>2 DEF Inv, History
<1>4. \A p \in Requests :
        (Busy(p) /\ work[p].at \in {"guard", "sign"})' =>
            Signs(p)' /\ work'[p] = work[p] /\ Busy(p) /\ work[p].at \in {"guard", "sign"}
  BY DEF Signs, Busy
<1>5. Undisturbed'
  BY <1>1, <1>2, <1>4 DEF Inv, Undisturbed, Kept
<1>6. QED
  BY <1>3, <1>5

(* So is the drawing.                                                      *)
LEMMA DrawingKept ==
    ASSUME Inv, UNCHANGED drawingVars, disturbed \subseteq disturbed', halted \subseteq halted',
           \A p \in Requests : Revises(p) \/ Revises(p)' => work'[p] = work[p],
           work' \in [Requests -> Jobs \cup {NoWork}]
    PROVE  Approvals' /\ Building'
<1>1. revision' = revision /\ head' = head /\ approved' = approved
  BY DEF drawingVars
<1>2. \A p \in Requests : Revises(p)' <=> Revises(p)
  BY DEF Revises, Busy
<1>3. \A p \in Requests :
        (Busy(p) /\ work[p].at \in {"converge", "construct", "retire", "point"})' => Revises(p)'
  BY JobKinds DEF Revises, Busy, RevisingJobs
<1>4. Approvals'
  BY <1>1, <1>2, <1>3 DEF Inv, Approvals, OnlyApprovedBuilt, Revises, Busy
<1>5. InFlight("drawing")' <=> InFlight("drawing")
  BY <1>2 DEF InFlight, Revises, Busy
<1>6. Building'
  BY <1>1, <1>2, <1>5 DEF Inv, Building, OnlyBuilt
<1>7. QED
  BY <1>4, <1>6

-----------------------------------------------------------------------------
(* The document *)

(* The last number is the number of versions.                              *)
LEMMA LastNumber ==
    ASSUME TypeOK, History
    PROVE  LastNo = Len(versions) /\ Len(versions) <= MaxVersions
<1>1. versions \in Seq(Rows) /\ Len(versions) \in Nat /\ MaxVersions \in Nat
  BY VersionsAssumption, LenProperties DEF TypeOK
<1>2. \A i \in 1..Len(versions) : versions[i] \in Rows /\ versions[i].no = i
  BY <1>1, ElementOfSeq DEF History
<1>3. CASE versions = <<>>
  BY <1>1, <1>3, EmptySeq DEF LastNo
<1>4. CASE versions # <<>>
  <2>1. Len(versions) \in 1..Len(versions)
    BY <1>1, <1>4, EmptySeq
  <2>2. Len(versions) \in 1..MaxVersions
    BY <1>1, <1>2, <2>1 DEF Rows
  <2> DEFINE Last(n) == /\ \E i \in DOMAIN versions : versions[i].no = n
                        /\ \A i \in DOMAIN versions : versions[i].no <= n
  <2>3. DOMAIN versions = 1..Len(versions)
    BY <1>1, LenProperties
  <2>4. Last(Len(versions))
    BY <1>1, <1>2, <2>1, <2>3
  <2>5. ASSUME NEW n \in 1..MaxVersions, Last(n) PROVE n = Len(versions)
    <3>1. PICK i \in 1..Len(versions) : versions[i].no = n
      BY <2>3, <2>5
    <3>2. n = i /\ Len(versions) <= n
      BY <1>2, <2>1, <2>3, <2>5, <3>1
    <3>3. QED
      BY <1>1, <3>1, <3>2
  <2>6. (CHOOSE n \in 1..MaxVersions : Last(n)) = Len(versions)
    BY <2>2, <2>4, <2>5
  <2>7. QED
    BY <1>4, <2>2, <2>6 DEF LastNo
<1>5. QED
  BY <1>3, <1>4

(* The document row is inserted, with no version yet (createDocument).     *)
LEMMA CreateDocumentKeepsInv ==
    ASSUME Inv, CreateDocument
    PROVE  Inv'
<1>1. TypeOK /\ History /\ Undisturbed /\ OneCall
  BY DEF Inv
<1>2. /\ document' = [document EXCEPT !.status = "draft"] /\ document.status = "absent"
      /\ versions' = versions /\ store' = store /\ work' = work
      /\ UNCHANGED drawingVars /\ disturbed' = disturbed /\ halted' = halted
  BY DEF CreateDocument
<1>3. document \in [status : DocumentStatuses, current : Nat]
  BY <1>1 DEF TypeOK
<1>4. document' \in [status : DocumentStatuses, current : Nat] /\ document'.current = document.current
  BY <1>2, <1>3 DEF DocumentStatuses
<1>5. TypeOK' /\ OneCall'
  BY <1>1, <1>2, <1>4 DEF TypeOK, OneCall, Busy, drawingVars
<1>6. History'
  <2>1. \A q \in Requests : ~Uploads(q)'
    BY <1>1, <1>2 DEF History, Uploads, Busy
  <2>2. QED
    BY <1>1, <1>2, <1>4, <2>1 DEF History, Signs, Busy
<1>7. \A q \in Requests : ~Uploads(q)
  BY <1>1, <1>2 DEF History
<1>8. Undisturbed'
  BY <1>1, <1>2, <1>7 DEF Undisturbed, Uploads, Busy, Kept
<1>9. Approvals' /\ Building'
  BY <1>1, <1>2, DrawingKept DEF TypeOK
<1>10. QED
  BY <1>5, <1>6, <1>8, <1>9 DEF Inv

(* A call on the document takes the number after the last one.             *)
LEMMA FilingBegins ==
    ASSUME Inv, NEW q \in Requests, NEW file \in Files, NEW name \in Names,
           NEW old \in {0, document.current}, document.status # "absent", LastNo < MaxVersions,
           Begin(q, Filing(LastNo + 1, file, name, old)),
           UNCHANGED <<docVars, drawingVars>>
    PROVE  Inv'
<1>1. TypeOK /\ History /\ Undisturbed /\ OneCall
  BY DEF Inv
<1>2. /\ document' = document /\ versions' = versions /\ store' = store
      /\ UNCHANGED drawingVars /\ UNCHANGED docVars
  BY DEF docVars
<1>3. /\ LastNo = Len(versions) /\ document.current = Len(versions)
      /\ Len(versions) \in Nat /\ MaxVersions \in Nat /\ document.status \in DocumentStatuses
  BY <1>1, LastNumber, LenProperties, VersionsAssumption DEF TypeOK, History
<1> DEFINE job == Filing(LastNo + 1, file, name, old)
<1>4. job \in FilingJobs
  BY <1>3 DEF Filing, FilingJobs
<1>5. PICK j \in FilingJobs :
        /\ Begin(q, j) /\ j.on = "document" /\ j.at = "store"
        /\ j.no = Len(versions) + 1 /\ j.old \in {0, Len(versions)}
        /\ j.status = document.status /\ document.status # "absent"
  BY <1>3, <1>4 DEF Filing
<1>6. j \in Jobs
  BY DEF Jobs
<1>7. /\ work' \in [Requests -> Jobs \cup {NoWork}]
      /\ disturbed' \in SUBSET Subjects /\ halted' \in SUBSET Subjects
      /\ OneCall' /\ disturbed \subseteq disturbed' /\ halted' = halted
      /\ work[q] = NoWork /\ work'[q] = j /\ j # NoWork
      /\ \A p \in Requests \ {q} : work'[p] = work[p]
  BY <1>1, <1>5, <1>6, BeginCall
<1>8. TypeOK'
  BY <1>1, <1>2, <1>7 DEF TypeOK, drawingVars
<1>9. /\ Uploads(q)' /\ ~Signs(q)'
      /\ \A p \in Requests \ {q} : (Uploads(p)' <=> Uploads(p)) /\ (Signs(p)' <=> Signs(p))
  BY <1>5, <1>7 DEF Uploads, Signs, Busy
<1>10. History'
  BY <1>1, <1>2, <1>3, <1>5, <1>7, <1>9 DEF History
<1>11. Undisturbed'
  BY <1>1, <1>2, <1>3, <1>5, <1>7, <1>9 DEF Undisturbed, Kept, Busy
<1>12. Approvals' /\ Building'
  <2>1. \A p \in Requests : Revises(p) \/ Revises(p)' => work'[p] = work[p]
    BY <1>5, <1>7 DEF Revises, Busy
  <2>2. QED
    BY <1>2, <1>7, <2>1, DrawingKept
<1>13. QED
  BY <1>7, <1>8, <1>10, <1>11, <1>12 DEF Inv

(* uploadVersion and supersedeVersion read the document and its versions   *)
(* before they write anything: the call that starts remembers what is true *)
(* of them.                                                                *)
LEMMA AskFilingKeepsInv ==
    ASSUME Inv, NEW q \in Requests, NEW file \in Files, NEW name \in Names,
           AskUpload(q, file, name) \/ AskSupersede(q, file, name)
    PROVE  Inv'
<1>1. History /\ TypeOK
  BY DEF Inv
<1>2. CASE AskUpload(q, file, name)
  BY <1>2, FilingBegins DEF AskUpload
<1>3. CASE AskSupersede(q, file, name)
  <2>1. document.status # "absent"
    BY <1>1, <1>3 DEF AskSupersede, History
  <2>2. QED
    BY <1>3, <2>1, FilingBegins DEF AskSupersede
<1>4. QED
  BY <1>2, <1>3

(* A call on the document that reads or ends changes nothing else, and the *)
(* drawing is left alone.                                                  *)
LEMMA DocumentCall ==
    ASSUME Inv, NEW q \in Requests, NEW w \in Jobs \cup {NoWork}, Busy(q),
           work[q].on = "document",
           work' = [work EXCEPT ![q] = w], w # NoWork => w.on = work[q].on,
           UNCHANGED drawingVars, disturbed' = disturbed, halted' = halted
    PROVE  Approvals' /\ Building'
<1>1. /\ work' \in [Requests -> Jobs \cup {NoWork}] /\ work'[q] = w
      /\ \A p \in Requests \ {q} : work'[p] = work[p]
  BY StepCall DEF Inv
<1>2. \A p \in Requests : Revises(p) \/ Revises(p)' => work'[p] = work[p]
  BY <1>1 DEF Revises, Busy
<1>3. QED
  BY <1>1, <1>2, DrawingKept

(* The key of the file that a version will have is not in use.             *)
LEMMA StoreKeepsInv ==
    ASSUME Inv, NEW q \in Requests, Store(q)
    PROVE  Inv'
<1>1. TypeOK /\ History /\ Undisturbed /\ OneCall
  BY DEF Inv
<1>2. PICK f \in FilingJobs : work[q] = f /\ f.at = "store"
  BY JobKinds DEF Store, At, Inv, TypeOK
<1>3. /\ Busy(q) /\ GoTo(q, "commit") /\ Uploads(q)
      /\ store' = [store EXCEPT ![<<f.no, f.name>>] = f.file]
      /\ document' = document /\ versions' = versions
      /\ UNCHANGED drawingVars /\ disturbed' = disturbed /\ halted' = halted
  BY <1>2 DEF Store, At, Busy, Uploads
<1>4. PICK w \in Jobs :
        /\ work' = [work EXCEPT ![q] = w]
        /\ w # NoWork /\ w.at = "commit" /\ w.on = work[q].on
        /\ w = [f EXCEPT !.at = "commit"]
  BY <1>1, <1>2, <1>3, NextQuery
<1>5. f.on = "document" /\ f.no \in 1..MaxVersions /\ f.name \in Names /\ f.file \in Files
  BY <1>2 DEF FilingJobs
<1>6. w.no = f.no /\ w.old = f.old /\ w.status = f.status
  BY <1>2, <1>4 DEF FilingJobs
<1>7. /\ work' \in [Requests -> Jobs \cup {NoWork}] /\ OneCall' /\ work'[q] = w
      /\ \A p \in Requests \ {q} : work'[p] = work[p]
  BY <1>1, <1>3, <1>4, StepCall
<1>8. Approvals' /\ Building'
  BY <1>2, <1>3, <1>4, <1>5, DocumentCall
<1>9. TypeOK'
  BY <1>1, <1>3, <1>5, <1>7 DEF TypeOK, drawingVars
<1>10. /\ Uploads(q)' /\ ~Signs(q)'
       /\ \A p \in Requests \ {q} : (Uploads(p)' <=> Uploads(p)) /\ (Signs(p)' <=> Signs(p))
  BY <1>4, <1>7 DEF Uploads, Signs, Busy
<1>11. History'
  BY <1>1, <1>2, <1>3, <1>6, <1>7, <1>10 DEF History
<1>12. Undisturbed'
  <2> SUFFICES ASSUME "document" \notin disturbed PROVE Undisturbed'
    BY <1>3 DEF Undisturbed
  <2>1. f.no = Len(versions) + 1 /\ f.status = document.status
    BY <1>1, <1>2, <1>3 DEF Undisturbed
  <2>2. \A p \in Requests \ {q} : Busy(p) => work[p].on # "document"
    BY <1>1, <1>2, <1>3, <1>5 DEF OneCall
  <2>3. \A p \in Requests \ {q} : ~Uploads(p)' /\ ~Signs(p)'
    <3>1. \A p \in Requests : Busy(p) => work[p] \in Jobs
      BY <1>1 DEF TypeOK, Busy
    <3>2. QED
      BY <1>10, <2>2, <3>1, JobKinds DEF Uploads, Signs, FilingJobs, SigningJobs
  <2>4. ASSUME NEW i \in 1..Len(versions), Kept(versions[i]) PROVE Kept(versions[i])'
    <3>1. versions[i] \in Rows /\ versions[i].no = i /\ Len(versions) \in Nat
      BY <1>1, ElementOfSeq, LenProperties DEF TypeOK, History
    <3>2. <<versions[i].no, versions[i].name>> # <<f.no, f.name>>
      BY <2>1, <3>1
    <3>3. <<versions[i].no, versions[i].name>> \in (1..MaxVersions) \X Names
      BY <3>1 DEF Rows
    <3>4. store'[<<versions[i].no, versions[i].name>>] = store[<<versions[i].no, versions[i].name>>]
      BY <1>1, <1>3, <3>2, <3>3 DEF TypeOK
    <3>5. QED
      BY <1>3, <2>4, <3>4 DEF Kept
  <2>5. \A i \in 1..Len(versions) : versions[i].signed => Kept(versions[i])'
    BY <1>1, <2>4 DEF Undisturbed
  <2>6. QED
    BY <1>3, <1>4, <1>6, <1>7, <2>1, <2>3, <2>5 DEF Undisturbed, Signs, Uploads
<1>13. QED
  BY <1>7, <1>8, <1>9, <1>11, <1>12 DEF Inv

(* signVersion reads the version it signs: a call starts only for a        *)
(* version that may still be signed.                                       *)
LEMMA AskSignKeepsInv ==
    ASSUME Inv, NEW q \in Requests, NEW i \in DOMAIN versions, AskSign(q, i)
    PROVE  Inv'
<1>1. TypeOK /\ History /\ Undisturbed /\ OneCall
  BY DEF Inv
<1>2. /\ document' = document /\ versions' = versions /\ store' = store
      /\ UNCHANGED drawingVars /\ UNCHANGED docVars
  BY DEF docVars, AskSign
<1>3. i \in 1..Len(versions) /\ Len(versions) \in Nat
  BY <1>1, LenProperties DEF TypeOK
<1>4. PICK j \in SigningJobs : Begin(q, j) /\ j.on = "document" /\ j.at = "download" /\ j.id = i
  BY <1>3 DEF AskSign, SigningJobs
<1>5. j \in Jobs
  BY DEF Jobs
<1>6. /\ work' \in [Requests -> Jobs \cup {NoWork}]
      /\ disturbed' \in SUBSET Subjects /\ halted' \in SUBSET Subjects
      /\ OneCall' /\ disturbed \subseteq disturbed' /\ halted' = halted
      /\ work[q] = NoWork /\ work'[q] = j /\ j # NoWork
      /\ \A p \in Requests \ {q} : work'[p] = work[p]
  BY <1>1, <1>4, <1>5, BeginCall
<1>7. TypeOK'
  BY <1>1, <1>2, <1>6 DEF TypeOK, drawingVars
<1>8. /\ ~Uploads(q)' /\ ~(Busy(q) /\ work[q].at \in {"guard", "sign"})'
      /\ \A p \in Requests \ {q} : (Uploads(p)' <=> Uploads(p)) /\ (Signs(p)' <=> Signs(p))
  BY <1>4, <1>6 DEF Uploads, Signs, Busy
<1>9. History'
  BY <1>1, <1>2, <1>3, <1>4, <1>6, <1>8 DEF History
<1>10. Undisturbed'
  BY <1>1, <1>2, <1>6, <1>8 DEF Undisturbed, Kept, Busy
<1>11. Approvals' /\ Building'
  <2>1. \A p \in Requests : Revises(p) \/ Revises(p)' => work'[p] = work[p]
    BY <1>4, <1>6 DEF Revises, Busy
  <2>2. QED
    BY <1>2, <1>6, <2>1, DrawingKept
<1>12. QED
  BY <1>6, <1>7, <1>9, <1>10, <1>11 DEF Inv

(* The download compares what is stored with what was uploaded.            *)
LEMMA CheckKeepsInv ==
    ASSUME Inv, NEW q \in Requests, Download(q) \/ Guard(q)
    PROVE  Inv'
<1>1. TypeOK /\ History /\ Undisturbed /\ OneCall
  BY DEF Inv
<1>2. PICK s \in SigningJobs : work[q] = s /\ s.at \in {"download", "guard"}
  BY JobKinds DEF Download, Guard, At, Inv, TypeOK
<1>3. /\ Busy(q) /\ Signs(q) /\ s.on = "document"
      /\ document' = document /\ versions' = versions /\ store' = store
      /\ UNCHANGED drawingVars /\ disturbed' = disturbed /\ halted' = halted
  BY <1>2 DEF Download, Guard, At, Busy, Signs, docVars, SigningJobs
<1>4. \/ Done(q)
      \/ GoTo(q, "guard") /\ s.at = "download" /\ Kept(versions[s.id])
      \/ GoTo(q, "sign") /\ s.at = "guard"
  BY <1>2 DEF Download, Guard, At, Kept
<1>5. PICK w \in Jobs \cup {NoWork} :
        /\ work' = [work EXCEPT ![q] = w]
        /\ w # NoWork => /\ w.at \in {"guard", "sign"} /\ w.on = s.on /\ w.id = s.id
                         /\ s.at = "download" => Kept(versions[s.id])
  <2>1. CASE Done(q)
    BY <2>1 DEF Done
  <2>2. ASSUME NEW stage \in {"guard", "sign"}, GoTo(q, stage),
               s.at = "download" => Kept(versions[s.id])
        PROVE \E w \in Jobs \cup {NoWork} :
        /\ work' = [work EXCEPT ![q] = w]
        /\ w # NoWork => /\ w.at \in {"guard", "sign"} /\ w.on = s.on /\ w.id = s.id
                         /\ s.at = "download" => Kept(versions[s.id])
    <3>1. PICK w \in Jobs :
            /\ work' = [work EXCEPT ![q] = w] /\ w.at = stage /\ w.on = s.on
            /\ w = [s EXCEPT !.at = stage]
      BY <1>1, <1>2, <1>3, <2>2, NextQuery
    <3>2. w.id = s.id
      BY <1>2, <3>1 DEF SigningJobs
    <3>3. QED
      BY <2>2, <3>1, <3>2
  <2>3. QED
    BY <1>4, <2>1, <2>2
<1>6. /\ work' \in [Requests -> Jobs \cup {NoWork}] /\ OneCall' /\ work'[q] = w
      /\ \A p \in Requests \ {q} : work'[p] = work[p]
  BY <1>1, <1>2, <1>3, <1>5, StepCall
<1>7. Approvals' /\ Building'
  BY <1>2, <1>3, <1>5, DocumentCall
<1>8. TypeOK'
  BY <1>1, <1>3, <1>6 DEF TypeOK, drawingVars
<1>9. /\ ~Uploads(q)' /\ (Signs(q)' => w # NoWork)
      /\ \A p \in Requests \ {q} : (Uploads(p)' <=> Uploads(p)) /\ (Signs(p)' <=> Signs(p))
  BY <1>5, <1>6 DEF Uploads, Signs, Busy
<1>10. History'
  BY <1>1, <1>2, <1>3, <1>5, <1>6, <1>9 DEF History
<1>11. Undisturbed'
  <2> SUFFICES ASSUME "document" \notin disturbed PROVE Undisturbed'
    BY <1>3 DEF Undisturbed
  <2>1. w # NoWork => Kept(versions[s.id])
    BY <1>1, <1>2, <1>3, <1>5 DEF Undisturbed
  <2>2. (Busy(q) /\ work[q].at \in {"guard", "sign"} => Kept(versions[work[q].id]))'
    BY <1>3, <1>5, <1>6, <2>1 DEF Busy, Kept
  <2>3. QED
    BY <1>1, <1>3, <1>6, <1>9, <2>2 DEF Undisturbed, Kept, Busy
<1>12. QED
  BY <1>6, <1>7, <1>8, <1>10, <1>11 DEF Inv

(* A call that ends and leaves the document as it is.                      *)
LEMMA EndKeepsDocument ==
    ASSUME Inv, NEW q \in Requests, Busy(q), Done(q), UNCHANGED docVars, disturbed' = disturbed
    PROVE  /\ work' \in [Requests -> Jobs \cup {NoWork}] /\ OneCall' /\ work'[q] = NoWork
           /\ \A p \in Requests \ {q} : work'[p] = work[p]
           /\ History' /\ Undisturbed'
<1>1. /\ work' \in [Requests -> Jobs \cup {NoWork}] /\ OneCall' /\ work'[q] = NoWork
      /\ \A p \in Requests \ {q} : work'[p] = work[p]
  BY StepCall DEF Inv, Done
<1>2. \A p \in Requests : Uploads(p)' \/ Signs(p)' => work'[p] = work[p]
  BY <1>1 DEF Uploads, Signs, Busy
<1>3. QED
  BY <1>1, <1>2, DocumentKept

(* A version is committed under the next number, after the others, of      *)
(* which a supersession links the last one to it.                          *)
LEMMA CommitAppends ==
    ASSUME TypeOK, History, NEW q \in Requests, NEW f \in FilingJobs,
           work[q] = f, f.at = "commit", Uploads(q), Commit(q),
           ~UNCHANGED <<document, versions>>
    PROVE  /\ f.no = Len(versions) + 1 /\ f.old \in {0, Len(versions)}
           /\ document' = [current |-> Len(versions) + 1,
                           status |-> IF f.old # 0 \/ f.status = "draft" THEN "in_review"
                                      ELSE f.status]
           /\ versions' \in Seq(Rows) /\ Len(versions') = Len(versions) + 1
           /\ versions'[Len(versions) + 1] = NewVersion(f)
           /\ \A i \in 1..Len(versions) :
                 /\ versions'[i].no = versions[i].no /\ versions'[i].name = versions[i].name
                 /\ versions'[i].file = versions[i].file
                 /\ versions'[i].signed = versions[i].signed
                 /\ versions'[i].next = IF f.old # 0 /\ i = f.old THEN Len(versions) + 1
                                        ELSE versions[i].next
<1> DEFINE L == Len(versions)
           linked == IF f.old = 0 THEN versions
                     ELSE [versions EXCEPT ![f.old] = [versions[f.old] EXCEPT !.next = L + 1]]
<1>1. /\ \A i \in DOMAIN versions : versions[i].no # f.no
      /\ versions' = Append(linked, NewVersion(f))
      /\ document' = [current |-> L + 1,
                      status |-> IF f.old # 0 \/ f.status = "draft" THEN "in_review"
                                 ELSE f.status]
  BY DEF Commit
<1>2. /\ versions \in Seq(Rows) /\ L \in Nat /\ DOMAIN versions = 1..L
      /\ \A i \in 1..L : versions[i] \in Rows /\ versions[i].no = i
  BY LenProperties, ElementOfSeq DEF TypeOK, History
<1>3. /\ f.no \in 1..MaxVersions /\ f.old \in 0..MaxVersions /\ f.file \in Files
      /\ f.name \in Names /\ f.status \in DocumentStatuses
  BY DEF FilingJobs
<1>4. /\ f.no <= L + 1 /\ f.old \in {0, f.no - 1} /\ f.status # "absent"
      /\ document.status # "absent"
  BY DEF History
<1>5. f.no = L + 1 /\ f.old \in {0, L}
  <2>1. f.no \notin 1..L
    BY <1>1, <1>2
  <2>2. f.no \in Nat /\ f.no >= 1
    BY <1>3, VersionsAssumption
  <2>3. QED
    BY <1>2, <1>4, <2>1, <2>2
<1>6. /\ linked \in Seq(Rows) /\ Len(linked) = L
      /\ \A i \in 1..L : linked[i] = IF f.old # 0 /\ i = f.old
                                     THEN [versions[i] EXCEPT !.next = L + 1] ELSE versions[i]
  <2>1. CASE f.old = 0
    BY <1>2, <2>1
  <2>2. CASE f.old # 0
    <3>1. f.old = L /\ L \in 1..L
      BY <1>2, <1>5, <2>2
    <3>2. [versions[f.old] EXCEPT !.next = L + 1] \in Rows
      BY <1>2, <3>1 DEF Rows
    <3>3. QED
      BY <1>2, <2>2, <3>1, <3>2, ExceptSeq
  <2>3. QED
    BY <2>1, <2>2
<1>7. NewVersion(f) \in Rows
  BY <1>3 DEF NewVersion, Rows
<1> HIDE DEF linked
<1>8. /\ versions' \in Seq(Rows) /\ Len(versions') = L + 1
      /\ \A i \in 1..L : versions'[i] = linked[i]
      /\ versions'[L + 1] = NewVersion(f)
  <2>. DEFINE new == NewVersion(f)
  <2>1. versions' = Append(linked, new) /\ new \in Rows /\ linked \in Seq(Rows) /\ Len(linked) = L
    BY <1>1, <1>6, <1>7
  <2>. HIDE DEF new
  <2>2. /\ Append(linked, new) \in Seq(Rows) /\ Len(Append(linked, new)) = Len(linked) + 1
        /\ \A i \in 1..Len(linked) : Append(linked, new)[i] = linked[i]
        /\ Append(linked, new)[Len(linked) + 1] = new
    BY <2>1, AppendProperties
  <2>3. QED
    BY <2>1, <2>2 DEF new
<1>9. /\ \A i \in 1..L :
            /\ versions'[i].no = versions[i].no /\ versions'[i].name = versions[i].name
            /\ versions'[i].file = versions[i].file /\ versions'[i].signed = versions[i].signed
            /\ versions'[i].next = IF f.old # 0 /\ i = f.old THEN L + 1 ELSE versions[i].next
  <2>1. \A i \in 1..L : versions'[i] = IF f.old # 0 /\ i = f.old
                                       THEN [versions[i] EXCEPT !.next = L + 1] ELSE versions[i]
    BY <1>6, <1>8
  <2>2. ASSUME NEW i \in 1..L
        PROVE  /\ versions'[i].no = versions[i].no /\ versions'[i].name = versions[i].name
               /\ versions'[i].file = versions[i].file
               /\ versions'[i].signed = versions[i].signed
               /\ versions'[i].next = IF f.old # 0 /\ i = f.old THEN L + 1 ELSE versions[i].next
    <3>1. CASE f.old # 0 /\ i = f.old
      <4>1. PICK v \in Rows : v = versions[i]
        BY <1>2
      <4>2. versions'[i] = [v EXCEPT !.next = L + 1]
        BY <2>1, <3>1, <4>1
      <4>3. QED
        BY <3>1, <4>1, <4>2 DEF Rows
    <3>2. CASE ~(f.old # 0 /\ i = f.old)
      BY <2>1, <3>2
    <3>3. QED
      BY <3>1, <3>2
  <2>3. QED
    BY <2>2
<1>10. QED
  BY <1>1, <1>5, <1>8, <1>9

(* A number that is not taken is the next one.                             *)
LEMMA CommitKeepsInv ==
    ASSUME Inv, NEW q \in Requests, Commit(q)
    PROVE  Inv'
<1>1. TypeOK /\ History /\ Undisturbed /\ OneCall
  BY DEF Inv
<1>2. PICK f \in FilingJobs : work[q] = f /\ f.at = "commit"
  BY JobKinds DEF Commit, At, Inv, TypeOK
<1>3. /\ Busy(q) /\ Uploads(q) /\ f.on = "document" /\ Done(q)
      /\ UNCHANGED drawingVars /\ store' = store /\ disturbed' = disturbed /\ halted' = halted
  BY <1>2 DEF Commit, At, Busy, Uploads, FilingJobs
<1>4. Approvals' /\ Building'
  BY <1>2, <1>3, DocumentCall DEF Done
<1>5. CASE UNCHANGED <<document, versions>>
  <2>1. UNCHANGED docVars
    BY <1>3, <1>5 DEF docVars
  <2>2. History' /\ Undisturbed' /\ OneCall' /\ work' \in [Requests -> Jobs \cup {NoWork}]
    BY <1>3, <2>1, EndKeepsDocument
  <2>3. TypeOK'
    BY <1>1, <1>3, <1>5, <2>2 DEF TypeOK, drawingVars
  <2>4. QED
    BY <1>4, <2>2, <2>3 DEF Inv
<1>6. CASE ~UNCHANGED <<document, versions>>
  <2> DEFINE L == Len(versions)
  <2>1. /\ f.no = L + 1 /\ f.old \in {0, L}
        /\ document' = [current |-> L + 1,
                        status |-> IF f.old # 0 \/ f.status = "draft" THEN "in_review"
                                   ELSE f.status]
        /\ versions' \in Seq(Rows) /\ Len(versions') = L + 1
        /\ versions'[L + 1] = NewVersion(f)
        /\ \A i \in 1..L :
              /\ versions'[i].no = versions[i].no /\ versions'[i].name = versions[i].name
              /\ versions'[i].file = versions[i].file /\ versions'[i].signed = versions[i].signed
              /\ versions'[i].next = IF f.old # 0 /\ i = f.old THEN L + 1 ELSE versions[i].next
    BY <1>1, <1>2, <1>3, <1>6, CommitAppends
  <2>2. /\ versions \in Seq(Rows) /\ L \in Nat /\ DOMAIN versions = 1..L
        /\ \A i \in 1..L : versions[i] \in Rows /\ versions[i].no = i
    BY <1>1, LenProperties, ElementOfSeq DEF TypeOK, History
  <2>3. /\ f.no \in 1..MaxVersions /\ f.old \in 0..MaxVersions /\ f.file \in Files
        /\ f.name \in Names /\ f.status \in DocumentStatuses
    BY DEF FilingJobs
  <2>4. f.status # "absent" /\ document.status # "absent"
    BY <1>1, <1>2, <1>3 DEF History
  <2>5. /\ document' \in [status : DocumentStatuses, current : Nat]
         /\ document'.current = L + 1 /\ document'.status # "absent"
    BY <2>1, <2>2, <2>3, <2>4 DEF DocumentStatuses
  <2>6. /\ work' \in [Requests -> Jobs \cup {NoWork}] /\ OneCall' /\ work'[q] = NoWork
         /\ \A p \in Requests \ {q} : work'[p] = work[p]
    BY <1>1, <1>3, StepCall DEF Done
  <2>7. TypeOK'
    BY <1>1, <1>3, <2>1, <2>5, <2>6 DEF TypeOK, drawingVars
  <2>8. \A p \in Requests :
           /\ Uploads(p)' => p # q /\ Uploads(p) /\ work'[p] = work[p]
           /\ Signs(p)' => p # q /\ Signs(p) /\ work'[p] = work[p]
    BY <2>6 DEF Uploads, Signs, Busy
  <2>9. History'
    <3>1. \A i \in 1..(L + 1) :
            /\ versions'[i].no = i
            /\ versions'[i].next \in {0, i + 1} /\ versions'[i].next <= L + 1
      <4>1. ASSUME NEW i \in 1..L
            PROVE  /\ versions'[i].no = i
                   /\ versions'[i].next \in {0, i + 1} /\ versions'[i].next <= L + 1
        <5>1. versions[i].next \in {0, i + 1} /\ versions[i].next <= L
          BY <1>1 DEF History
        <5>2. QED
          BY <2>2, <2>1, <5>1
      <4>2. /\ versions'[L + 1].no = L + 1 /\ versions'[L + 1].next = 0
        BY <2>1 DEF NewVersion
      <4>3. QED
        BY <2>2, <4>1, <4>2
    <3>2. ASSUME NEW p \in Requests, Uploads(p)'
          PROVE  /\ work'[p].no <= L + 2 /\ work'[p].old \in {0, work'[p].no - 1}
                 /\ work'[p].status # "absent"
      <4>1. Uploads(p) /\ work'[p] = work[p]
        BY <2>8, <3>2
      <4>2. work[p] \in FilingJobs
        BY <1>1, <4>1, JobKinds DEF Uploads, Busy, TypeOK
      <4>3. /\ work[p].no <= L + 1 /\ work[p].old \in {0, work[p].no - 1}
            /\ work[p].status # "absent"
        BY <1>1, <4>1 DEF History
      <4>4. work[p].no \in Nat
        BY <4>2, VersionsAssumption DEF FilingJobs
      <4>5. QED
        BY <2>2, <4>1, <4>3, <4>4
    <3>3. \A p \in Requests : Signs(p)' => work'[p].id \in 1..(L + 1)
      BY <1>1, <2>2, <2>8 DEF History
    <3>4. QED
      BY <2>2, <2>1, <2>5, <3>1, <3>2, <3>3 DEF History
  <2>10. Undisturbed'
    <3> SUFFICES ASSUME "document" \notin disturbed PROVE Undisturbed'
      BY <1>3 DEF Undisturbed
    <3>1. \A p \in Requests \ {q} : ~Uploads(p) /\ ~Signs(p)
      <4>1. \A p \in Requests : Busy(p) => work[p] \in Jobs
        BY <1>1 DEF TypeOK, Busy
      <4>2. \A p \in Requests \ {q} : Busy(p) => work[p].on # "document"
        BY <1>1, <1>2, <1>3 DEF OneCall
      <4>3. QED
        BY <4>1, <4>2, JobKinds DEF Uploads, Signs, FilingJobs, SigningJobs
    <3>2. \A p \in Requests : ~Uploads(p)' /\ ~Signs(p)'
      BY <2>8, <3>1
    <3>3. \A i \in 1..L : versions'[i].signed => Kept(versions[i])
      BY <1>1, <2>1 DEF Undisturbed
    <3>4. \A i \in 1..L : versions'[i].signed => Kept(versions[i])'
      BY <1>3, <2>1, <3>3 DEF Kept
    <3>5. \A i \in 1..(L + 1) :
            versions'[i].signed => store'[<<versions'[i].no, versions'[i].name>>] = versions'[i].file
      <4>1. \A i \in 1..L :
              versions'[i].signed =>
                store'[<<versions'[i].no, versions'[i].name>>] = versions'[i].file
        BY <1>3, <2>1, <3>3 DEF Kept
      <4>2. ~versions'[L + 1].signed
        BY <2>1 DEF NewVersion
      <4>3. QED
        BY <2>2, <4>1, <4>2
    <3>6. (\A p \in Requests : ~(Busy(p) /\ work[p].at \in {"guard", "sign"}))'
      BY <3>2 DEF Signs
    <3>7. QED
      BY <2>1, <3>2, <3>5, <3>6 DEF Undisturbed, Kept
  <2>11. QED
    BY <1>4, <2>6, <2>7, <2>9, <2>10 DEF Inv
<1>7. QED
  BY <1>5, <1>6

SignedRow(v) == [v EXCEPT !.signed = TRUE, !.signatures = v.signatures + 1]

(* Signing changes nothing else of a version.                              *)
LEMMA SignedRows ==
    ASSUME NEW v \in Rows
    PROVE  /\ SignedRow(v) \in Rows
           /\ SignedRow(v).no = v.no /\ SignedRow(v).name = v.name
           /\ SignedRow(v).file = v.file /\ SignedRow(v).next = v.next
<1> DEFINE x == [[v EXCEPT !.signed = TRUE] EXCEPT !.signatures = v.signatures + 1]
<1>1. SignedRow(v) = x
  BY DEF SignedRow
<1>2. PICK y \in Rows : y = [v EXCEPT !.signed = TRUE]
  BY DEF Rows
<1>3. x \in Rows
  <2>1. v.signatures + 1 \in Nat
    BY DEF Rows
  <2>2. \A n \in Nat : [y EXCEPT !.signatures = n] \in Rows
    BY DEF Rows
  <2>3. QED
    BY <1>2, <2>1, <2>2
<1>4. x.no = v.no /\ x.name = v.name /\ x.file = v.file /\ x.next = v.next
  BY DEF Rows
<1>5. QED
  BY <1>1, <1>3, <1>4

(* What is signed was compared with what is stored.                        *)
LEMMA SignKeepsInv ==
    ASSUME Inv, NEW q \in Requests, Sign(q)
    PROVE  Inv'
<1>1. TypeOK /\ History /\ Undisturbed /\ OneCall
  BY DEF Inv
<1>2. PICK s \in SigningJobs : work[q] = s /\ s.at = "sign"
  BY JobKinds DEF Sign, At, Inv, TypeOK
<1>3. /\ Busy(q) /\ Signs(q) /\ s.on = "document" /\ Done(q)
      /\ UNCHANGED drawingVars /\ store' = store /\ disturbed' = disturbed /\ halted' = halted
      /\ document' = [document EXCEPT !.status = "signed"]
  BY <1>2 DEF Sign, At, Busy, Signs, SigningJobs
<1>4. Approvals' /\ Building'
  BY <1>2, <1>3, DocumentCall DEF Done
<1>5. s.id \in 1..Len(versions) /\ Len(versions) \in Nat /\ versions \in Seq(Rows)
  BY <1>1, <1>2, <1>3, LenProperties DEF History, TypeOK
<1>6. versions' = [versions EXCEPT ![s.id] = SignedRow(versions[s.id])]
  BY <1>2 DEF Sign, SignedRow
<1>7. \A i \in 1..Len(versions) : versions[i] \in Rows
  BY <1>5, ElementOfSeq
<1>8. /\ versions' \in Seq(Rows) /\ Len(versions') = Len(versions)
      /\ \A i \in 1..Len(versions) :
            versions'[i] = IF i = s.id THEN SignedRow(versions[i]) ELSE versions[i]
  <2>1. SignedRow(versions[s.id]) \in Rows
    BY <1>5, <1>7, SignedRows
  <2>2. QED
    BY <1>5, <1>6, <2>1, ExceptSeq
<1>9. \A i \in 1..Len(versions) :
        /\ versions'[i].no = versions[i].no /\ versions'[i].name = versions[i].name
        /\ versions'[i].file = versions[i].file /\ versions'[i].next = versions[i].next
        /\ versions'[i].signed => versions[i].signed \/ i = s.id
  BY <1>7, <1>8, SignedRows
<1>10. /\ document' \in [status : DocumentStatuses, current : Nat]
       /\ document'.current = document.current /\ document'.status # "absent"
  BY <1>1, <1>3 DEF TypeOK, DocumentStatuses
<1>11. /\ work' \in [Requests -> Jobs \cup {NoWork}] /\ OneCall' /\ work'[q] = NoWork
       /\ \A p \in Requests \ {q} : work'[p] = work[p]
  BY <1>1, <1>3, StepCall DEF Done
<1>12. TypeOK'
  BY <1>1, <1>3, <1>8, <1>10, <1>11 DEF TypeOK, drawingVars
<1>13. \A p \in Requests :
         /\ Uploads(p)' => p # q /\ Uploads(p) /\ work'[p] = work[p]
         /\ Signs(p)' => p # q /\ Signs(p) /\ work'[p] = work[p]
  BY <1>11 DEF Uploads, Signs, Busy
<1>14. History'
  BY <1>1, <1>8, <1>9, <1>10, <1>13 DEF History
<1>15. Undisturbed'
  <2> SUFFICES ASSUME "document" \notin disturbed PROVE Undisturbed'
    BY <1>3 DEF Undisturbed
  <2>1. Kept(versions[s.id]) /\ \A i \in 1..Len(versions) : versions[i].signed => Kept(versions[i])
    BY <1>1, <1>2, <1>3 DEF Undisturbed
  <2>2. \A i \in 1..Len(versions) :
          versions'[i].signed => store'[<<versions'[i].no, versions'[i].name>>] = versions'[i].file
    BY <1>3, <1>9, <2>1 DEF Kept
  <2>3. \A p \in Requests \ {q} : ~Uploads(p) /\ ~Signs(p)
    <3>1. \A p \in Requests : Busy(p) => work[p] \in Jobs
      BY <1>1 DEF TypeOK, Busy
    <3>2. \A p \in Requests \ {q} : Busy(p) => work[p].on # "document"
      BY <1>1, <1>2, <1>3 DEF OneCall
    <3>3. QED
      BY <3>1, <3>2, JobKinds DEF Uploads, Signs, FilingJobs, SigningJobs
  <2>4. \A p \in Requests : ~Uploads(p)' /\ ~Signs(p)'
    BY <1>13, <2>3
  <2>5. (\A p \in Requests : ~(Busy(p) /\ work[p].at \in {"guard", "sign"}))'
    BY <2>4 DEF Signs
  <2>6. QED
    BY <1>8, <2>2, <2>4, <2>5 DEF Undisturbed, Kept
<1>16. QED
  BY <1>4, <1>11, <1>12, <1>14, <1>15 DEF Inv

-----------------------------------------------------------------------------
(* The drawing *)

(* A call on the drawing that goes on or ends leaves the document alone;   *)
(* while the drawing is undisturbed it is the only one.                    *)
LEMMA RevisionCall ==
    ASSUME Inv, NEW q \in Requests, NEW w \in Jobs \cup {NoWork}, Busy(q),
           work[q].on = "drawing",
           work' = [work EXCEPT ![q] = w], w # NoWork => w.on = "drawing",
           UNCHANGED docVars, disturbed' = disturbed
    PROVE  /\ History' /\ Undisturbed' /\ OneCall'
           /\ work' \in [Requests -> Jobs \cup {NoWork}] /\ work'[q] = w
           /\ \A p \in Requests \ {q} : work'[p] = work[p]
           /\ "drawing" \notin disturbed => \A p \in Requests \ {q} : ~Revises(p) /\ ~Revises(p)'
<1>1. /\ OneCall' /\ work' \in [Requests -> Jobs \cup {NoWork}] /\ work'[q] = w
      /\ \A p \in Requests \ {q} : work'[p] = work[p]
  BY StepCall DEF Inv
<1>2. w # NoWork => w.at \notin {"store", "commit", "download", "guard", "sign"}
  BY JobKinds DEF FilingJobs, SigningJobs
<1>3. \A p \in Requests : Uploads(p)' \/ Signs(p)' => work'[p] = work[p]
  BY <1>1, <1>2 DEF Uploads, Signs, Busy
<1>4. History' /\ Undisturbed'
  BY <1>3, DocumentKept
<1>5. "drawing" \notin disturbed => \A p \in Requests \ {q} : ~Revises(p) /\ ~Revises(p)'
  BY <1>1 DEF Inv, OneCall, Revises, Busy
<1>6. QED
  BY <1>1, <1>4, <1>5

(* A call on the drawing begins.                                           *)
LEMMA RevisionBegins ==
    ASSUME Inv, NEW q \in Requests, NEW stage \in {"submit", "converge"}, NEW r \in Revisions,
           Begin(q, Revising(stage, r)), UNCHANGED docVars
    PROVE  \E w \in RevisingJobs :
              /\ w = Revising(stage, r) /\ w \in Jobs /\ w # NoWork
              /\ w.on = "drawing" /\ w.at = stage /\ w.rev = r /\ w.previous = NoRevision
              /\ History' /\ Undisturbed' /\ OneCall'
              /\ work' \in [Requests -> Jobs \cup {NoWork}] /\ work[q] = NoWork /\ work'[q] = w
              /\ \A p \in Requests \ {q} : work'[p] = work[p]
              /\ disturbed' \in SUBSET Subjects /\ disturbed \subseteq disturbed'
              /\ halted' = halted
              /\ "drawing" \notin disturbed' =>
                    /\ ~InFlight("drawing")
                    /\ \A p \in Requests \ {q} : ~Revises(p)'
<1>1. PICK w \in RevisingJobs :
        /\ w = Revising(stage, r)
        /\ w.on = "drawing" /\ w.at = stage /\ w.rev = r /\ w.previous = NoRevision
  BY DEF Revising, RevisingJobs
<1>2. w \in Jobs
  BY DEF Jobs
<1>3. /\ work' \in [Requests -> Jobs \cup {NoWork}]
      /\ disturbed' \in SUBSET Subjects
      /\ OneCall' /\ disturbed \subseteq disturbed' /\ halted' = halted
      /\ work[q] = NoWork /\ work'[q] = w /\ w # NoWork
      /\ \A p \in Requests \ {q} : work'[p] = work[p]
      /\ "drawing" \notin disturbed' => \A p \in Requests : Busy(p) => work[p].on # "drawing"
  BY <1>1, <1>2, BeginCall DEF Inv
<1>4. \A p \in Requests : Uploads(p)' \/ Signs(p)' => work'[p] = work[p]
  BY <1>1, <1>3 DEF Uploads, Signs, Busy
<1>5. History' /\ Undisturbed'
  BY <1>3, <1>4, DocumentKept
<1>6. "drawing" \notin disturbed' =>
        ~InFlight("drawing") /\ \A p \in Requests \ {q} : ~Revises(p)'
  BY <1>3 DEF InFlight, Revises, Busy
<1>7. QED
  BY <1>1, <1>2, <1>3, <1>5, <1>6

(* transitionRevision reads a draft revision and goes on to submit it.     *)
LEMMA AskSubmitKeepsInv ==
    ASSUME Inv, NEW q \in Requests, NEW r \in Revisions, AskSubmit(q, r)
    PROVE  Inv'
<1>1. PICK w \in RevisingJobs :
        /\ w \in Jobs /\ w # NoWork
        /\ w.on = "drawing" /\ w.at = "submit" /\ w.rev = r
        /\ History' /\ Undisturbed' /\ OneCall'
        /\ work' \in [Requests -> Jobs \cup {NoWork}] /\ work[q] = NoWork /\ work'[q] = w
        /\ \A p \in Requests \ {q} : work'[p] = work[p]
        /\ disturbed' \in SUBSET Subjects /\ disturbed \subseteq disturbed'
        /\ halted' = halted
        /\ "drawing" \notin disturbed' =>
              ~InFlight("drawing") /\ \A p \in Requests \ {q} : ~Revises(p)'
  BY RevisionBegins DEF AskSubmit, docVars
<1>2. /\ UNCHANGED <<document, versions, store, revision, flow, head, approved>>
      /\ revision[r] = "for_information"
  BY DEF AskSubmit, docVars, drawingVars
<1>3. TypeOK'
  BY <1>1, <1>2 DEF Inv, TypeOK
<1>4. Approvals'
  BY <1>1, <1>2 DEF Inv, Approvals, OnlyApprovedBuilt, Busy
<1>5. Building'
  <2> SUFFICES ASSUME "drawing" \notin disturbed' \cup halted' PROVE Building'
    BY DEF Building
  <2>1. OnlyBuilt({head})'
    BY <1>1, <1>2 DEF Inv, Building, OnlyBuilt
  <2>2. ~Revises(q) /\ Revises(q)' /\ InFlight("drawing")'
    BY <1>1 DEF Revises, Busy, InFlight
  <2>3. QED
    BY <1>1, <1>2, <2>1, <2>2 DEF Building
<1>6. QED
  BY <1>1, <1>3, <1>4, <1>5 DEF Inv

(* The workflow engine approves the revision: the call that converges it   *)
(* starts, and has not read the drawing yet.                               *)
LEMMA ApproveKeepsInv ==
    ASSUME Inv, NEW q \in Requests, NEW r \in Revisions, Approve(q, r)
    PROVE  Inv'
<1>1. PICK w \in RevisingJobs :
        /\ w \in Jobs /\ w # NoWork
        /\ w.on = "drawing" /\ w.at = "converge" /\ w.rev = r /\ w.previous = NoRevision
        /\ History' /\ Undisturbed' /\ OneCall'
        /\ work' \in [Requests -> Jobs \cup {NoWork}] /\ work[q] = NoWork /\ work'[q] = w
        /\ \A p \in Requests \ {q} : work'[p] = work[p]
        /\ disturbed' \in SUBSET Subjects /\ disturbed \subseteq disturbed'
        /\ halted' = halted
        /\ "drawing" \notin disturbed' =>
              ~InFlight("drawing") /\ \A p \in Requests \ {q} : ~Revises(p)'
  BY RevisionBegins DEF Approve, docVars
<1>2. /\ UNCHANGED <<document, versions, store, revision, head>>
      /\ flow' = [flow EXCEPT ![r] = "approved"] /\ approved' = approved \cup {r}
  BY DEF Approve, docVars
<1>3. TypeOK'
  BY <1>1, <1>2 DEF Inv, TypeOK, FlowStatuses
<1>4. Approvals'
  BY <1>1, <1>2 DEF Inv, Approvals, OnlyApprovedBuilt, Busy
<1>5. Building'
  <2> SUFFICES ASSUME "drawing" \notin disturbed' \cup halted' PROVE Building'
    BY DEF Building
  <2>1. OnlyBuilt({head})'
    BY <1>1, <1>2 DEF Inv, Building, OnlyBuilt
  <2>2. ~Revises(q) /\ Revises(q)' /\ InFlight("drawing")'
    BY <1>1 DEF Revises, Busy, InFlight
  <2>3. QED
    BY <1>1, <1>2, <2>1, <2>2 DEF Building
<1>6. QED
  BY <1>1, <1>3, <1>4, <1>5 DEF Inv

(* A revision is created, or the workflow goes on without an approval.     *)
LEMMA OutsideKeepsInv ==
    ASSUME Inv, NEW r \in Revisions,
           CreateRevision(r) \/ \E outcome \in FlowStatuses : Decide(r, outcome)
    PROVE  Inv'
<1>1. /\ UNCHANGED <<document, versions, store, head, work, approved, disturbed, halted>>
      /\ UNCHANGED docVars
      /\ \/ revision' = revision /\ flow' \in [Revisions -> FlowStatuses]
         \/ /\ revision[r] = "absent" /\ flow' = flow
            /\ revision' = [revision EXCEPT ![r] = "for_information"]
  BY DEF CreateRevision, Decide, docVars, Inv, TypeOK
<1>2. /\ revision \in [Revisions -> RevisionStatuses]
      /\ flow \in [Revisions -> FlowStatuses]
  BY DEF Inv, TypeOK
<1>3. /\ revision' \in [Revisions -> RevisionStatuses]
      /\ \A x \in Revisions :
            /\ revision'[x] \in {"for_construction", "superseded"} <=>
                  revision[x] \in {"for_construction", "superseded"}
            /\ revision'[x] = "for_construction" <=> revision[x] = "for_construction"
            /\ revision[x] = "for_information" => revision'[x] = "for_information"
  BY <1>1, <1>2 DEF RevisionStatuses
<1>4. TypeOK' /\ OneCall'
  BY <1>1, <1>2, <1>3 DEF Inv, TypeOK, OneCall, Busy
<1>5. History' /\ Undisturbed'
  BY <1>1, DocumentKept
<1>6. Approvals'
  BY <1>1, <1>3 DEF Inv, Approvals, OnlyApprovedBuilt, Busy
<1>7. Building'
  <2>1. \A p \in Requests : Busy(p) => work[p] \in Jobs
    BY DEF Inv, TypeOK, Busy
  <2>2. \A p \in Requests : Revises(p) => work[p].rev \in Revisions
    BY <2>1, JobKinds DEF Revises, RevisingJobs
  <2>3. \A S : OnlyBuilt(S) => (\A x \in Revisions : revision'[x] = "for_construction" <=> x \in S)
    BY <1>3 DEF OnlyBuilt
  <2>4. QED
    BY <1>1, <1>3, <2>2, <2>3 DEF Inv, Building, OnlyBuilt, Revises, Busy, InFlight
<1>8. QED
  BY <1>4, <1>5, <1>6, <1>7 DEF Inv

(* What RevisionCall needs of a call on the drawing that goes on.          *)
LEMMA RevisionGoesOn ==
    ASSUME Inv, NEW q \in Requests, NEW stage \in {"open", "construct", "retire", "point"},
           Busy(q),
           work[q].at \in {"submit", "converge", "construct", "retire"},
           GoTo(q, stage), UNCHANGED docVars, disturbed' = disturbed
    PROVE  \E v, w \in RevisingJobs :
              /\ work[q] = v /\ work'[q] = w
              /\ w # NoWork /\ w.on = "drawing" /\ w.at = stage
              /\ w.rev = v.rev /\ w.previous = v.previous
              /\ History' /\ Undisturbed' /\ OneCall'
              /\ work' \in [Requests -> Jobs \cup {NoWork}]
              /\ \A p \in Requests \ {q} : work'[p] = work[p]
              /\ "drawing" \notin disturbed =>
                    \A p \in Requests \ {q} : ~Revises(p) /\ ~Revises(p)'
<1>1. PICK v \in RevisingJobs : work[q] = v /\ v.on = "drawing"
  BY JobKinds DEF Inv, TypeOK, Busy, RevisingJobs
<1>2. PICK w \in Jobs :
        /\ work' = [work EXCEPT ![q] = w]
        /\ w # NoWork /\ w.at = stage /\ w.on = "drawing"
        /\ w = [v EXCEPT !.at = stage]
  BY <1>1, NextQuery DEF Inv
<1>3. w \in RevisingJobs /\ w.rev = v.rev /\ w.previous = v.previous
  BY <1>1, <1>2 DEF RevisingJobs
<1>4. QED
  BY <1>1, <1>2, <1>3, RevisionCall

(* A revision's status is written when it is submitted, before its         *)
(* workflow is started.                                                    *)
LEMMA SubmitKeepsInv ==
    ASSUME Inv, NEW q \in Requests, Submit(q)
    PROVE  Inv'
<1>1. /\ Busy(q) /\ work[q].at = "submit" /\ GoTo(q, "open")
      /\ UNCHANGED <<document, versions, store, flow, head, approved, disturbed, halted>>
      /\ UNCHANGED docVars
      /\ revision' = [revision EXCEPT ![work[q].rev] = "for_approval"]
  BY DEF Submit, At, Busy, docVars
<1>2. PICK v, w \in RevisingJobs :
        /\ work[q] = v /\ work'[q] = w
        /\ w # NoWork /\ w.on = "drawing" /\ w.at = "open"
        /\ w.rev = v.rev /\ w.previous = v.previous
        /\ History' /\ Undisturbed' /\ OneCall'
        /\ work' \in [Requests -> Jobs \cup {NoWork}]
        /\ \A p \in Requests \ {q} : work'[p] = work[p]
        /\ "drawing" \notin disturbed => \A p \in Requests \ {q} : ~Revises(p) /\ ~Revises(p)'
  BY <1>1, RevisionGoesOn
<1>3. v.rev \in Revisions /\ v.on = "drawing" /\ revision \in [Revisions -> RevisionStatuses]
  BY DEF RevisingJobs, Inv, TypeOK
<1>4. TypeOK'
  BY <1>1, <1>2, <1>3 DEF Inv, TypeOK, RevisionStatuses
<1>5. Approvals'
  BY <1>1, <1>2, <1>3 DEF Inv, Approvals, OnlyApprovedBuilt, Busy
<1>6. Building'
  <2> SUFFICES ASSUME "drawing" \notin disturbed \cup halted PROVE Building'
    BY <1>1 DEF Building
  <2>1. Revises(q) /\ Revises(q)' /\ InFlight("drawing")'
    BY <1>1, <1>2, <1>3 DEF Revises, Busy, InFlight
  <2>2. OnlyBuilt({head}) /\ revision[v.rev] = "for_information"
    BY <1>1, <1>2, <2>1 DEF Inv, Building
  <2>3. OnlyBuilt({head})'
    BY <1>1, <1>2, <1>3, <2>2 DEF OnlyBuilt
  <2>4. QED
    BY <1>1, <1>2, <2>1, <2>3 DEF Building
<1>7. QED
  BY <1>2, <1>4, <1>5, <1>6 DEF Inv

(* A call on the drawing that ends.                                        *)
LEMMA RevisionEnds ==
    ASSUME Inv, NEW q \in Requests, Busy(q),
           work[q].at \in {"submit", "open", "converge", "construct", "retire", "point"},
           Done(q), UNCHANGED docVars, disturbed' = disturbed
    PROVE  \E v \in RevisingJobs :
              /\ work[q] = v /\ v.on = "drawing" /\ work'[q] = NoWork
              /\ History' /\ Undisturbed' /\ OneCall'
              /\ work' \in [Requests -> Jobs \cup {NoWork}]
              /\ \A p \in Requests \ {q} : work'[p] = work[p]
              /\ "drawing" \notin disturbed =>
                    ~InFlight("drawing")' /\ \A p \in Requests : ~Revises(p)'
<1>1. PICK v \in RevisingJobs : work[q] = v /\ v.on = "drawing"
  BY JobKinds DEF Inv, TypeOK, Busy, RevisingJobs
<1>2. /\ History' /\ Undisturbed' /\ OneCall'
      /\ work' \in [Requests -> Jobs \cup {NoWork}] /\ work'[q] = NoWork
      /\ \A p \in Requests \ {q} : work'[p] = work[p]
      /\ "drawing" \notin disturbed => \A p \in Requests \ {q} : ~Revises(p) /\ ~Revises(p)'
  BY <1>1, RevisionCall DEF Done
<1>3. ~Revises(q)'
  BY <1>2 DEF Revises, Busy
<1>4. "drawing" \notin disturbed => ~InFlight("drawing")' /\ \A p \in Requests : ~Revises(p)'
  BY <1>2, <1>3 DEF InFlight, Revises, Busy
<1>5. QED
  BY <1>1, <1>2, <1>4

(* The workflow of a submitted revision is started, or was already.        *)
LEMMA OpenKeepsInv ==
    ASSUME Inv, NEW q \in Requests, Open(q)
    PROVE  Inv'
<1>1. /\ Busy(q) /\ work[q].at = "open" /\ Done(q)
      /\ UNCHANGED <<document, versions, store, revision, head, approved, disturbed, halted>>
      /\ UNCHANGED docVars
  BY DEF Open, At, Busy, docVars
<1>2. PICK v \in RevisingJobs :
        /\ work[q] = v /\ v.on = "drawing" /\ work'[q] = NoWork
        /\ History' /\ Undisturbed' /\ OneCall'
        /\ work' \in [Requests -> Jobs \cup {NoWork}]
        /\ \A p \in Requests \ {q} : work'[p] = work[p]
        /\ "drawing" \notin disturbed =>
              ~InFlight("drawing")' /\ \A p \in Requests : ~Revises(p)'
  BY <1>1, RevisionEnds
<1>3. flow' \in [Revisions -> FlowStatuses]
  BY DEF Inv, TypeOK, Open, FlowStatuses, Running
<1>4. TypeOK'
  BY <1>1, <1>2, <1>3 DEF Inv, TypeOK
<1>5. Approvals'
  BY <1>1, <1>2 DEF Inv, Approvals, OnlyApprovedBuilt, Busy
<1>6. Building'
  <2> SUFFICES ASSUME "drawing" \notin disturbed \cup halted PROVE Building'
    BY <1>1 DEF Building
  <2>1. OnlyBuilt({head})
    BY <1>1, <1>2 DEF Inv, Building, Revises, Busy
  <2>2. QED
    BY <1>1, <1>2, <2>1 DEF Building, OnlyBuilt
<1>7. QED
  BY <1>2, <1>4, <1>5, <1>6 DEF Inv

(* The handler reads the head that it will retire.                         *)
LEMMA ConvergeKeepsInv ==
    ASSUME Inv, NEW q \in Requests, Converge(q)
    PROVE  Inv'
<1>1. /\ Busy(q) /\ work[q].at = "converge"
      /\ UNCHANGED <<document, versions, store, revision, flow, head, approved, disturbed, halted>>
      /\ UNCHANGED docVars
  BY DEF Converge, At, Busy, docVars, drawingVars
<1>2. PICK v \in RevisingJobs : work[q] = v /\ v.on = "drawing" /\ v.at = "converge"
  BY <1>1, JobKinds DEF Inv, TypeOK, Busy, RevisingJobs
<1>3. head \in Revisions \cup {NoRevision} /\ v.rev \in Revisions
  BY DEF Inv, TypeOK, RevisingJobs
<1>4. Revises(q) /\ v.rev \in approved /\ head \in approved \cup {NoRevision}
  BY <1>1, <1>2, <1>3 DEF Revises, Busy, Inv, Approvals, OnlyApprovedBuilt
<1>5. "drawing" \notin disturbed \cup halted => OnlyBuilt({head})
  BY <1>2, <1>4 DEF Inv, Building
<1>6. CASE revision[v.rev] = "for_construction"
  <2>1. Done(q)
    BY <1>2, <1>6 DEF Converge
  <2>2. /\ work'[q] = NoWork
        /\ History' /\ Undisturbed' /\ OneCall'
        /\ work' \in [Requests -> Jobs \cup {NoWork}]
        /\ \A p \in Requests \ {q} : work'[p] = work[p]
        /\ "drawing" \notin disturbed =>
              ~InFlight("drawing")' /\ \A p \in Requests : ~Revises(p)'
    BY <1>1, <1>2, <2>1, RevisionEnds
  <2>3. TypeOK'
    BY <1>1, <2>2 DEF Inv, TypeOK
  <2>4. Approvals'
    BY <1>1, <2>2 DEF Inv, Approvals, OnlyApprovedBuilt, Busy
  <2>5. Building'
    BY <1>1, <1>5, <2>2 DEF Building, OnlyBuilt
  <2>6. QED
    BY <2>2, <2>3, <2>4, <2>5 DEF Inv
<1>7. CASE revision[v.rev] # "for_construction"
  <2>1. work' = [work EXCEPT ![q] = [v EXCEPT !.at = "construct", !.previous = head]]
    BY <1>2, <1>7 DEF Converge
  <2>2. PICK w \in RevisingJobs :
          /\ w = [v EXCEPT !.at = "construct", !.previous = head]
          /\ w.on = "drawing" /\ w.at = "construct" /\ w.rev = v.rev /\ w.previous = head
    <3> DEFINE y == [v EXCEPT !.at = "construct"]
               x == [y EXCEPT !.previous = head]
    <3>1. y \in RevisingJobs /\ y.on = "drawing" /\ y.at = "construct" /\ y.rev = v.rev
      BY <1>2 DEF RevisingJobs
    <3>2. /\ x \in RevisingJobs /\ x.on = y.on /\ x.at = y.at /\ x.rev = y.rev
          /\ x.previous = head
      <4> HIDE DEF y
      <4>1. QED
        BY <1>3, <3>1 DEF RevisingJobs
    <3>3. [v EXCEPT !.at = "construct", !.previous = head]
             = [[v EXCEPT !.at = "construct"] EXCEPT !.previous = head]
      OBVIOUS
    <3>4. QED
      BY <3>1, <3>2, <3>3
  <2>3. w \in Jobs /\ w # NoWork /\ work' = [work EXCEPT ![q] = w]
    BY <2>1, <2>2, NoWorkAssumption DEF Jobs
  <2>4. /\ History' /\ Undisturbed' /\ OneCall'
        /\ work' \in [Requests -> Jobs \cup {NoWork}] /\ work'[q] = w
        /\ \A p \in Requests \ {q} : work'[p] = work[p]
        /\ "drawing" \notin disturbed => \A p \in Requests \ {q} : ~Revises(p) /\ ~Revises(p)'
    BY <1>1, <1>2, <2>2, <2>3, RevisionCall
  <2>5. TypeOK'
    BY <1>1, <2>4 DEF Inv, TypeOK
  <2>6. Approvals'
    BY <1>1, <1>4, <2>2, <2>4 DEF Inv, Approvals, OnlyApprovedBuilt, Busy
  <2>7. Building'
    <3> SUFFICES ASSUME "drawing" \notin disturbed \cup halted PROVE Building'
      BY <1>1 DEF Building
    <3>1. Revises(q)' /\ InFlight("drawing")'
      BY <2>2, <2>3, <2>4 DEF Revises, Busy, InFlight
    <3>2. OnlyBuilt({head})' /\ revision'[w.rev] # "for_construction" /\ w.previous = head'
      BY <1>1, <1>5, <1>7, <2>2 DEF OnlyBuilt
    <3>3. QED
      BY <1>1, <2>2, <2>4, <3>1, <3>2 DEF Building
  <2>8. QED
    BY <2>4, <2>5, <2>6, <2>7 DEF Inv
<1>8. QED
  BY <1>6, <1>7

(* From here until the old revision is retired two are for construction.   *)
LEMMA ConstructKeepsInv ==
    ASSUME Inv, NEW q \in Requests, Construct(q)
    PROVE  Inv'
<1>1. /\ Busy(q) /\ work[q].at = "construct"
      /\ UNCHANGED <<document, versions, store, flow, head, approved, disturbed, halted>>
      /\ UNCHANGED docVars
      /\ revision' = [revision EXCEPT ![work[q].rev] = "for_construction"]
  BY DEF Construct, At, Busy, docVars
<1> DEFINE last == work[q].previous \in {NoRevision, work[q].rev}
<1>2. PICK stage \in {"retire", "point"} : GoTo(q, stage) /\ (stage = "point" <=> last)
  BY DEF Construct
<1>3. PICK v, w \in RevisingJobs :
        /\ work[q] = v /\ work'[q] = w
        /\ w # NoWork /\ w.on = "drawing" /\ w.at = stage
        /\ w.rev = v.rev /\ w.previous = v.previous
        /\ History' /\ Undisturbed' /\ OneCall'
        /\ work' \in [Requests -> Jobs \cup {NoWork}]
        /\ \A p \in Requests \ {q} : work'[p] = work[p]
        /\ "drawing" \notin disturbed => \A p \in Requests \ {q} : ~Revises(p) /\ ~Revises(p)'
  BY <1>1, <1>2, RevisionGoesOn
<1>4. /\ v.rev \in Revisions /\ v.on = "drawing" /\ v.previous \in Revisions \cup {NoRevision}
      /\ revision \in [Revisions -> RevisionStatuses]
  BY DEF RevisingJobs, Inv, TypeOK
<1>5. v.rev \in approved /\ v.previous \in approved \cup {NoRevision}
  BY <1>1, <1>3 DEF Inv, Approvals
<1>6. TypeOK'
  BY <1>1, <1>3, <1>4 DEF Inv, TypeOK, RevisionStatuses
<1>7. Approvals'
  BY <1>1, <1>3, <1>4, <1>5 DEF Inv, Approvals, OnlyApprovedBuilt, Busy
<1>8. Building'
  <2> SUFFICES ASSUME "drawing" \notin disturbed \cup halted PROVE Building'
    BY <1>1 DEF Building
  <2>1. Revises(q) /\ Revises(q)' /\ InFlight("drawing")'
    BY <1>1, <1>3, <1>4 DEF Revises, Busy, InFlight
  <2>2. OnlyBuilt({head}) /\ v.previous = head /\ revision[v.rev] # "for_construction"
    BY <1>1, <1>3, <2>1 DEF Inv, Building
  <2>3. v.rev # head
    BY <1>4, <2>2 DEF OnlyBuilt
  <2>4. OnlyBuilt({v.rev, head})'
    BY <1>1, <1>3, <1>4, <2>2 DEF OnlyBuilt
  <2>5. head = NoRevision => OnlyBuilt({v.rev})'
    BY <1>1, <1>3, <1>4, <2>4, NoRevisionAssumption DEF OnlyBuilt
  <2>6. stage = "point" <=> head = NoRevision
    BY <1>2, <1>3, <2>2, <2>3
  <2>7. stage = "retire" => w.previous \in Revisions \ {w.rev} /\ OnlyBuilt({w.rev, w.previous})'
    BY <1>1, <1>3, <1>4, <2>2, <2>3, <2>4, <2>6 DEF OnlyBuilt
  <2>8. QED
    BY <1>1, <1>3, <2>1, <2>5, <2>6, <2>7 DEF Building
<1>9. QED
  BY <1>3, <1>6, <1>7, <1>8 DEF Inv

(* The convergence handler writes the status of the previous revision,     *)
(* which it read as the head of the drawing.                               *)
LEMMA RetireKeepsInv ==
    ASSUME Inv, NEW q \in Requests, Retire(q)
    PROVE  Inv'
<1>1. /\ Busy(q) /\ work[q].at = "retire" /\ GoTo(q, "point")
      /\ UNCHANGED <<document, versions, store, flow, head, approved, disturbed, halted>>
      /\ UNCHANGED docVars
      /\ revision' = [revision EXCEPT ![work[q].previous] = "superseded"]
  BY DEF Retire, At, Busy, docVars
<1>2. PICK v, w \in RevisingJobs :
        /\ work[q] = v /\ work'[q] = w
        /\ w # NoWork /\ w.on = "drawing" /\ w.at = "point"
        /\ w.rev = v.rev /\ w.previous = v.previous
        /\ History' /\ Undisturbed' /\ OneCall'
        /\ work' \in [Requests -> Jobs \cup {NoWork}]
        /\ \A p \in Requests \ {q} : work'[p] = work[p]
        /\ "drawing" \notin disturbed => \A p \in Requests \ {q} : ~Revises(p) /\ ~Revises(p)'
  BY <1>1, RevisionGoesOn
<1>3. /\ v.rev \in Revisions /\ v.on = "drawing" /\ v.previous \in Revisions \cup {NoRevision}
      /\ revision \in [Revisions -> RevisionStatuses]
  BY DEF RevisingJobs, Inv, TypeOK
<1>4. v.rev \in approved /\ v.previous \in approved \cup {NoRevision}
  BY <1>1, <1>2 DEF Inv, Approvals
<1>5. TypeOK'
  BY <1>1, <1>2, <1>3 DEF Inv, TypeOK, RevisionStatuses
<1>6. Approvals'
  BY <1>1, <1>2, <1>3, <1>4, NoRevisionAssumption DEF Inv, Approvals, OnlyApprovedBuilt, Busy
<1>7. Building'
  <2> SUFFICES ASSUME "drawing" \notin disturbed \cup halted PROVE Building'
    BY <1>1 DEF Building
  <2>1. Revises(q) /\ Revises(q)' /\ InFlight("drawing")'
    BY <1>1, <1>2, <1>3 DEF Revises, Busy, InFlight
  <2>2. v.previous \in Revisions \ {v.rev} /\ OnlyBuilt({v.rev, v.previous})
    BY <1>1, <1>2, <2>1 DEF Inv, Building
  <2>3. OnlyBuilt({v.rev})'
    BY <1>1, <1>2, <1>3, <2>2 DEF OnlyBuilt
  <2>4. QED
    BY <1>1, <1>2, <2>1, <2>3 DEF Building, OnlyBuilt
<1>8. QED
  BY <1>2, <1>5, <1>6, <1>7 DEF Inv

(* The convergence handler points the drawing at the approved revision,    *)
(* the last of its three updates.                                          *)
LEMMA PointKeepsInv ==
    ASSUME Inv, NEW q \in Requests, Point(q)
    PROVE  Inv'
<1>1. /\ Busy(q) /\ work[q].at = "point" /\ Done(q)
      /\ UNCHANGED <<document, versions, store, revision, flow, approved, disturbed, halted>>
      /\ UNCHANGED docVars
      /\ head' = work[q].rev
  BY DEF Point, At, Busy, docVars
<1>2. PICK v \in RevisingJobs :
        /\ work[q] = v /\ v.on = "drawing" /\ work'[q] = NoWork
        /\ History' /\ Undisturbed' /\ OneCall'
        /\ work' \in [Requests -> Jobs \cup {NoWork}]
        /\ \A p \in Requests \ {q} : work'[p] = work[p]
        /\ "drawing" \notin disturbed =>
              ~InFlight("drawing")' /\ \A p \in Requests : ~Revises(p)'
  BY <1>1, RevisionEnds
<1>3. v.rev \in Revisions /\ v.rev \in approved
  BY <1>1, <1>2 DEF RevisingJobs, Inv, Approvals
<1>4. TypeOK'
  BY <1>1, <1>2, <1>3 DEF Inv, TypeOK
<1>5. Approvals'
  BY <1>1, <1>2, <1>3 DEF Inv, Approvals, OnlyApprovedBuilt, Busy
<1>6. Building'
  <2> SUFFICES ASSUME "drawing" \notin disturbed \cup halted PROVE Building'
    BY <1>1 DEF Building
  <2>1. OnlyBuilt({v.rev})
    BY <1>1, <1>2 DEF Inv, Building, Revises, Busy
  <2>2. QED
    BY <1>1, <1>2, <2>1 DEF Building, OnlyBuilt
<1>7. QED
  BY <1>2, <1>4, <1>5, <1>6 DEF Inv

-----------------------------------------------------------------------------

(* A cut-off leaves everything but the call as it is.                      *)
LEMMA CutOffKeepsInv ==
    ASSUME Inv, NEW q \in Requests, CutOff(q)
    PROVE  Inv'
<1>1. /\ Busy(q) /\ Done(q) /\ halted' = halted \cup {work[q].on}
      /\ UNCHANGED docVars /\ UNCHANGED drawingVars /\ disturbed' = disturbed
      /\ UNCHANGED <<document, versions, store, revision, flow, head, approved>>
  BY DEF CutOff, Busy, docVars, drawingVars
<1>2. /\ work' \in [Requests -> Jobs \cup {NoWork}] /\ OneCall' /\ work'[q] = NoWork
      /\ \A p \in Requests \ {q} : work'[p] = work[p]
      /\ History' /\ Undisturbed'
  BY <1>1, EndKeepsDocument
<1>3. work[q].on \in Subjects
  BY <1>1, JobKinds DEF Inv, TypeOK, Busy
<1>4. TypeOK'
  BY <1>1, <1>2, <1>3 DEF Inv, TypeOK
<1>5. Approvals'
  BY <1>1, <1>2 DEF Inv, Approvals, OnlyApprovedBuilt, Busy
<1>6. Building'
  <2>1. CASE work[q].on = "drawing"
    BY <1>1, <2>1 DEF Building
  <2>2. CASE work[q].on # "drawing"
    <3>1. \A p \in Requests : Revises(p) \/ Revises(p)' => work'[p] = work[p]
      BY <1>2, <2>2 DEF Revises, Busy
    <3>2. QED
      BY <1>1, <1>2, <3>1, DrawingKept
  <2>3. QED
    BY <2>1, <2>2
<1>7. QED
  BY <1>2, <1>4, <1>5, <1>6 DEF Inv

(* There is no document, no drawing and no call at first.                  *)
LEMMA InitInv == Init => Inv
<1> SUFFICES ASSUME Init PROVE Inv
  OBVIOUS
<1>1. document = [status |-> "absent", current |-> 0] /\ versions = <<>> /\ Len(versions) = 0
  BY DEF Init
<1>2. /\ revision = [r \in Revisions |-> "absent"] /\ flow = [r \in Revisions |-> "none"]
      /\ head = NoRevision /\ work = [q \in Requests |-> NoWork]
      /\ approved = {} /\ disturbed = {} /\ halted = {}
      /\ store = [key \in (1..MaxVersions) \X Names |-> NoFile]
  BY DEF Init
<1>3. /\ document \in [status : DocumentStatuses, current : Nat] /\ versions \in Seq(Rows)
  BY <1>1 DEF DocumentStatuses
<1>4. TypeOK
  BY <1>2, <1>3 DEF TypeOK, RevisionStatuses, FlowStatuses
<1>5. \A q \in Requests : ~Busy(q)
  BY <1>2 DEF Busy
<1>6. OneCall /\ History /\ Undisturbed
  BY <1>1, <1>5 DEF OneCall, History, Undisturbed, Uploads, Signs
<1>7. Approvals /\ Building
  BY <1>2, <1>5, NoRevisionAssumption DEF Approvals, OnlyApprovedBuilt, Building, OnlyBuilt, Revises
<1>8. QED
  BY <1>4, <1>6, <1>7 DEF Inv

(* Every step of the documents and of the drawings keeps the invariant.    *)
LEMMA NextInv == Inv /\ [Next]_vars => Inv'
<1> SUFFICES ASSUME Inv, [Next]_vars PROVE Inv'
  OBVIOUS
<1>1. CASE UNCHANGED vars
  <2>1. UNCHANGED docVars /\ UNCHANGED drawingVars /\ UNCHANGED <<work, disturbed, halted>>
    BY <1>1 DEF vars, docVars, drawingVars
  <2>2. TypeOK' /\ OneCall'
    BY <2>1 DEF Inv, TypeOK, OneCall, Busy, docVars, drawingVars
  <2>3. work' \in [Requests -> Jobs \cup {NoWork}]
    BY <2>2 DEF TypeOK
  <2>4. History' /\ Undisturbed' /\ Approvals' /\ Building'
    BY <2>1, <2>3, DocumentKept, DrawingKept
  <2>5. QED
    BY <2>2, <2>4 DEF Inv
<1>2. CASE Next
  BY <1>2, CreateDocumentKeepsInv, AskFilingKeepsInv, AskSignKeepsInv, StoreKeepsInv,
     CommitKeepsInv, CheckKeepsInv, SignKeepsInv, OutsideKeepsInv, AskSubmitKeepsInv,
     ApproveKeepsInv, SubmitKeepsInv, OpenKeepsInv, ConvergeKeepsInv, ConstructKeepsInv,
     RetireKeepsInv, PointKeepsInv, CutOffKeepsInv
     DEF Next
<1>3. QED
  BY <1>1, <1>2

(* The invariant holds in every reachable state.                           *)
LEMMA InvAlways == Spec => []Inv
BY InitInv, NextInv, PTL DEF Spec

(* Every variable keeps its type.                                          *)
THEOREM DocumentsTypes == Spec => []TypeOK
<1>1. Inv => TypeOK
  BY DEF Inv
<1>2. QED
  BY <1>1, InvAlways, PTL

(* However many uploads and supersessions race, wherever they are cut off, *)
(* the versions are numbered in the order of their creation.               *)
THEOREM DocumentsLinearHistory == Spec => []LinearHistory
<1>1. Inv => LinearHistory
  BY LenProperties DEF Inv, TypeOK, History, LinearHistory
<1>2. QED
  BY <1>1, InvAlways, PTL

(* As long as calls on the document do not overlap, what is stored for a   *)
(* signed version is the file that was signed.                             *)
THEOREM DocumentsSignedFileKept == Spec => []SignedFileKept
<1>1. Inv => SignedFileKept
  BY LenProperties DEF Inv, TypeOK, Undisturbed, Kept, SignedFileKept
<1>2. QED
  BY <1>1, InvAlways, PTL

(* However submissions and approvals race, only approved revisions are     *)
(* released, superseded or shown.                                          *)
THEOREM DocumentsOnlyApprovedBuilt == Spec => []OnlyApprovedBuilt
<1>1. Inv => OnlyApprovedBuilt
  BY DEF Inv, Approvals
<1>2. QED
  BY <1>1, InvAlways, PTL

(* Between undisturbed calls one revision is for construction, the head.   *)
THEOREM DocumentsOneForConstruction == Spec => []OneForConstruction
<1>1. Inv => OneForConstruction
  BY DEF Inv, Building, OnlyBuilt, OneForConstruction
<1>2. QED
  BY <1>1, InvAlways, PTL

(* A signed document stays signed until a version is superseded.           *)
THEOREM DocumentsSignedUntilSuperseded == Spec => SignedUntilSuperseded
<1> DEFINE A == document.status = "signed" /\ document'.status # "signed"
                   /\ "document" \notin disturbed'
                => \E i \in DOMAIN versions : versions'[i].next # versions[i].next
<1>1. Inv /\ [Next]_vars => [A]_vars
  <2> SUFFICES ASSUME Inv, Next, document.status = "signed", document'.status # "signed",
                      "document" \notin disturbed'
               PROVE  \E i \in DOMAIN versions : versions'[i].next # versions[i].next
    BY DEF vars
  <2>1. document \in [status : DocumentStatuses, current : Nat] /\ versions \in Seq(Rows)
    BY DEF Inv, TypeOK
  <2>2. PICK q \in Requests : Commit(q)
    BY <2>1 DEF Next, CreateDocument, AskUpload, AskSupersede, AskSign, Store, Download, Guard,
       Sign, CreateRevision, Decide, AskSubmit, Approve, Submit, Open, Converge, Construct,
       Retire, Point, CutOff, docVars
  <2>3. PICK f \in FilingJobs : work[q] = f /\ f.at = "commit"
    BY <2>2, JobKinds DEF Commit, At, Inv, TypeOK
  <2>4. /\ Uploads(q) /\ disturbed' = disturbed
        /\ \A i \in DOMAIN versions : versions[i].no # f.no
        /\ versions' = Append(IF f.old = 0 THEN versions
                              ELSE [versions EXCEPT ![f.old].next = Len(versions) + 1],
                              NewVersion(f))
        /\ document'.status = IF f.old # 0 \/ f.status = "draft" THEN "in_review" ELSE f.status
    BY <2>2, <2>3 DEF Commit, At, Uploads, Busy
  <2>5. /\ f.no = Len(versions) + 1 /\ f.status = document.status
        /\ f.old \in {0, f.no - 1} /\ Len(versions) \in Nat /\ DOMAIN versions = 1..Len(versions)
    BY <2>1, <2>3, <2>4, LenProperties DEF Inv, Undisturbed, History
  <2>6. f.old # 0
    BY <2>4, <2>5
  <2>7. f.old \in 1..Len(versions)
    BY <2>5, <2>6
  <2>8. versions[f.old] \in Rows /\ versions[f.old].next <= Len(versions)
    BY <2>1, <2>7, ElementOfSeq DEF Inv, History
  <2>9. versions'[f.old] = [versions[f.old] EXCEPT !.next = Len(versions) + 1]
    <3>1. [versions EXCEPT ![f.old].next = Len(versions) + 1] \in Seq(Rows)
      <4>1. [versions[f.old] EXCEPT !.next = Len(versions) + 1] \in Rows
        BY <2>5, <2>8 DEF Rows
      <4>2. QED
        BY <2>1, <2>7, <4>1, ExceptSeq
    <3>2. QED
      BY <2>1, <2>4, <2>5, <2>6, <2>7, <3>1
  <2>10. versions'[f.old].next = Len(versions) + 1
    BY <2>8, <2>9 DEF Rows
  <2>11. QED
    BY <2>5, <2>7, <2>8, <2>10 DEF Rows
<1>2. QED
  BY <1>1, InvAlways, PTL DEF Spec, SignedUntilSuperseded

-----------------------------------------------------------------------------
(* What the engine shows to a revision *)

(* Setting the status of a workflow as the engine does is one of the steps *)
(* it promises.                                                            *)
LEMMA FlowMoves ==
    ASSUME TypeOK, NEW r \in Revisions, NEW s, flow' = [flow EXCEPT ![r] = s],
           \/ s = "in_progress" /\ approved' = approved
           \/ s = "returned" /\ flow[r] = "in_progress" /\ approved' = approved
           \/ s \in {"rejected", "cancelled"} /\ flow[r] \in Running /\ approved' = approved
           \/ s = "approved" /\ flow[r] \in Running /\ approved' = approved \cup {r}
    PROVE  [Engine!ApprovalNext]_Engine!approvalVars
<1>. DEFINE seen == [x \in Revisions |-> IF flow[x] \in Running THEN flow[x] ELSE "none"]
            new == IF s \in Running THEN s ELSE "none"
<1>1. seen' = [seen EXCEPT ![r] = new]
  BY DEF TypeOK
<1>2. seen[r] = IF flow[r] \in Running THEN flow[r] ELSE "none"
  OBVIOUS
<1>3. approved' = IF s = "approved" THEN approved \cup {r} ELSE approved
  OBVIOUS
<1>. HIDE DEF seen
<1>4. CASE s = "in_progress"
  <2>1. seen' = [seen EXCEPT ![r] = "in_progress"] /\ approved' = approved
    BY <1>1, <1>3, <1>4 DEF Running
  <2>2. CASE seen[r] = "none"
    <3>1. Engine!Begun(r)
      BY <2>1, <2>2 DEF Engine!Begun, Engine!MoveTo, seen
    <3>2. QED
      BY <3>1 DEF Engine!ApprovalNext
  <2>3. CASE seen[r] = "returned"
    <3>1. Engine!GoneOn(r)
      BY <2>1, <2>3 DEF Engine!GoneOn, Engine!MoveTo, seen
    <3>2. QED
      BY <3>1 DEF Engine!ApprovalNext
  <2>4. CASE seen[r] = "in_progress"
    <3>1. seen' = seen
      BY <2>1, <2>4 DEF seen
    <3>2. QED
      BY <2>1, <3>1 DEF Engine!approvalVars, seen
  <2>5. QED
    BY <1>2, <2>2, <2>3, <2>4 DEF Running
<1>5. CASE s = "returned"
  <2>1. /\ seen[r] = "in_progress" /\ seen' = [seen EXCEPT ![r] = "returned"]
        /\ approved' = approved
    BY <1>1, <1>2, <1>3, <1>5 DEF Running
  <2>2. Engine!SentBack(r)
    BY <2>1 DEF Engine!SentBack, Engine!MoveTo, seen
  <2>3. QED
    BY <2>2 DEF Engine!ApprovalNext
<1>6. CASE s \in {"rejected", "cancelled"}
  <2>1. seen[r] # "none" /\ seen' = [seen EXCEPT ![r] = "none"] /\ approved' = approved
    BY <1>1, <1>2, <1>3, <1>6 DEF Running
  <2>2. Engine!Dismissed(r)
    BY <2>1 DEF Engine!Dismissed, Engine!MoveTo, seen
  <2>3. QED
    BY <2>2 DEF Engine!ApprovalNext
<1>7. CASE s = "approved"
  <2>1. /\ seen[r] # "none" /\ seen' = [seen EXCEPT ![r] = "none"]
        /\ approved' = approved \cup {r}
    BY <1>1, <1>2, <1>3, <1>7 DEF Running
  <2>2. Engine!Approved(r)
    BY <2>1 DEF Engine!Approved, Engine!MoveTo, seen
  <2>3. QED
    BY <2>2 DEF Engine!ApprovalNext
<1>8. QED
  BY <1>4, <1>5, <1>6, <1>7

(* A workflow that nothing is done to shows the same.                      *)
LEMMA FlowStays ==
    ASSUME flow' = flow, approved' = approved
    PROVE  [Engine!ApprovalNext]_Engine!approvalVars
BY DEF Engine!approvalVars

(* A step of the calls, the handler or the engine is a step of what the    *)
(* engine promises, or leaves the workflows alone.                         *)
LEMMA NextFollows == TypeOK /\ [Next]_vars => [Engine!ApprovalNext]_Engine!approvalVars
<1>. SUFFICES ASSUME TypeOK, [Next]_vars PROVE [Engine!ApprovalNext]_Engine!approvalVars
  OBVIOUS
<1>1. CASE CreateDocument
  BY <1>1, FlowStays DEF CreateDocument, drawingVars
<1>2. ASSUME NEW q \in Requests, NEW file \in Files, NEW name \in Names,
             AskUpload(q, file, name) \/ AskSupersede(q, file, name)
      PROVE  [Engine!ApprovalNext]_Engine!approvalVars
  BY <1>2, FlowStays DEF AskUpload, AskSupersede, drawingVars
<1>3. ASSUME NEW q \in Requests, NEW i \in DOMAIN versions, AskSign(q, i)
      PROVE  [Engine!ApprovalNext]_Engine!approvalVars
  BY <1>3, FlowStays DEF AskSign, drawingVars
<1>4. ASSUME NEW q \in Requests,
             Store(q) \/ Commit(q) \/ Download(q) \/ Guard(q) \/ Sign(q) \/ CutOff(q)
      PROVE  [Engine!ApprovalNext]_Engine!approvalVars
  BY <1>4, FlowStays DEF Store, Commit, Download, Guard, Sign, CutOff, drawingVars
<1>5. ASSUME NEW r \in Revisions, CreateRevision(r)
      PROVE  [Engine!ApprovalNext]_Engine!approvalVars
  BY <1>5, FlowStays DEF CreateRevision
<1>6. ASSUME NEW r \in Revisions, NEW outcome \in FlowStatuses, Decide(r, outcome)
      PROVE  [Engine!ApprovalNext]_Engine!approvalVars
  BY <1>6, FlowMoves DEF Decide, Running
<1>7. ASSUME NEW r \in Revisions, NEW q \in Requests, AskSubmit(q, r)
      PROVE  [Engine!ApprovalNext]_Engine!approvalVars
  BY <1>7, FlowStays DEF AskSubmit, drawingVars
<1>8. ASSUME NEW r \in Revisions, NEW q \in Requests, Approve(q, r)
      PROVE  [Engine!ApprovalNext]_Engine!approvalVars
  BY <1>8, FlowMoves DEF Approve
<1>9. ASSUME NEW q \in Requests, Open(q) PROVE [Engine!ApprovalNext]_Engine!approvalVars
  <2>1. CASE flow' = flow
    BY <1>9, <2>1, FlowStays DEF Open
  <2>2. CASE flow' # flow
    <3>1. work[q] \in Jobs /\ work[q].at = "open"
      BY <1>9 DEF Open, At, TypeOK
    <3>2. work[q].rev \in Revisions
      BY <3>1 DEF Jobs, FilingJobs, SigningJobs, RevisingJobs
    <3>3. flow' = [flow EXCEPT ![work[q].rev] = "in_progress"] /\ approved' = approved
      BY <1>9, <2>2, <3>2 DEF Open, TypeOK
    <3>4. QED
      BY <3>2, <3>3, FlowMoves
  <2>3. QED
    BY <2>1, <2>2
<1>10. ASSUME NEW q \in Requests,
              Submit(q) \/ Converge(q) \/ Construct(q) \/ Retire(q) \/ Point(q)
       PROVE  [Engine!ApprovalNext]_Engine!approvalVars
  BY <1>10, FlowStays DEF Submit, Converge, Construct, Retire, Point, drawingVars
<1>11. CASE UNCHANGED vars
  BY <1>11, FlowStays DEF vars
<1>12. QED
  BY <1>1, <1>2, <1>3, <1>4, <1>5, <1>6, <1>7, <1>8, <1>9, <1>10, <1>11 DEF Next

(* However the calls on a drawing race or are cut off, what they, the      *)
(* handler and the engine do to the workflow of a revision is what the     *)
(* engine promises of it.                                                  *)
THEOREM DocumentsFollowsEngine == Spec => FollowsEngine
<1>1. Init => Engine!ApprovalInit
  BY DEF Init, Running, Engine!ApprovalInit
<1>2. QED
  BY <1>1, NextFollows, DocumentsTypes, PTL DEF Spec, FollowsEngine, Engine!ApprovalSpec

-----------------------------------------------------------------------------
(* The line of versions *)

Shown == [file : Files, signed : BOOLEAN, superseded : BOOLEAN]

Show(row) == [file |-> row.file, signed |-> row.signed, superseded |-> row.next # 0]

Seen(rows) == [i \in DOMAIN rows |-> Show(rows[i])]

(* The line of a sequence of rows is as long as they are.                  *)
LEMMA SeenRows ==
    ASSUME NEW rows \in Seq(Rows)
    PROVE  /\ Seen(rows) \in Seq(Shown) /\ Len(Seen(rows)) = Len(rows)
           /\ DOMAIN Seen(rows) = 1..Len(rows)
           /\ \A i \in 1..Len(rows) : Seen(rows)[i] = Show(rows[i])
<1>1. Len(rows) \in Nat /\ DOMAIN rows = 1..Len(rows)
  BY LenProperties
<1>2. ASSUME NEW i \in 1..Len(rows)
      PROVE  Show(rows[i]) \in Shown
  <2>1. rows[i] \in Rows
    BY ElementOfSeq
  <2>2. QED
    BY <2>1 DEF Rows, Shown, Show
<1>3. Seen(rows) \in [1..Len(rows) -> Shown]
  BY <1>1, <1>2 DEF Seen
<1>4. Seen(rows) \in Seq(Shown)
  BY <1>1, <1>3, SeqDef
<1>5. Len(Seen(rows)) \in Nat /\ DOMAIN Seen(rows) = 1..Len(Seen(rows))
  BY <1>4, LenProperties
<1>6. Len(Seen(rows)) = Len(rows)
  BY <1>1, <1>3, <1>5
<1>7. QED
  BY <1>1, <1>4, <1>5, <1>6 DEF Seen

(* A line that is one longer shows one version more.                       *)
LEMMA SeenAppended ==
    ASSUME NEW rows \in Seq(Rows), NEW more \in Seq(Rows), NEW before \in Seq(Shown),
           NEW last \in Shown, Len(before) = Len(rows), Len(more) = Len(rows) + 1,
           \A i \in 1..Len(rows) : Seen(more)[i] = before[i],
           Seen(more)[Len(rows) + 1] = last
    PROVE  Seen(more) = Append(before, last)
<1>1. /\ Append(before, last) \in Seq(Shown) /\ Len(Append(before, last)) = Len(rows) + 1
      /\ \A i \in 1..Len(rows) : Append(before, last)[i] = before[i]
      /\ Append(before, last)[Len(rows) + 1] = last
  BY AppendProperties
<1>2. Seen(more) \in Seq(Shown) /\ Len(Seen(more)) = Len(rows) + 1
  BY SeenRows
<1>3. Len(rows) \in Nat
  BY LenProperties
<1>4. \A i \in 1..(Len(rows) + 1) : Seen(more)[i] = Append(before, last)[i]
  BY <1>1, <1>3
<1>5. QED
  BY <1>1, <1>2, <1>4, SeqEqual

(* What is shown of a row.                                                 *)
LEMMA ShownRow ==
    ASSUME NEW row \in Rows
    PROVE  /\ Show(row) \in Shown /\ Show(row).file = row.file
           /\ Show(row).signed = row.signed /\ Show(row).superseded = (row.next # 0)
BY DEF Rows, Shown, Show

(* Versions of the line are told apart by their parts.                     *)
LEMMA SameShown ==
    ASSUME NEW v \in Shown, NEW w \in Shown, v.file = w.file, v.signed = w.signed,
           v.superseded = w.superseded
    PROVE  v = w
BY DEF Shown

(* Marking a version of the line as superseded, and as signed.             *)
LEMMA MarkSuperseded ==
    ASSUME NEW v \in Shown, NEW w \in Shown, v.file = w.file, v.signed = w.signed, w.superseded
    PROVE  [v EXCEPT !.superseded = TRUE] = w
<1>. DEFINE x == [v EXCEPT !.superseded = TRUE]
<1>1. x \in Shown /\ x.file = w.file /\ x.signed = w.signed /\ x.superseded = w.superseded
  BY DEF Shown
<1>. HIDE DEF x
<1>2. x = w
  BY <1>1, SameShown
<1>3. QED
  BY <1>2 DEF x

(* See MarkSuperseded.                                                     *)
LEMMA MarkSigned ==
    ASSUME NEW v \in Shown, NEW w \in Shown, v.file = w.file, w.signed,
           v.superseded = w.superseded
    PROVE  [v EXCEPT !.signed = TRUE] = w
<1>. DEFINE x == [v EXCEPT !.signed = TRUE]
<1>1. x \in Shown /\ x.file = w.file /\ x.signed = w.signed /\ x.superseded = w.superseded
  BY DEF Shown
<1>. HIDE DEF x
<1>2. x = w
  BY <1>1, SameShown
<1>3. QED
  BY <1>2 DEF x

(* A committed upload or supersession is a step of the line, whatever the  *)
(* other calls did since it read the document.                             *)
LEMMA CommitKeepsLine ==
    ASSUME TypeOK, History, NEW q \in Requests, Commit(q)
    PROVE  [Line!LineNext]_Line!lineVars
<1>. DEFINE seen == Seen(versions)
            L == Len(versions)
<1>1. PICK f \in FilingJobs : work[q] = f /\ f.at = "commit"
  BY JobKinds DEF Commit, At, TypeOK
<1>2. Uploads(q)
  BY <1>1 DEF Commit, At, Uploads, Busy
<1>3. CASE UNCHANGED <<document, versions>>
  BY <1>3 DEF Line!lineVars
<1>4. CASE ~UNCHANGED <<document, versions>>
  <2>. DEFINE file == f.file
              fresh == [file |-> file, signed |-> FALSE, superseded |-> FALSE]
  <2>1. /\ f.no = L + 1 /\ f.old \in {0, L} /\ document'.current = L + 1
        /\ versions' \in Seq(Rows) /\ Len(versions') = L + 1
        /\ versions'[L + 1] = NewVersion(f)
        /\ \A i \in 1..L :
              /\ versions'[i].file = versions[i].file /\ versions'[i].signed = versions[i].signed
              /\ versions'[i].next = IF f.old # 0 /\ i = f.old THEN L + 1 ELSE versions[i].next
    BY <1>1, <1>2, <1>4, CommitAppends
  <2>2. /\ versions \in Seq(Rows) /\ L \in Nat /\ DOMAIN versions = 1..L
        /\ document.current = L
    BY LenProperties DEF TypeOK, History
  <2>3. file \in Files /\ fresh \in Shown
    BY DEF FilingJobs, Shown
  <2>4. /\ seen \in Seq(Shown) /\ Len(seen) = L
        /\ \A i \in 1..L : seen[i] = Show(versions[i])
    BY <2>2, SeenRows
  <2>5. \A i \in 1..(L + 1) : Seen(versions')[i] = Show(versions'[i])
    BY <2>1, SeenRows
  <2>6. Seen(versions')[L + 1] = fresh
    <3>1. L + 1 \in 1..(L + 1)
      BY <2>2
    <3>2. Show(NewVersion(f)) = fresh
      <4>. DEFINE shown == Show(NewVersion(f))
      <4>1. shown.file = fresh.file /\ shown.signed = fresh.signed
        BY DEF Show, NewVersion
      <4>2. shown.superseded = fresh.superseded
        BY DEF Show, NewVersion
      <4>3. shown \in Shown
        BY <2>3 DEF Show, NewVersion, Shown
      <4>. HIDE DEF shown, fresh
      <4>4. shown = fresh
        BY <2>3, <4>1, <4>2, <4>3, SameShown
      <4>5. QED
        BY <4>4 DEF shown
    <3>3. QED
      BY <2>1, <2>5, <3>1, <3>2
  <2>7. CASE f.old = 0
    <3>1. \A i \in 1..L : Seen(versions')[i] = seen[i]
      <4>1. ASSUME NEW i \in 1..L PROVE Seen(versions')[i] = seen[i]
        <5>1. Show(versions'[i]) = Show(versions[i])
          BY <2>1, <2>7 DEF Show
        <5>2. i \in 1..(L + 1)
          BY <2>2
        <5>3. QED
          BY <2>4, <2>5, <5>1, <5>2
      <4>2. QED
        BY <4>1
    <3>. HIDE DEF fresh, seen
    <3>2. Seen(versions') = Append(seen, fresh)
      BY <2>1, <2>2, <2>3, <2>4, <2>6, <3>1, SeenAppended
    <3>3. Line!Uploaded(file)
      BY <2>1, <2>4, <3>2 DEF Line!Uploaded, Line!Unsigned, Seen, Show, seen, fresh
    <3>4. QED
      BY <2>3, <3>3 DEF Line!LineNext
  <2>8. CASE f.old # 0
    <3>. DEFINE marked == [seen EXCEPT ![L] = [seen[L] EXCEPT !.superseded = TRUE]]
    <3>1. f.old = L /\ L \in 1..L /\ L # 0
      BY <2>1, <2>2, <2>8
    <3>2. seen[L] \in Shown /\ seen[L] = Show(versions[L])
      BY <2>4, <3>1, ElementOfSeq
    <3>3. /\ [seen[L] EXCEPT !.superseded = TRUE] = Show(versions'[L])
          /\ Show(versions'[L]) \in Shown
      <4>. DEFINE old == versions[L]
                  new == versions'[L]
      <4>1. old \in Rows /\ new \in Rows
        <5>1. L \in 1..Len(versions')
          BY <2>1, <3>1
        <5>2. QED
          BY <2>1, <2>2, <3>1, <5>1, ElementOfSeq
      <4>2. /\ new.file = old.file /\ new.signed = old.signed /\ new.next # 0
            /\ seen[L] = Show(old)
        <5>1. new.file = old.file /\ new.signed = old.signed /\ new.next = L + 1
          BY <2>1, <3>1
        <5>2. QED
          BY <2>2, <3>2, <5>1
      <4>. HIDE DEF old, new
      <4>3. Show(new) \in Shown /\ Show(new).superseded
        BY <4>1, <4>2, ShownRow
      <4>4. /\ Show(old) \in Shown
            /\ Show(old).file = Show(new).file /\ Show(old).signed = Show(new).signed
        BY <4>1, <4>2, ShownRow
      <4>5. [Show(old) EXCEPT !.superseded = TRUE] = Show(new)
        BY <4>3, <4>4, MarkSuperseded
      <4>6. QED
        BY <4>2, <4>3, <4>5 DEF new
    <3>4. /\ marked \in Seq(Shown) /\ Len(marked) = L
          /\ \A i \in 1..L : marked[i] = IF i = L THEN [seen[L] EXCEPT !.superseded = TRUE]
                                         ELSE seen[i]
      BY <2>4, <3>1, <3>3, ExceptSeq
    <3>5. ASSUME NEW i \in 1..L PROVE Seen(versions')[i] = marked[i]
      <4>1. i \in 1..(L + 1) /\ Seen(versions')[i] = Show(versions'[i])
        BY <2>2, <2>5
      <4>2. CASE i = L
        BY <3>3, <3>4, <4>1, <4>2
      <4>3. CASE i # L
        <5>1. Show(versions'[i]) = Show(versions[i])
          BY <2>1, <3>1, <4>3 DEF Show
        <5>2. QED
          BY <2>4, <3>4, <4>1, <4>3, <5>1
      <4>4. QED
        BY <4>2, <4>3
    <3>. HIDE DEF fresh, marked, seen
    <3>6. \A i \in 1..L : Seen(versions')[i] = marked[i]
      BY <3>5
    <3>7. Seen(versions') = Append(marked, fresh)
      <4>1. marked \in Seq(Shown) /\ Len(marked) = Len(versions)
        BY <3>4
      <4>2. /\ versions' \in Seq(Rows) /\ Len(versions') = Len(versions) + 1
            /\ Seen(versions')[Len(versions) + 1] = fresh /\ fresh \in Shown
        BY <2>1, <2>3, <2>6
      <4>3. QED
        BY <2>2, <3>6, <4>1, <4>2, SeenAppended
    <3>8. Line!Superseded(file)
      BY <2>1, <2>2, <2>4, <3>1, <3>7
         DEF Line!Superseded, Line!Unsigned, Seen, Show, seen, fresh, marked
    <3>9. QED
      BY <2>3, <3>8 DEF Line!LineNext
  <2>9. QED
    BY <2>7, <2>8
<1>5. QED
  BY <1>3, <1>4

(* A signature marks its version, and no other.                            *)
LEMMA SignKeepsLine ==
    ASSUME TypeOK, History, NEW q \in Requests, Sign(q)
    PROVE  [Line!LineNext]_Line!lineVars
<1>. DEFINE seen == Seen(versions)
            L == Len(versions)
            i == work[q].id
            marked == [seen EXCEPT ![i] = [seen[i] EXCEPT !.signed = TRUE]]
<1>1. /\ versions \in Seq(Rows) /\ L \in Nat /\ DOMAIN versions = 1..L
      /\ document' = [document EXCEPT !.status = "signed"]
      /\ document \in [status : DocumentStatuses, current : Nat]
      /\ versions' = [versions EXCEPT ![i] = SignedRow(versions[i])]
  BY LenProperties DEF Sign, SignedRow, TypeOK
<1>2. i \in 1..L
  BY DEF Sign, At, Signs, Busy, History
<1>3. PICK v \in Rows : v = versions[i]
  BY <1>1, <1>2, ElementOfSeq
<1>4. /\ SignedRow(v) \in Rows /\ SignedRow(v).file = v.file
      /\ SignedRow(v).next = v.next /\ SignedRow(v).signed = TRUE
  BY SignedRows DEF SignedRow, Rows
<1>5. /\ versions' \in Seq(Rows) /\ Len(versions') = L
      /\ \A j \in 1..L : versions'[j] = IF j = i THEN SignedRow(v) ELSE versions[j]
  BY <1>1, <1>2, <1>3, <1>4, ExceptSeq
<1>6. /\ seen \in Seq(Shown) /\ Len(seen) = L /\ DOMAIN seen = 1..L
      /\ \A j \in 1..L : seen[j] = Show(versions[j])
  BY <1>1, SeenRows
<1>7. /\ Seen(versions') \in Seq(Shown) /\ Len(Seen(versions')) = L
      /\ \A j \in 1..L : Seen(versions')[j] = Show(versions'[j])
  BY <1>5, SeenRows
<1>8. seen[i] \in Shown /\ seen[i] = Show(v)
  BY <1>2, <1>3, <1>6, ElementOfSeq
<1>9. /\ [seen[i] EXCEPT !.signed = TRUE] = Show(SignedRow(v))
      /\ Show(SignedRow(v)) \in Shown
  <2>1. /\ Show(SignedRow(v)) \in Shown /\ Show(SignedRow(v)).signed
        /\ Show(v) \in Shown
        /\ Show(v).file = Show(SignedRow(v)).file
        /\ Show(v).superseded = Show(SignedRow(v)).superseded
    BY <1>4, ShownRow
  <2>2. [Show(v) EXCEPT !.signed = TRUE] = Show(SignedRow(v))
    BY <2>1, MarkSigned
  <2>3. QED
    BY <1>8, <2>1, <2>2
<1>10. /\ marked \in Seq(Shown) /\ Len(marked) = L
       /\ \A j \in 1..L : marked[j] = IF j = i THEN [seen[i] EXCEPT !.signed = TRUE] ELSE seen[j]
  <2>. DEFINE new == [seen[i] EXCEPT !.signed = TRUE]
  <2>1. new \in Shown /\ i \in 1..Len(seen) /\ seen \in Seq(Shown)
    BY <1>2, <1>6, <1>9
  <2>. HIDE DEF new, seen
  <2>2. /\ [seen EXCEPT ![i] = new] \in Seq(Shown)
        /\ Len([seen EXCEPT ![i] = new]) = Len(seen)
        /\ \A j \in 1..Len(seen) : [seen EXCEPT ![i] = new][j] = IF j = i THEN new ELSE seen[j]
    BY <2>1, ExceptSeq
  <2>3. QED
    BY <1>6, <2>2 DEF new
<1>11. ASSUME NEW j \in 1..L PROVE Seen(versions')[j] = marked[j]
  <2>1. CASE j = i
    BY <1>5, <1>7, <1>9, <1>10, <2>1
  <2>2. CASE j # i
    BY <1>5, <1>6, <1>7, <1>10, <2>2
  <2>3. QED
    BY <2>1, <2>2
<1>. HIDE DEF marked, seen
<1>12. Seen(versions') = marked
  BY <1>7, <1>10, <1>11, SeqEqual
<1>13. Line!Signed(i)
  BY <1>1, <1>2, <1>6, <1>12 DEF Line!Signed, Seen, Show, seen, marked
<1>14. QED
  BY <1>13 DEF Line!LineNext, Line!Signed

(* The other steps leave the line alone.                                   *)
LEMMA LineStays ==
    ASSUME versions' = versions, document'.current = document.current
    PROVE  [Line!LineNext]_Line!lineVars
BY DEF Line!lineVars

(* A step of a call is a step of the line, or leaves it alone.             *)
LEMMA NextKeepsLine == Inv /\ [Next]_vars => [Line!LineNext]_Line!lineVars
<1>. SUFFICES ASSUME Inv, [Next]_vars PROVE [Line!LineNext]_Line!lineVars
  OBVIOUS
<1>1. TypeOK /\ History
  BY DEF Inv
<1>2. CASE CreateDocument
  BY <1>1, <1>2, LineStays DEF CreateDocument, TypeOK
<1>3. ASSUME NEW q \in Requests, Commit(q) PROVE [Line!LineNext]_Line!lineVars
  BY <1>1, <1>3, CommitKeepsLine
<1>4. ASSUME NEW q \in Requests, Sign(q) PROVE [Line!LineNext]_Line!lineVars
  BY <1>1, <1>4, SignKeepsLine
<1>5. ASSUME NEW q \in Requests, NEW file \in Files, NEW name \in Names,
             AskUpload(q, file, name) \/ AskSupersede(q, file, name)
      PROVE  [Line!LineNext]_Line!lineVars
  BY <1>5, LineStays DEF AskUpload, AskSupersede, docVars
<1>6. ASSUME NEW q \in Requests, NEW i \in DOMAIN versions, AskSign(q, i)
      PROVE  [Line!LineNext]_Line!lineVars
  BY <1>6, LineStays DEF AskSign, docVars
<1>7. ASSUME NEW q \in Requests, Store(q) \/ Download(q) \/ Guard(q) \/ CutOff(q)
      PROVE  [Line!LineNext]_Line!lineVars
  BY <1>7, LineStays DEF Store, Download, Guard, CutOff, docVars
<1>8. ASSUME NEW r \in Revisions, CreateRevision(r) PROVE [Line!LineNext]_Line!lineVars
  BY <1>8, LineStays DEF CreateRevision, docVars
<1>9. ASSUME NEW r \in Revisions, NEW outcome, Decide(r, outcome)
      PROVE  [Line!LineNext]_Line!lineVars
  BY <1>9, LineStays DEF Decide, docVars
<1>10. ASSUME NEW r \in Revisions, NEW q \in Requests, AskSubmit(q, r) \/ Approve(q, r)
       PROVE  [Line!LineNext]_Line!lineVars
  BY <1>10, LineStays DEF AskSubmit, Approve, docVars
<1>11. ASSUME NEW q \in Requests,
              \/ Submit(q) \/ Open(q) \/ Converge(q) \/ Construct(q) \/ Retire(q) \/ Point(q)
       PROVE  [Line!LineNext]_Line!lineVars
  BY <1>11, LineStays DEF Submit, Open, Converge, Construct, Retire, Point, docVars
<1>12. CASE UNCHANGED vars
  BY <1>12, LineStays DEF vars
<1>13. QED
  BY <1>2, <1>3, <1>4, <1>5, <1>6, <1>7, <1>8, <1>9, <1>10, <1>11, <1>12 DEF Next

(* However uploads, supersessions and signatures race or are cut off, a    *)
(* document implements the line of versions.                               *)
THEOREM DocumentsKeepsLine == Spec => KeepsLine
<1>1. Init => Line!LineInit
  <2>. SUFFICES ASSUME Init PROVE Line!LineInit
    OBVIOUS
  <2>1. versions = <<>> /\ document.current = 0
    BY DEF Init
  <2>2. <<>> \in Seq(Rows) /\ Len(<<>>) = 0
    BY EmptySeq
  <2>3. Seen(<<>>) \in Seq(Shown) /\ Len(Seen(<<>>)) = 0
    BY <2>2, SeenRows
  <2>4. Seen(versions) = <<>>
    BY <2>1, <2>3, EmptySeq
  <2>5. QED
    BY <2>1, <2>4 DEF Seen, Show, Line!LineInit
<1>2. QED
  BY <1>1, NextKeepsLine, InvAlways, PTL DEF Spec, KeepsLine, Line!LineSpec

=============================================================================
