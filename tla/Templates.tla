----------------------------- MODULE Templates -----------------------------
(***************************************************************************)
(* The workflow templates of one record type, their versions, and the      *)
(* choice of the template that a new instance runs under. An update of a   *)
(* template is a new row that takes over the code; the row it replaces     *)
(* gives up the code for one marked with its version. A call reads in      *)
(* queries of its own and writes in one transaction:                       *)
(*                                                                         *)
(*   create, clone        code looked up -> "insert"                       *)
(*   update               row read -> "renew"                              *)
(*   activate, deactivate row read -> "toggle"                             *)
(*   start                code resolved -> "find" -> "start"               *)
(***************************************************************************)
EXTENDS Naturals, Sequences

CONSTANTS
    Entities,
    Ids,            \* ids of template rows
    Names,          \* the codes that templates are created under
    Standard,       \* the code of the standard template in the registry
    HighValue,      \* the code of its variant for large amounts
    Records,        \* the records a workflow is started for
    MaxVersion,     \* bound: versions of a template
    Requests,
    NoCode, NoRow, NoCall

VARIABLES
    entity, project,    \* read only, see Parties
    template,       \* the rows: code, version and isActive
    override,       \* the project setting that names a template
    threshold,      \* TRUE: the project has a threshold for large amounts
    flow,           \* the rows the instances of a record run under
    edits           \* the calls in flight

templateVars == <<template, override, threshold, flow, edits>>
vars == <<entity, project, templateVars>>

\* A code is a name with the version marks added to it.
Plain(name) == [name |-> name, marks |-> << >>]
Marked(code, version) == [code EXCEPT !.marks = Append(@, version)]

Init ==
    /\ template = [i \in Ids |-> NoRow]
    /\ override = NoCode
    /\ threshold \in BOOLEAN
    /\ flow = [r \in Records |-> {}]
    /\ edits = [q \in Requests |-> NoCall]

Rows == {i \in Ids : template[i] # NoRow}
Coded(code) == {i \in Rows : template[i].code = code}
Active(code) == {i \in Coded(code) : template[i].isActive}

At(q, stage) == edits[q] # NoCall /\ edits[q].at = stage

Done(q) == edits' = [edits EXCEPT ![q] = NoCall]

\* on: the row, or the record; row: what was read, or what will be written.
Begin(q, stage, on, row) ==
    /\ edits[q] = NoCall
    /\ edits' = [edits EXCEPT ![q] = [at |-> stage, on |-> on, row |-> row]]
    /\ UNCHANGED <<entity, project, template, override, threshold, flow>>

\* createTemplate, and cloneTemplate from any row: a draft under a new code.
AskCreate(q, name) ==
    /\ Coded(Plain(name)) = {}
    /\ Begin(q, "insert", NoRow, [code |-> Plain(name), version |-> 1, isActive |-> FALSE])

\* The unique index refuses a code that was taken meanwhile.
Insert(q) ==
    LET row == edits[q].row IN
    /\ At(q, "insert")
    /\ IF Coded(row.code) = {}
       THEN \E i \in Ids \ Rows : template' = [template EXCEPT ![i] = row]
       ELSE UNCHANGED template
    /\ Done(q)
    /\ UNCHANGED <<entity, project, override, threshold, flow>>

\* updateTemplate reads the row it will replace.
AskUpdate(q, i) ==
    /\ i \in Rows /\ template[i].version < MaxVersion
    /\ Begin(q, "renew", i, template[i])

Successor(row) == [row EXCEPT !.version = @ + 1, !.isActive = TRUE]

\* Mutated form: the code of the old row is kept, and the index is on code
\* and version.
RenewUnchecked(q) ==
    LET w == edits[q] IN
    /\ At(q, "renew")
    /\ \E i \in Ids \ Rows :
          template' = [template EXCEPT ![w.on].code = Marked(w.row.code, w.row.version),
                                       ![w.on].isActive = FALSE,
                                       ![i] = Successor(w.row)]
    /\ Done(q)
    /\ UNCHANGED <<entity, project, override, threshold, flow>>

\* The old row is marked and deactivated and its successor inserted under the
\* code that was read, or the unique index refuses both.
Renew(q) ==
    LET w == edits[q]
        marked == Marked(w.row.code, w.row.version)
    IN
    /\ At(q, "renew")
    /\ IF (Coded(marked) \cup Coded(w.row.code)) \subseteq {w.on}
       THEN \E i \in Ids \ Rows :
                template' = [template EXCEPT ![w.on].code = marked,
                                             ![w.on].isActive = FALSE,
                                             ![i] = Successor(w.row)]
       ELSE UNCHANGED template
    /\ Done(q)
    /\ UNCHANGED <<entity, project, override, threshold, flow>>

\* activateTemplate and reactivateTemplate look for an inactive row;
\* deactivateTemplate takes any.
AskToggle(q, i, active) ==
    /\ i \in Rows /\ ~(active /\ template[i].isActive)
    /\ Begin(q, "toggle", i, [template[i] EXCEPT !.isActive = active])

Toggle(q) ==
    LET w == edits[q] IN
    /\ At(q, "toggle")
    /\ template' = [template EXCEPT ![w.on].isActive = w.row.isActive]
    /\ Done(q)
    /\ UNCHANGED <<entity, project, override, threshold, flow>>

\* setSetting of the project.
SetOverride(name) ==
    /\ override' = name
    /\ UNCHANGED <<entity, project, template, threshold, flow, edits>>

-----------------------------------------------------------------------------
(* Starting an instance *)

\* resolveTemplate: the first of project override, default of the owner, the
\* variant for large amounts, and the standard template.
Resolve(large) ==
    LET default == entity[project.owner].default IN
    CASE override # NoCode -> override
      [] override = NoCode /\ default # NoCode -> default
      [] /\ override = NoCode /\ default = NoCode
         /\ large /\ threshold /\ Active(Plain(HighValue)) # {} -> HighValue
      [] OTHER -> IF Active(Plain(Standard)) # {} THEN Standard ELSE NoCode

\* A record without a template goes on without a workflow.
AskStart(q, r, large) ==
    /\ Resolve(large) # NoCode
    /\ Begin(q, "find", r, Plain(Resolve(large)))

\* findActiveByCode; a template that is not active, like an instance that is
\* there already, is an error the caller swallows.
Find(q) ==
    LET w == edits[q] IN
    /\ At(q, "find")
    /\ IF Active(w.row) # {} /\ flow[w.on] = {}
       THEN \E i \in Active(w.row) : edits' = [edits EXCEPT ![q].at = "start", ![q].row = i]
       ELSE Done(q)
    /\ UNCHANGED <<entity, project, template, override, threshold, flow>>

\* The instance keeps the id of the row that was found.
Start(q) ==
    LET w == edits[q] IN
    /\ At(q, "start")
    /\ flow' = [flow EXCEPT ![w.on] = @ \cup {w.row}]
    /\ Done(q)
    /\ UNCHANGED <<entity, project, template, override, threshold>>

-----------------------------------------------------------------------------

AskAny(q) ==
    \/ \E name \in Names : AskCreate(q, name)
    \/ \E i \in Rows : AskUpdate(q, i) \/ \E active \in BOOLEAN : AskToggle(q, i, active)
    \/ \E r \in Records, large \in BOOLEAN : AskStart(q, r, large)

Serve(q) == Insert(q) \/ Renew(q) \/ Toggle(q) \/ Find(q) \/ Start(q)

Next ==
    \/ \E name \in Names : SetOverride(name)
    \/ \E q \in Requests : AskAny(q) \/ Serve(q)

Spec == Init /\ [][Next]_vars

-----------------------------------------------------------------------------
(* Properties *)

(* No edit of a template is lost: a code that some row holds goes on being *)
(* held, and whoever takes it over is the very next version of the row     *)
(* that held it, also when two updates have read the same version. A name  *)
(* thus always leads to its newest version.                                *)
NamesMoveForward ==
    [][\A i \in Rows :
          LET holders == {j \in Rows' : template'[j].code = template[i].code} IN
          /\ holders # {}
          /\ \A j \in holders : j = i \/ template'[j].version = template[i].version + 1]_vars

=============================================================================
