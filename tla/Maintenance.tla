------------------------------- MODULE Maintenance -------------------------------
(***************************************************************************)
(* The maintenance checklists that staff begin with the QR code of a       *)
(* property without a task: each captures the template of that moment,     *)
(* and only its private link opens it, as long as the author is on duty    *)
(* there.  Administrators assign staff, hand the properties of one over    *)
(* to others and deactivate the account, correct what was submitted, and   *)
(* see in a list and on their dashboard how each checklist stands.  That   *)
(* list is read from other tables than the link, by code of its own.       *)
(*                                                                         *)
(* Checklists of a task are in CleaningWork.  Photos, issues and receipts  *)
(* are in PhotoUploads and Submissions.                                    *)
(***************************************************************************)
EXTENDS Templates

CONSTANTS Staff,
          Sheets,    \* identities of checklists
          MaxSaves   \* bound: changes of a checklist

ASSUME MaxSavesIsNat == MaxSaves \in Nat
ASSUME SheetsAreFinite == IsFiniteSet(Sheets)

VARIABLES staff,   \* staffUserId of each property
          active,  \* the accounts of staff that are active
          issued,  \* the properties with a QR code for staff
          sheet    \* the ChecklistSubmission table

staffVars == <<staff, active, issued>>
vars == <<templateVars, staffVars, sheet>>

\* answers: the definition they were checked against, None before any; link: privateTokenHash is
\* there; expired: it is too old; updated: updatedAt, counted; head: the latest revision.
Head == [version: Nat, status: {"SUBMITTED", "CANCELLED"}, updated: Nat, answers: Definitions]
Sheet == [property: Properties, author: Staff, status: {"DRAFT", "SUBMITTED", "CANCELLED"},
          version: Nat, definition: Definitions, answers: Definitions \cup {None},
          link: BOOLEAN, expired: BOOLEAN, updated: Nat, revision: Nat, head: Head \cup {None}]
ASSUME NoneIsNoRow == None \notin Staff \cup Head

MaintenanceTypeOK ==
    /\ TemplatesTypeOK
    /\ staff \in [Properties -> Staff \cup {None}] /\ active \subseteq Staff /\ issued \subseteq Properties
    /\ sheet \in [Sheets -> Sheet \cup {None}]

Begun(s) == sheet[s] # None
On(s) == sheet[s].property

--------------------------------------------------------------------------------
\* resolvePrivateSubmission(): the link of s opens it.
OnDuty(s) == staff[On(s)] = sheet[s].author /\ sheet[s].author \in active
Opens(s) ==
    /\ Begun(s) /\ sheet[s].link /\ ~sheet[s].expired /\ sheet[s].status \in {"DRAFT", "SUBMITTED"}
    /\ On(s) \in open /\ OnDuty(s)

\* classifyMaintenance(): the answers fit the questions that were captured.
ValidContent(s) == sheet[s].answers \in {None, sheet[s].definition}
Agrees(s) ==
    LET head == sheet[s].head
    IN /\ head # None /\ head.version = sheet[s].revision /\ head.status = "SUBMITTED"
       /\ head.answers = sheet[s].definition /\ head.updated = sheet[s].updated
\* Faulty variant: that someone else is on duty now is not looked at.
AccountReasons(s) ==
    (IF sheet[s].link THEN {} ELSE {"TOKEN_UNAVAILABLE"})
    \cup (IF On(s) \in open THEN {} ELSE {"PROPERTY_INACTIVE"})
    \cup (IF sheet[s].author \in active THEN {} ELSE {"STAFF_INACTIVE"})
Reasons(s) ==
    (IF sheet[s].link THEN {} ELSE {"TOKEN_UNAVAILABLE"})
    \cup (IF On(s) \in open THEN {} ELSE {"PROPERTY_INACTIVE"})
    \cup (IF staff[On(s)] = sheet[s].author THEN {} ELSE {"STAFF_ASSIGNMENT_CHANGED"})
    \cup (IF sheet[s].author \in active THEN {} ELSE {"STAFF_INACTIVE"})

Progress(s) ==
    IF sheet[s].status = "SUBMITTED" THEN (IF Agrees(s) THEN "COMPLETED" ELSE "NEEDS_REVIEW")
    ELSE IF sheet[s].revision # 0 \/ sheet[s].head # None \/ ~ValidContent(s) THEN "NEEDS_REVIEW"
    ELSE IF sheet[s].expired THEN "EXPIRED"
    ELSE IF Reasons(s) # {} THEN "ACCESS_BLOCKED" ELSE "UNFINISHED"

\* The checklists the list and the dashboard count: all that are not cancelled.
Listed == {s \in Sheets : Begun(s) /\ sheet[s].status # "CANCELLED"}
Count(status, progress) == Cardinality({s \in Listed : sheet[s].status = status /\ Progress(s) = progress})
Summary == [completed |-> Count("SUBMITTED", "COMPLETED"),
            completionNeedsReview |-> Cardinality({s \in Listed : sheet[s].status = "SUBMITTED"})
                                       - Count("SUBMITTED", "COMPLETED"),
            resumable |-> Count("DRAFT", "UNFINISHED"),
            needsReview |-> Count("DRAFT", "NEEDS_REVIEW")]

--------------------------------------------------------------------------------
\* resolveProperty(): the current QR code of p is one of an active property.
Scanned(p) == p \in issued /\ p \in open
\* getStaffContext(), which offers the one who may confirm to be on duty, and startStaffDraft().
Assigned(p) == IF staff[p] \in active THEN staff[p] ELSE None

\* createDraft(): what the property asks at the moment goes into the row.
NewSheet(p, w) ==
    [property |-> p, author |-> w, status |-> "DRAFT", version |-> template[p].version,
     definition |-> template[p].definition, answers |-> None, link |-> TRUE, expired |-> FALSE,
     updated |-> 0, revision |-> 0, head |-> None]

\* Someone with the QR code of p confirms to be w, who is on duty.
StartSheet(s, p, w) ==
    /\ ~Begun(s) /\ Scanned(p) /\ Assigned(p) = w
    /\ template[p] # None /\ template[p].active
    /\ sheet' = [sheet EXCEPT ![s] = NewSheet(p, w)]
    /\ UNCHANGED <<templateVars, staffVars>>

\* readTemplate(): the questions of a checklist are those it began with.
Asked(s) == sheet[s].definition

SaveSheet(s) ==
    /\ Opens(s) /\ sheet[s].status = "DRAFT" /\ sheet[s].updated < MaxSaves
    /\ sheet' = [sheet EXCEPT ![s].answers = Asked(s), ![s].updated = @ + 1]
    /\ UNCHANGED <<templateVars, staffVars>>

\* s with another revision.
Revised(s, status, answers) ==
    [sheet[s] EXCEPT !.status = status, !.revision = @ + 1, !.updated = @ + 1,
        !.head = [version |-> sheet[s].revision + 1, status |-> status,
                  updated |-> sheet[s].updated + 1, answers |-> answers]]

SubmitSheet(s) ==
    /\ Opens(s) /\ sheet[s].status = "DRAFT" /\ sheet[s].updated < MaxSaves
    /\ sheet[s].answers = sheet[s].definition   \* all that is required has an answer
    /\ sheet' = [sheet EXCEPT ![s] = Revised(s, "SUBMITTED", sheet[s].answers)]
    /\ UNCHANGED <<templateVars, staffVars>>

\* Administrators correct the answers, cancel the checklist and restore it.
CorrectSheet(s) ==
    /\ Begun(s) /\ sheet[s].status = "SUBMITTED" /\ sheet[s].updated < MaxSaves
    /\ sheet' = [sheet EXCEPT ![s] = Revised(s, "SUBMITTED", sheet[s].definition)]
    /\ UNCHANGED <<templateVars, staffVars>>

ChangeSheetStatus(s) ==
    /\ Begun(s) /\ sheet[s].status # "DRAFT" /\ sheet[s].updated < MaxSaves
    /\ LET status == IF sheet[s].status = "SUBMITTED" THEN "CANCELLED" ELSE "SUBMITTED"
       IN  sheet' = [sheet EXCEPT ![s] = Revised(s, status, sheet[s].head.answers)]
    /\ UNCHANGED <<templateVars, staffVars>>

Expire(s) ==
    /\ Begun(s) /\ ~sheet[s].expired
    /\ sheet' = [sheet EXCEPT ![s].expired = TRUE]
    /\ UNCHANGED <<templateVars, staffVars>>

--------------------------------------------------------------------------------
\* Another assignee needs another QR code.
AssignStaff(p, w) ==
    /\ w # None => p \in open /\ w \in active
    /\ staff' = [staff EXCEPT ![p] = w]
    /\ issued' = IF w # staff[p] THEN issued \ {p} ELSE issued
    /\ UNCHANGED <<templateVars, active, sheet>>

RotatePropertyQr(p) ==
    /\ p \in open
    /\ issued' = issued \cup {p}
    /\ UNCHANGED <<templateVars, staff, active, sheet>>

ChangeOperation(p) ==
    /\ open' = IF p \in open THEN open \ {p} ELSE open \cup {p}
    /\ UNCHANGED <<template, archive, legacy, backfill, staffVars, sheet>>

\* What deactivation leaves of the checklists of w: the links are gone, wherever they are.
\* Faulty variant: only what is not finished is taken away.
RevokedDrafts(w) ==
    [s \in Sheets |-> IF Begun(s) /\ sheet[s].author = w /\ sheet[s].status = "DRAFT"
                      THEN [sheet[s] EXCEPT !.link = FALSE] ELSE sheet[s]]
\* Faulty variant: written as the ORM writes, which dates the row anew.
RevokedDated(w) ==
    [s \in Sheets |-> IF Begun(s) /\ sheet[s].author = w
                      THEN [sheet[s] EXCEPT !.link = FALSE, !.updated = @ + 1] ELSE sheet[s]]
Revoked(w) ==
    [s \in Sheets |-> IF Begun(s) /\ sheet[s].author = w
                      THEN [sheet[s] EXCEPT !.link = FALSE] ELSE sheet[s]]

\* deactivate(), if the preview is still true: every property of w that is active gets someone
\* else, by choice, and the others get nobody.
Deactivate(w, successor) ==
    /\ w \in active
    /\ successor \in [Properties -> (active \ {w}) \cup {None}]
    /\ \A p \in Properties : (successor[p] # None) = (staff[p] = w /\ p \in open)
    /\ staff' = [p \in Properties |-> IF staff[p] = w THEN successor[p] ELSE staff[p]]
    /\ issued' = {p \in issued : staff[p] # w}
    /\ active' = active \ {w}
    /\ sheet' = Revoked(w)
    /\ UNCHANGED templateVars

\* updateStaff(): accounts can be activated again.
Activate(w) ==
    /\ w \notin active
    /\ active' = active \cup {w}
    /\ UNCHANGED <<templateVars, staff, issued, sheet>>

Init ==
    /\ TemplatesInit
    /\ staff = [p \in Properties |-> None] /\ active = Staff /\ issued = {}
    /\ sheet = [s \in Sheets |-> None]

Next ==
    \/ TemplatesNext /\ UNCHANGED <<staffVars, sheet>>
    \/ \E s \in Sheets :
          \/ \E p \in Properties, w \in Staff : StartSheet(s, p, w)
          \/ SaveSheet(s) \/ SubmitSheet(s) \/ CorrectSheet(s) \/ ChangeSheetStatus(s) \/ Expire(s)
    \/ \E p \in Properties :
          \/ \E w \in Staff \cup {None} : AssignStaff(p, w)
          \/ RotatePropertyQr(p) \/ ChangeOperation(p)
    \/ \E w \in Staff :
          \/ \E successor \in [Properties -> Staff \cup {None}] : Deactivate(w, successor)
          \/ Activate(w)

Spec == Init /\ [][Next]_vars

--------------------------------------------------------------------------------
\* What was submitted is shown as completed, and no draft as unreadable, whoever was deactivated
\* or reassigned in between and whatever the property asks by now: the list compares every field
\* of the row with the snapshot of the latest revision, updatedAt too
\* (staff-deactivation.service.ts:166, "completed maintenance validates it against its immutable
\* snapshot").
CompletedStaysCompleted == Summary.completionNeedsReview = 0 /\ Summary.needsReview = 0

\* The list calls a draft unfinished, and the dashboard counts it as resumable, exactly if its
\* author can go on with it.
ListMatchesLinks ==
    /\ \A s \in Listed : sheet[s].status = "DRAFT" => (Progress(s) = "UNFINISHED") = Opens(s)
    /\ Summary.resumable = Cardinality({s \in Sheets : Opens(s) /\ sheet[s].status = "DRAFT"})

\* Once the author of a checklist has been deactivated, its link never opens anything again, not
\* even the receipt, and not even if the account is activated and put on the same duty again
\* (staff-deactivation.service.ts:169, "so reactivation cannot resurrect access").
Closed(s) == ~sheet[s].link \/ sheet[s].author \notin active
RevokedStaysClosed == [][\A s \in Sheets : Begun(s) /\ Closed(s) => Closed(s)' /\ ~Opens(s)']_vars
================================================================================
