------------------------------ MODULE CleaningWork ------------------------------
(***************************************************************************)
(* How the staff of a property do the tasks of Bookings: the assignee      *)
(* opens them with the property's QR code and gets a private link to a     *)
(* draft checklist, reads the code that the lock of the room has to be set *)
(* to, and submits the checklist, which completes the task in the same     *)
(* serializable transaction if what was read is still what is stored.      *)
(* Meanwhile administrators change reservations, door codes and settings,  *)
(* issue new QR codes, assign other staff or deactivate them.              *)
(*                                                                         *)
(* A link that is too old opens nothing either; as far as the tasks are    *)
(* concerned that is a client that does not come back.  Photos are in      *)
(* PhotoUploads, answers, issues and receipts are left out.                *)
(***************************************************************************)
EXTENDS Bookings

CONSTANTS Staff,
          Codes,    \* door codes
          MaxCode,  \* bound: changes of a door code, of the settings, and QR codes
          MaxLinks  \* bound: links that are issued

VARIABLES staff,       \* staffUserId of the property
          active,      \* the staff members that are active
          qr,          \* the current QR code of the staff, counted from one, or 0
          qrs,         \* how many there have been
          settings,    \* the PropertyAccessSettings row
          code,        \* the StayAccessCode table
          draft,       \* the staff's drafts in the ChecklistSubmission table
          links,       \* how many links to drafts have been issued
          shown,       \* what the page of a draft shows of the room's code
          completion   \* the evidence of completed tasks, with the digits staff were shown

workVars == <<staff, active, qr, qrs, settings, code, draft, links, shown, completion>>
vars == <<bookingVars, workVars>>

ASSUME CodeBoundsAreNat == MaxCode \in Nat /\ MaxLinks \in Nat

\* An administrator can choose FIXED only with a code, which staff need not be told.
Settings == [version: Nat, rotating: BOOLEAN, vacancy: Codes \cup {None}]
\* source and guest: the revision it was made for and its guest; fixed: method FIXED.
Code == [version: Nat, digits: Codes, source: Nat, guest: Guests, fixed: BOOLEAN]
\* link: the number of the link whose hash is privateTokenHash, or 0; qr: taskQrTokenHash;
\* revised: currentRevision is above 1.
Draft == [task: Tasks, author: Staff, status: {"DRAFT", "SUBMITTED", "CANCELLED"},
          link: Nat, qr: Nat, revised: BOOLEAN]
Kinds == {"FIXED", "NEXT_STAY", "VACANCY"}
Versions == [version: Nat, dueAt: Time, departure: Nat, settings: Nat, staff: Staff, qr: Nat,
          kind: Kinds, next: Stays \cup {None}, nextRevision: Nat, nextCode: Nat]
Shown == [fingerprint: Versions, digits: Codes \cup {None}]

Evidence == [versions: Versions, digits: Codes \cup {None}]

ASSUME NoneIsNoWork == None \notin Staff \cup Codes \cup Settings \cup Code \cup Draft \cup Shown \cup Evidence

TypeOK ==
    /\ BookingsTypeOK
    /\ staff \in Staff \cup {None} /\ active \subseteq Staff
    /\ qrs \in Nat /\ qr \in {0, qrs}
    /\ settings \in Settings \cup {None}
    /\ code \in [Stays -> Code \cup {None}]
    /\ draft \in [Submissions -> Draft \cup {None}]
    /\ links \in Nat
    /\ shown \in [Submissions -> Shown \cup {None}]
    /\ completion \in [Tasks -> Evidence \cup {None}]

--------------------------------------------------------------------------------
\* The reservations beside s, which must not have its code.
Before(s) == {r \in Stays \ {s} : Active(r) /\ stay[r].out <= stay[s].in}
After(s) == {r \in Stays \ {s} : Active(r) /\ stay[r].in >= stay[s].out}
Neighbours(s) ==
    {r \in Before(s) : \A q \in Before(s) : stay[q].out <= stay[r].out} \cup
    {r \in After(s) : \A q \in After(s) : stay[r].in <= stay[q].in}
NeighbourCodes(s) == {code[r].digits : r \in {n \in Neighbours(s) : code[n] # None}}

Rotating == settings # None /\ settings.rotating
SettingsVersion == IF settings = None THEN 0 ELSE settings.version

\* reviewReasons: those a confirmation settles, and those that need another code.
ToConfirm(s) == code[s].guest # stay[s].guest \/ (Active(s) /\ stay[s].turned > code[s].source)
ToReplace(s) == \/ settings = None \/ code[s].fixed = Rotating
                \/ Rotating /\ code[s].digits \in NeighbourCodes(s)
Prepared(s) == code[s] # None /\ ~ToConfirm(s) /\ ~ToReplace(s)

\* The reservation after the departure, or after the time of an extra task.
Reference(t) == IF t \in Stays THEN stay[t].out ELSE task[t].dueAt
Following(t) == {s \in Stays \ {t} : Active(s) /\ stay[s].in >= Reference(t)}
NextStay(t) == IF Following(t) = {} THEN None
            ELSE CHOOSE s \in Following(t) : \A r \in Following(t) : stay[s].in <= stay[r].in

Kind(t) == IF ~Rotating THEN "FIXED" ELSE IF NextStay(t) = None THEN "VACANCY" ELSE "NEXT_STAY"

CodeVersion(s) == IF code[s] = None THEN 0 ELSE code[s].version

\* The versions and identities that a confirmation is bound to.
VersionsOf(t) ==
    LET next == NextStay(t)
    IN  [version |-> task[t].version, dueAt |-> task[t].dueAt,
         departure |-> IF t \in Stays THEN stay[t].revision ELSE 0,
         settings |-> SettingsVersion, staff |-> staff, qr |-> qr, kind |-> Kind(t),
         next |-> next, nextRevision |-> IF next = None THEN 0 ELSE stay[next].revision,
         nextCode |-> IF next = None THEN 0 ELSE CodeVersion(next)]

\* The hash of all of them.
\* Faulty variant: of all but the version of the next reservation's code.
CodelessFingerprint(t) == [VersionsOf(t) EXCEPT !.nextCode = 0]
Fingerprint(t) == VersionsOf(t)

\* blockedReason of the task's password.
\* Faulty variant: whether there is someone in the house is left to the start of the task.
NotAsked == FALSE
InUse == Occupied
Blocked(t) ==
    \/ task[t].dueAt > now
    \/ t \in Stays /\ (stay[t].out > now \/ ~Active(t))
    \/ InUse
    \/ settings = None
    \/ /\ Rotating /\ NextStay(t) # None
       /\ stay[NextStay(t)].in <= now \/ ~Prepared(NextStay(t))
    \/ Rotating /\ NextStay(t) = None /\ settings.vacancy = None

RoomCode(t) == IF ~Rotating THEN None
               ELSE IF NextStay(t) = None THEN settings.vacancy ELSE code[NextStay(t)].digits

\* cleaningTaskRequiresReview() of a completed task.
RequiresReview(t) ==
    LET evidence == completion[t].versions
        next == NextStay(t)
    IN  \/ draft[task[t].submission].status # "SUBMITTED" \/ draft[task[t].submission].revised
        \/ evidence.settings # SettingsVersion
        \/ t \in Stays /\ (~Active(t) \/ evidence.departure # stay[t].revision)
        \/ evidence.next # next
        \/ /\ next # None
           /\ \/ evidence.nextRevision # stay[next].revision
              \/ evidence.kind = "NEXT_STAY" /\ evidence.nextCode # CodeVersion(next)

\* resolvePrivateSubmission(): the link of d opens it.
Opens(d) ==
    /\ draft[d] # None /\ draft[d].link # 0 /\ open
    /\ staff = draft[d].author /\ staff \in active
    /\ draft[d].qr = qr
    /\ task[draft[d].task].submission = d
    /\ \/ draft[d].status = "DRAFT" /\ task[draft[d].task].status = "IN_PROGRESS"
       \/ draft[d].status = "SUBMITTED" /\ task[draft[d].task].status = "COMPLETED"

--------------------------------------------------------------------------------
\* assignStaff(): another assignee needs another QR code.
\* Faulty variant: the code stays valid.
KeptQr(u) == qr
QrOf(u) == IF u = staff THEN qr ELSE 0
Assign(u) ==
    /\ u # None => open /\ u \in active
    /\ staff' = u
    /\ qr' = QrOf(u)
    /\ UNCHANGED <<bookingVars, active, qrs, settings, code, draft, links, shown, completion>>

RotateQr ==
    /\ open /\ qrs < MaxCode
    /\ qrs' = qrs + 1 /\ qr' = qrs'
    /\ UNCHANGED <<bookingVars, staff, active, settings, code, draft, links, shown, completion>>

\* StaffDeactivationService: the property goes to r, and every link of u is revoked.
Deactivate(u, r) ==
    /\ u \in active
    /\ IF u = staff /\ open THEN r \in active \ {u} ELSE r = None
    /\ active' = active \ {u}
    /\ staff' = IF u = staff THEN r ELSE staff
    /\ qr' = IF u = staff THEN 0 ELSE qr
    /\ draft' = [d \in Submissions |-> IF draft[d] # None /\ draft[d].author = u
                                       THEN [draft[d] EXCEPT !.link = 0] ELSE draft[d]]
    /\ UNCHANGED <<bookingVars, qrs, settings, code, links, shown, completion>>

Activate(u) ==
    /\ u \notin active
    /\ active' = active \cup {u}
    /\ UNCHANGED <<bookingVars, staff, qr, qrs, settings, code, draft, links, shown, completion>>

SaveSettings(rotating, vacancy) ==
    /\ SettingsVersion < MaxCode
    /\ settings' = [version |-> SettingsVersion + 1, rotating |-> rotating, vacancy |-> vacancy]
    /\ UNCHANGED <<bookingVars, staff, active, qr, qrs, code, draft, links, shown, completion>>

\* saveAccessCode(): PREPARE or REPLACE with other digits, or CONFIRM the same ones.  FIXED
\* digits are those of the property, which may be any.
SaveCode(s, digits) ==
    /\ Pending(s) /\ open /\ settings # None /\ CodeVersion(s) < MaxCode
    /\ IF code[s] # None /\ digits = code[s].digits
       THEN (ToConfirm(s) /\ ~ToReplace(s)) \/ ~Rotating
       ELSE Rotating => digits \notin NeighbourCodes(s)
    /\ code' = [code EXCEPT ![s] =
                  [version |-> CodeVersion(s) + 1, digits |-> digits, fixed |-> ~Rotating,
                   source |-> stay[s].revision, guest |-> stay[s].guest]]
    /\ UNCHANGED <<bookingVars, staff, active, qr, qrs, settings, draft, links, shown, completion>>

--------------------------------------------------------------------------------
\* The assignee starts a task with the QR code: its author resumes the draft on a new link,
\* anyone else gets a new draft and the old one is closed.
\* Faulty variant: the old one is left open.
LeftOpen(d) == draft[d]
Closed(d) == [draft[d] EXCEPT !.status = "CANCELLED", !.link = 0]
NewDraft(t) == [task |-> t, author |-> staff, status |-> "DRAFT", link |-> links',
                qr |-> qr, revised |-> FALSE]
Resume(t, d) ==
    /\ draft[d].author = staff
    /\ draft' = [draft EXCEPT ![d].link = links', ![d].qr = qr]
HandOver(t, old, d) ==
    /\ draft[old].author # staff /\ draft[d] = None
    /\ draft' = [draft EXCEPT ![old] = Closed(old), ![d] = NewDraft(t)]
Begin(t, d) ==
    /\ draft[d] = None
    /\ draft' = [draft EXCEPT ![d] = NewDraft(t)]

Start(t, d) ==
    LET old == task[t].submission
    IN  /\ staff \in active /\ qr # 0 /\ links < MaxLinks
        /\ Ready(t)
        /\ links' = links + 1
        /\ IF old = None THEN Begin(t, d)
           ELSE /\ draft[old].status = "DRAFT"
                /\ (d = old /\ Resume(t, d)) \/ HandOver(t, old, d)
        /\ task' = [task EXCEPT ![t].status = "IN_PROGRESS", ![t].version = @ + 1,
                                ![t].submission = d]
        /\ shown' = [shown EXCEPT ![d] = None]
        /\ UNCHANGED <<now, open, stay, staff, active, qr, qrs, settings, code, completion>>

\* password() and, for a code that rotates, revealPassword() of what it has shown.
Working(d) == Opens(d) /\ draft[d].status = "DRAFT"
ShowCode(d) ==
    LET t == draft[d].task
    IN  /\ Working(d) /\ ~Blocked(t)
        /\ shown' = [shown EXCEPT ![d] = [fingerprint |-> Fingerprint(t), digits |-> RoomCode(t)]]
        /\ UNCHANGED <<bookingVars, staff, active, qr, qrs, settings, code, draft, links, completion>>

\* submitChecklist() of a task's draft and CleaningTaskAccessService.complete(); sent again
\* it returns the receipt.
Submit(d) ==
    LET t == draft[d].task
    IN  /\ Working(d) /\ ~Blocked(t)
        /\ shown[d] # None /\ shown[d].fingerprint = Fingerprint(t)
        /\ task' = [task EXCEPT ![t].status = "COMPLETED", ![t].version = @ + 1]
        /\ completion' = [completion EXCEPT ![t] =
                          [versions |-> VersionsOf(t), digits |-> shown[d].digits]]
        /\ draft' = [draft EXCEPT ![d].status = "SUBMITTED"]
        /\ UNCHANGED <<now, open, stay, staff, active, qr, qrs, settings, code, links, shown>>

\* Administrators correct, cancel or restore what was submitted; the task stays as it is.
Revise(d, status) ==
    /\ draft[d] # None
    /\ draft[d].status = "SUBMITTED" \/ (draft[d].revised /\ status = "SUBMITTED")
    /\ draft' = [draft EXCEPT ![d].status = status, ![d].revised = TRUE]
    /\ UNCHANGED <<bookingVars, staff, active, qr, qrs, settings, code, links, shown, completion>>

--------------------------------------------------------------------------------
\* The property has staff with a QR code, and may have its settings.
Init ==
    /\ BookingsInit
    /\ staff \in Staff /\ active = Staff /\ qr = 1 /\ qrs = 1
    /\ settings \in {None} \cup [version: {1}, rotating: {TRUE}, vacancy: Codes]
    /\ code = [s \in Stays |-> None]
    /\ draft = [d \in Submissions |-> None] /\ links = 0
    /\ shown = [d \in Submissions |-> None]
    /\ completion = [t \in Tasks |-> None]

Next ==
    \/ Booking /\ UNCHANGED workVars
    \/ \E u \in Staff \cup {None} : Assign(u)
    \/ RotateQr
    \/ \E u \in Staff, r \in Staff \cup {None} : Deactivate(u, r)
    \/ \E u \in Staff : Activate(u)
    \/ \E rotating \in BOOLEAN, c \in Codes \cup {None} : SaveSettings(rotating, c)
    \/ \E s \in Stays, c \in Codes : SaveCode(s, c)
    \/ \E t \in Tasks, d \in Submissions : Start(t, d)
    \/ \E d \in Submissions : ShowCode(d) \/ Submit(d)
    \/ \E d \in Submissions, status \in {"SUBMITTED", "CANCELLED"} : Revise(d, status)

Spec == Init /\ [][Next]_vars

--------------------------------------------------------------------------------
\* A task has one draft that can be worked on, at most: its current one.  It is open as long
\* as the task is to be done, submitted once it is completed, and those before it are closed
\* (startCleaningTaskDraft(), and submitChecklist() with complete()).
OneOpenDraft ==
    /\ \A d \in Submissions : draft[d] # None /\ draft[d].status = "DRAFT" =>
         task[draft[d].task].submission = d
    /\ \A t \in Tasks : Exists(t) /\ task[t].submission # None =>
         LET d == draft[task[t].submission]
         IN  d # None /\ d.task = t /\ (d.status = "DRAFT" <=> task[t].status # "COMPLETED")

\* The code that was on the page of whoever completed a task is the one the room needs by now,
\* unless the task is shown as to be reviewed: staff set the lock to what they were shown, and
\* neither a change on the way to the submission nor a later one goes unnoticed.
UnreviewedCodeIsCurrent ==
    \A t \in Tasks : Exists(t) /\ task[t].status = "COMPLETED" /\ ~RequiresReview(t) =>
        completion[t].digits = RoomCode(t)

\* A link whose author lost the property, or whose QR code was replaced, never opens again,
\* not even if that author is assigned or activated again (assignStaff(), deactivate(), and
\* taskQrTokenHash in resolvePrivateSubmission()).
Lost(d) == staff # draft[d].author \/ staff \notin active \/ qr # draft[d].qr
LinksStayClosed ==
    [][\A d \in Submissions : draft[d] # None /\ draft[d].link # 0 /\ Lost(d) =>
         ~(draft'[d].link = draft[d].link /\ Opens(d)')]_vars

\* Whatever staff do, tasks start and end as Bookings says: not before they are due, with the
\* guests gone and nobody in the house, and as the schedule has them.
WorkImplementsBookings == BookingsSpec
================================================================================
