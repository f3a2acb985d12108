------------------------------ MODULE Submissions ------------------------------
(***************************************************************************)
(* Checklists from their first draft on.  A guest or staff member fills in *)
(* a draft behind a private link, perhaps in several tabs, and submits it. *)
(* From then on every change is a new revision with a snapshot of the      *)
(* whole record: corrections by the guest and by administrators, a         *)
(* cancellation or restoration, a link to a reservation.  What is abnormal *)
(* becomes an issue of its item (module Issues, whose actions go on beside *)
(* these).                                                                 *)
(*                                                                         *)
(* Each operation is one serializable transaction and so one action.       *)
(* Requests come from any state of the draft that was ever shown, and from *)
(* any revision, and are sent again at any time.  Guests come with the     *)
(* QR code of a property or with the invitation of a reservation, which    *)
(* has to be valid whenever the private link of its draft is used.  The    *)
(* expiry of the private link itself only ever refuses, and a refused      *)
(* request changes nothing.  Drafts of cleaning tasks are in CleaningWork, *)
(* photos before they are submitted in PhotoUploads.                       *)
(***************************************************************************)
EXTENDS Issues

CONSTANTS Submissions,  \* checklists, by request key
          Items, Required, \* items of the template, and those that have to be answered
          Types,        \* bound: which of CHECK_IN, CHECK_OUT and MAINTENANCE there are
          Stays,        \* reservations a checklist may be begun for or linked to
          MaxClock,     \* bound: readings of the clock while drafts are written
          MaxRevision,  \* bound: revisions of a checklist, and of a reservation
          MaxLinks      \* bound: invitations that are issued or revoked

VARIABLES subs,      \* the ChecklistSubmission table
          revisions, \* the SubmissionRevision table
          views,     \* the states of a draft that its client was shown
          stays,     \* of a reservation: what invitations and links depend on
          replies    \* the requests that were answered with success, and with which revision

subVars == <<subs, revisions, views, stays, replies>>
vars == <<issueVars, subVars>>

ASSUME SubmissionBoundsAreNat == MaxClock \in Nat /\ MaxRevision \in Nat /\ MaxLinks \in Nat
ASSUME RequiredAreItems == Required \subseteq Items
ASSUME TypesAreTypes == Types \subseteq {"CHECK_IN", "CHECK_OUT", "MAINTENANCE"}
ASSUME ItemsHaveIssues == ChecklistIds = Submissions \X Items
ASSUME NoneIsNoSubmission == None \notin Submissions \cup Items \cup Texts \cup Stays \cup Reasons

GuestTypes == {"CHECK_IN", "CHECK_OUT"}
Normal == [value |-> "NORMAL", text |-> None, urgent |-> FALSE, repair |-> FALSE]
AbnormalAnswers == [value : {"ABNORMAL"}, text : Texts, urgent : BOOLEAN, repair : BOOLEAN]
Answers == [Items -> {None, Normal} \cup AbnormalAnswers]
\* Only staff report repairs; administrators correct what guests may say.
GuestAnswers == {a \in Answers : \A i \in Items : a[i] = None \/ ~a[i].repair}
Unanswered == [i \in Items |-> None]
Abnormal(answers, i) == answers[i] \notin {None, Normal}
Complete(answers) == \A i \in Required : answers[i] # None

\* Photos of a defect or a repair; what other photos show depends on no answer.
Photos(answers) ==
    {<<i, "DEFECT">> : i \in {i \in Items : Abnormal(answers, i)}}
    \cup {<<i, "REPAIR">> : i \in {i \in Items : Abnormal(answers, i) /\ answers[i].repair}}
\* Faulty variant: photos of answers that were withdrawn are kept.
RetainedAll(photos, answers) == photos
Retained(photos, answers) == photos \cap Photos(answers)

Submission == [type : Types, status : {"DRAFT", "SUBMITTED", "CANCELLED"}, answers : Answers,
               revision : Nat, stay : Stays \cup {None}, link : Nat, updatedAt : Nat]
\* link: guestLinkVersion; issuedFor: guestLinkStayRevision, or 0; fits: on the day of the checklists;
\* late: the time of invitations is over, a week after the departure.
Stay == [revision : Nat, link : Nat, issuedFor : Nat, active : BOOLEAN, fits : BOOLEAN, late : BOOLEAN]
Kinds == {"SUBMIT", "GUEST", "ADMIN", "CANCELLED", "RESTORED", "LINK"}
SubmissionRequest ==
    [kind : Kinds, by : Admins \cup {None}, expected : Nat, answers : Answers,
     photos : SUBSET (Items \X {"DEFECT", "REPAIR"}), stay : Stays \cup {None}, stayRevision : Nat,
     why : Reasons \cup {None}]
StayMatch == [stay : Stays, revision : Nat]
Revision == [action : {"SUBMITTED", "CORRECTED", "CANCELLED", "RESTORED"}, by : Admins \cup {None},
             status : {"SUBMITTED", "CANCELLED"}, answers : Answers,
             photos : SUBSET (Items \X {"DEFECT", "REPAIR"}), stay : Stays \cup {None},
             match : StayMatch \cup {None}, marks : SUBSET SubmissionRequest, req : SubmissionRequest]
View == [at : Nat, answers : Answers]
ASSUME NoneIsNoRevision == None \notin Submission \cup StayMatch \cup Admins \cup AbnormalAnswers

SubmissionsTypeOK ==
    /\ IssuesTypeOK
    /\ subs \in [Submissions -> Submission \cup {None}]
    /\ revisions \in [Submissions -> Seq(Revision)]
    /\ views \in [Submissions -> SUBSET View]
    /\ stays \in [Stays -> Stay]
    /\ replies \subseteq [sub : Submissions, version : Nat, req : SubmissionRequest, seen : Answers]

--------------------------------------------------------------------------------
Started(s) == subs[s] # None
Is(s, status) == Started(s) /\ subs[s].status = status
OfGuest(s) == Started(s) /\ subs[s].type \in GuestTypes
\* assertEnabled(): an invitation is for the reservation as it was when it was issued.
\* Faulty variant: for an active reservation.
ActiveInvitation(x) == stays[x].active /\ ~stays[x].late /\ stays[x].issuedFor # 0
Invited(x) == stays[x].active /\ ~stays[x].late /\ stays[x].issuedFor = stays[x].revision
\* resolvePrivateSubmission() and resolveLinkedStay(): the link of s opens it.
Private(s) == Started(s) /\ subs[s].link # 0
Accessible(s) == Private(s) => Invited(subs[s].stay) /\ stays[subs[s].stay].link = subs[s].link
Latest(s) == Last(revisions[s])
\* readAdminSubmissionMutationRecord, readSubmissionStayRecord: a row that its latest revision
\* does not show is not changed.
Intact(s) ==
    /\ Started(s) /\ Len(revisions[s]) = subs[s].revision /\ subs[s].revision > 0
    /\ Latest(s).status = subs[s].status /\ Latest(s).stay = subs[s].stay
    /\ Latest(s).answers = subs[s].answers
UpToRevision(s, req) ==
    Started(s) /\ subs[s].revision = req.expected /\ req.expected < MaxRevision /\ Intact(s)

Blank == [kind |-> "SUBMIT", by |-> None, expected |-> 0, answers |-> Unanswered, photos |-> {},
          stay |-> None, stayRevision |-> 0, why |-> None]
Reply(s, version, req, seen) ==
    replies' = replies \cup {[sub |-> s, version |-> version, req |-> req, seen |-> seen]}

--------------------------------------------------------------------------------
\* Issues of a checklist.  Both corrections record one event per changed item.
ChecklistRequest(j, by) ==
    [kind |-> "CHECKLIST", by |-> by, expected |-> IF Reported(j) THEN issues[j].version ELSE 0, says |-> None]
Opened(answer, now) ==
    [NewIssue(answer.text, answer.urgent, now) EXCEPT !.version = IF answer.repair THEN 2 ELSE 1]
OpeningEvents(j, answer, version, by, now) ==
    LET req == ChecklistRequest(j, None)
        row == NewIssue(answer.text, answer.urgent, now)
        repaired == [type |-> "REPAIR_REPORTED", from |-> "NEW", to |-> "NEW", revision |-> version,
                     req |-> req, snapshot |-> Opened(answer, now)]
    IN <<ReportEvent(row, version, req)>> \o (IF answer.repair THEN <<repaired>> ELSE <<>>)
\* A guest's correction replaces description and urgency, an administrator's only the description.
\* Faulty variant: only what a guest wrote is shown.
RewordedByGuest(row, answers, i, urgency) ==
    [row EXCEPT !.version = @ + 1,
                !.text = IF Abnormal(answers, i) /\ urgency THEN answers[i].text ELSE @,
                !.urgent = IF Abnormal(answers, i) /\ urgency THEN answers[i].urgent ELSE @]
Reworded(row, answers, i, urgency) ==
    [row EXCEPT !.version = @ + 1,
                !.text = IF Abnormal(answers, i) THEN answers[i].text ELSE @,
                !.urgent = IF Abnormal(answers, i) /\ urgency THEN answers[i].urgent ELSE @]

\* The default category is created when it is first needed.
UseFallback ==
    \/ /\ ~NameTaken(Fallback)
       /\ \E c \in Categories :
             /\ categories[c] = None
             /\ categories' = [categories EXCEPT ![c] = [name |-> Fallback, active |-> TRUE, updatedAt |-> 0]]
    \/ /\ \E c \in Categories : categories[c] # None /\ categories[c].name = Fallback /\ categories[c].active
       /\ UNCHANGED categories

RecordIssues(s, version, by, before, after, urgency, now) ==
    LET changed == {i \in Items : before[i] # after[i]}
        fresh == {<<s, i>> : i \in {i \in changed : ~Reported(<<s, i>>) /\ Abnormal(after, i)}}
        known == {<<s, i>> : i \in {i \in changed : Reported(<<s, i>>)}}
        Told(row, j) == Reworded(row, after, j[2], urgency)
    IN /\ \A i \in changed : Abnormal(before, i) => Reported(<<s, i>>)
       /\ \A j \in known : Readable(j) /\ issues[j].version < MaxVersion
       /\ IF fresh # {} THEN UseFallback ELSE UNCHANGED categories
       /\ issues' = [j \in IssueIds |-> IF j \in fresh THEN Opened(after[j[2]], now)
                                        ELSE IF j \in known THEN Told(issues[j], j) ELSE issues[j]]
       /\ events' = [j \in IssueIds |->
             IF j \in fresh THEN OpeningEvents(j, after[j[2]], version, by, now)
             ELSE IF j \in known
             THEN Append(events[j], UpdateEvent(j, "UPDATED", version, ChecklistRequest(j, by), Told(Current(j), j)))
             ELSE events[j]]
       /\ UNCHANGED acks

--------------------------------------------------------------------------------
\* Drafts.  Every write moves updatedAt, by which a client says what it has seen.
\* Faulty variant: the clock alone, which two writes may read alike.
Clock(now, at) == IF now > at THEN now ELSE at
Later(now, at) == IF now > at THEN now ELSE at + 1
Show(s, at, answers) == views' = [views EXCEPT ![s] = @ \cup {[at |-> at, answers |-> answers]}]

\* With the QR code of the property, or for x with its invitation.
StartDraft(s, type, x, now) ==
    /\ ~Started(s)
    /\ x # None => type \in GuestTypes /\ Invited(x)
    /\ subs' = [subs EXCEPT ![s] = [type |-> type, status |-> "DRAFT", answers |-> Unanswered,
                                    revision |-> 0, stay |-> x, updatedAt |-> now,
                                    link |-> IF x = None THEN 0 ELSE stays[x].link]]
    /\ Show(s, now, Unanswered)
    /\ UNCHANGED <<issueVars, revisions, stays, replies>>

SaveDraft(s, seen, answers, now) ==
    LET at == Later(now, subs[s].updatedAt)
    IN /\ Is(s, "DRAFT") /\ Accessible(s) /\ subs[s].updatedAt = seen.at /\ at <= MaxClock
       /\ subs[s].type \in GuestTypes => answers \in GuestAnswers
       /\ subs' = [subs EXCEPT ![s].answers = answers, ![s].updatedAt = at]
       /\ Show(s, at, answers)
       /\ UNCHANGED <<issueVars, revisions, stays, replies>>

\* readPrivateStayMatch(): the reservation as it is, from the transaction that checked the invitation.
PrivateMatch(s) == IF Private(s) THEN [stay |-> subs[s].stay, revision |-> stays[subs[s].stay].revision] ELSE None
SubmitRequest(seen, photos) == [Blank EXCEPT !.expected = seen.at, !.photos = photos]

SubmitChecklist(s, seen, photos, now) ==
    LET req == SubmitRequest(seen, photos)
        answers == subs[s].answers
    IN /\ Is(s, "DRAFT") /\ Accessible(s) /\ subs[s].revision = 0 /\ subs[s].updatedAt = seen.at
       /\ Complete(answers) /\ photos \subseteq Photos(answers)
       /\ subs' = [subs EXCEPT ![s].status = "SUBMITTED", ![s].revision = 1,
                               ![s].updatedAt = Later(now, @)]
       /\ revisions' = [revisions EXCEPT ![s] =
             <<[action |-> "SUBMITTED", by |-> None, status |-> "SUBMITTED", answers |-> answers,
                photos |-> photos, stay |-> subs[s].stay, match |-> PrivateMatch(s), marks |-> {req},
                req |-> req]>>]
       /\ RecordIssues(s, 1, None, Unanswered, answers, TRUE, now)
       /\ Reply(s, 1, req, seen.answers)
       /\ UNCHANGED <<views, stays>>

\* A repeated submission is compared with revision one, whatever the corrections since then.
RepeatSubmit(s, seen, photos) ==
    LET req == SubmitRequest(seen, photos)
    IN /\ Is(s, "SUBMITTED") /\ Accessible(s) /\ req \in revisions[s][1].marks
       /\ Reply(s, 1, req, seen.answers)
       /\ UNCHANGED <<issueVars, subs, revisions, views, stays>>

--------------------------------------------------------------------------------
\* Later revisions.  From here on the number of the revision stands for updatedAt, too.
MarkOf(kind) == IF kind \in {"CANCELLED", "RESTORED"} THEN "STATUS" ELSE kind
\* Snapshots that are copied from the one before keep its other marks.
Kept(s, req) == {m \in Latest(s).marks : MarkOf(m.kind) # MarkOf(req.kind)}

AddRevision(s, req, r) ==
    /\ subs' = [subs EXCEPT ![s].status = r.status, ![s].answers = r.answers, ![s].stay = r.stay,
                            ![s].revision = @ + 1]
    /\ revisions' = [revisions EXCEPT ![s] = Append(@, r)]
    /\ Reply(s, req.expected + 1, req, r.answers)
    /\ UNCHANGED <<views, stays>>

GuestCorrect(s, req, now) ==
    LET before == Latest(s)
    IN /\ UpToRevision(s, req) /\ Is(s, "SUBMITTED") /\ OfGuest(s) /\ Accessible(s) /\ req.kind = "GUEST"
       /\ req.answers \in GuestAnswers /\ Complete(req.answers) /\ req.answers # before.answers
       /\ AddRevision(s, req, [before EXCEPT
             !.action = "CORRECTED", !.by = None, !.answers = req.answers,
             !.photos = Retained(@, req.answers), !.marks = {req}, !.req = req])
       /\ RecordIssues(s, req.expected + 1, None, before.answers, req.answers, TRUE, now)

\* preserveMaintenanceRepairs: what staff reported of a repair outlives a correction of the item.
WithRepairs(s, requested) ==
    LET before == Latest(s).answers
    IN IF subs[s].type # "MAINTENANCE" THEN requested
       ELSE [i \in Items |-> IF Abnormal(requested, i) /\ Abnormal(before, i)
                             THEN [requested[i] EXCEPT !.repair = before[i].repair] ELSE requested[i]]

AdminCorrect(s, req, now) ==
    LET before == Latest(s)
        answers == WithRepairs(s, req.answers)
    IN /\ UpToRevision(s, req) /\ Is(s, "SUBMITTED") /\ req.kind = "ADMIN"
       /\ req.answers \in GuestAnswers /\ Complete(req.answers) /\ answers # before.answers
       /\ AddRevision(s, req, [before EXCEPT
             !.action = "CORRECTED", !.by = req.by, !.answers = answers,
             !.photos = Retained(@, answers), !.marks = Kept(s, req) \cup {req}, !.req = req])
       /\ RecordIssues(s, req.expected + 1, req.by, before.answers, answers, FALSE, now)

ChangeSubmissionStatus(s, req) ==
    /\ UpToRevision(s, req)
    /\ \/ req.kind = "CANCELLED" /\ Is(s, "SUBMITTED")
       \/ req.kind = "RESTORED" /\ Is(s, "CANCELLED")
    /\ AddRevision(s, req, [Latest(s) EXCEPT
          !.action = req.kind, !.by = req.by,
          !.status = IF req.kind = "CANCELLED" THEN "CANCELLED" ELSE "SUBMITTED",
          !.marks = Kept(s, req) \cup {req}, !.req = req])
    /\ UNCHANGED issueVars

\* A checklist that came with a QR code is linked to a reservation as an administrator saw it,
\* or unlinked.
\* Faulty variant: a reservation is taken once, for whatever type, by its latest revision.
LinkedByRevision(s, stay) ==
    \E other \in Submissions \ {s} :
        Is(other, "SUBMITTED") /\ Latest(other).match # None /\ Latest(other).match.stay = stay
        /\ Latest(other).match.revision = stays[stay].revision
LinkedElsewhere(s, stay) ==
    \E other \in Submissions \ {s} :
        Is(other, "SUBMITTED") /\ subs[other].stay = stay /\ subs[other].type = subs[s].type
MatchOf(req) == IF req.stay = None THEN None ELSE [stay |-> req.stay, revision |-> req.stayRevision]

\* Everything else is copied from the revision before.
LinkRevision(s, req) ==
    [Latest(s) EXCEPT !.action = "CORRECTED", !.by = req.by, !.stay = req.stay, !.match = MatchOf(req),
                      !.marks = {req}, !.req = req]

LinkStay(s, req) ==
    /\ UpToRevision(s, req) /\ Is(s, "SUBMITTED") /\ OfGuest(s) /\ ~Private(s) /\ req.kind = "LINK"
    /\ req.stay # None =>
          /\ stays[req.stay].revision = req.stayRevision /\ stays[req.stay].active /\ stays[req.stay].fits
          /\ ~LinkedElsewhere(s, req.stay)
    /\ <<subs[s].stay, Latest(s).match>> # <<req.stay, MatchOf(req)>>
    /\ AddRevision(s, req, LinkRevision(s, req))
    /\ UNCHANGED issueVars

\* readRetry: what an older revision was asked for is looked up, and nothing is done again.
RetryAllowed(s, kind) ==
    CASE kind = "GUEST" -> Is(s, "SUBMITTED") /\ OfGuest(s) /\ Accessible(s)
      [] kind = "ADMIN" -> Is(s, "SUBMITTED")
      [] kind = "LINK" -> Is(s, "SUBMITTED") /\ OfGuest(s) /\ ~Private(s)
      [] OTHER -> Is(s, "SUBMITTED") \/ Is(s, "CANCELLED")
ActionOf(kind) == IF kind \in {"CANCELLED", "RESTORED"} THEN kind ELSE "CORRECTED"
Recorded(r, req) == r.action = ActionOf(req.kind) /\ r.by = req.by /\ req \in r.marks

RepeatRequest(s, req) ==
    /\ RetryAllowed(s, req.kind) /\ req.expected \in 1 .. subs[s].revision - 1
    /\ Intact(s) /\ Recorded(revisions[s][req.expected + 1], req)
    /\ Reply(s, req.expected + 1, req, revisions[s][req.expected + 1].answers)
    /\ UNCHANGED <<issueVars, subs, revisions, views, stays>>

--------------------------------------------------------------------------------
\* Invitations.  A request names the revision of the reservation and the version of the
\* invitation it has seen; one that has not seen the current ones is refused.
UpToStay(x, seen) == stays[x].revision = seen.revision /\ stays[x].link = seen.link /\ seen.link < MaxLinks

IssueLink(x, seen) ==
    /\ UpToStay(x, seen) /\ stays[x].active /\ ~stays[x].late
    /\ stays' = [stays EXCEPT ![x].link = @ + 1, ![x].issuedFor = stays[x].revision]
    /\ UNCHANGED <<issueVars, subs, revisions, views, replies>>

RevokeLink(x, seen) ==
    /\ UpToStay(x, seen)
    /\ stays' = [stays EXCEPT ![x].link = @ + 1, ![x].issuedFor = 0]
    /\ UNCHANGED <<issueVars, subs, revisions, views, replies>>

\* A reservation is corrected, moved, cancelled or restored (module Bookings).
ReviseStay(x, active, fits, late) ==
    /\ stays[x].revision < MaxRevision
    /\ stays' = [stays EXCEPT ![x].revision = @ + 1, ![x].active = active, ![x].fits = fits, ![x].late = late]
    /\ UNCHANGED <<issueVars, subs, revisions, views, replies>>

Elapse(x) ==
    /\ ~stays[x].late
    /\ stays' = [stays EXCEPT ![x].late = TRUE]
    /\ UNCHANGED <<issueVars, subs, revisions, views, replies>>

--------------------------------------------------------------------------------
Init ==
    /\ IssuesInit
    /\ subs = [s \in Submissions |-> None]
    /\ revisions = [s \in Submissions |-> <<>>]
    /\ views = [s \in Submissions |-> {}]
    /\ stays = [x \in Stays |-> [revision |-> 1, link |-> 0, issuedFor |-> 0, active |-> TRUE,
                                 fits |-> TRUE, late |-> FALSE]]
    /\ replies = {}

DraftStep(s, now) ==
    \/ \E type \in Types, x \in Stays \cup {None} : StartDraft(s, type, x, now)
    \/ \E seen \in views[s] :
          \/ \E answers \in Answers : SaveDraft(s, seen, answers, now)
          \/ \E photos \in SUBSET Photos(subs[s].answers) : SubmitChecklist(s, seen, photos, now)

Retry(s) ==
    \/ \E seen \in views[s], photos \in {r.req.photos : r \in replies} : RepeatSubmit(s, seen, photos)
    \/ \E r \in replies : \E a \in Admins \cup {None}, e \in 1 .. MaxRevision :
          RepeatRequest(s, [r.req EXCEPT !.by = a, !.expected = e])

CorrectionStep(s, e, now) ==
    \E answers \in GuestAnswers, why \in Reasons :
        \/ GuestCorrect(s, [Blank EXCEPT !.kind = "GUEST", !.expected = e, !.answers = answers, !.why = why], now)
        \/ \E a \in Admins :
              AdminCorrect(s, [Blank EXCEPT !.kind = "ADMIN", !.by = a, !.expected = e, !.answers = answers,
                                            !.why = why], now)

AdministrationStep(s, e) ==
    \E a \in Admins, why \in Reasons :
        \/ \E kind \in {"CANCELLED", "RESTORED"} :
              ChangeSubmissionStatus(s, [Blank EXCEPT !.kind = kind, !.by = a, !.expected = e, !.why = why])
        \/ \E x \in Stays \cup {None}, n \in 0 .. MaxRevision :
              LinkStay(s, [Blank EXCEPT !.kind = "LINK", !.by = a, !.expected = e, !.stay = x,
                                        !.stayRevision = n, !.why = why])

StayStep(x) ==
    \/ \E seen \in [revision : 1 .. MaxRevision, link : 0 .. MaxLinks] : IssueLink(x, seen) \/ RevokeLink(x, seen)
    \/ \E active, fits, late \in BOOLEAN : ReviseStay(x, active, fits, late)
    \/ Elapse(x)

Next ==
    \/ \E s \in Submissions, now \in 0 .. MaxClock : DraftStep(s, now)
    \/ \E s \in Submissions : Retry(s)
    \/ \E s \in Submissions, e \in 1 .. MaxRevision, now \in 0 .. MaxTime : CorrectionStep(s, e, now)
    \/ \E s \in Submissions, e \in 1 .. MaxRevision : AdministrationStep(s, e)
    \/ \E x \in Stays : StayStep(x)
    \/ IssuesNext /\ UNCHANGED subVars

Spec == Init /\ [][Next]_vars
--------------------------------------------------------------------------------
\* The row of a checklist is what its latest revision says, revisions follow each other as their
\* requesters had seen them, and no photo comes back or outlives the answer it belongs to,
\* although drafts, corrections, links and changes of status each rebuild the snapshot themselves.
RecordMatchesRevision ==
    \A s \in Submissions :
        /\ ~Started(s) \/ Is(s, "DRAFT") => revisions[s] = <<>>
        /\ Started(s) /\ ~Is(s, "DRAFT") => Intact(s)
        /\ \A v \in 1 .. Len(revisions[s]) :
              /\ revisions[s][v].photos \subseteq Photos(revisions[s][v].answers)
              /\ v > 1 => /\ revisions[s][v].req.expected = v - 1
                          /\ revisions[s][v].photos \subseteq revisions[s][v - 1].photos

\* However late a request is repeated: success is reported only of the revision that was made for
\* it, and a submission only of the answers its client had been shown.
ConfirmedAsAsked ==
    \A r \in replies :
        /\ r.version \in 1 .. Len(revisions[r.sub])
        /\ revisions[r.sub][r.version].req = r.req
        /\ r.req.kind = "SUBMIT" => r.seen = revisions[r.sub][1].answers

\* Submission and both corrections keep issues in step with answers: an item has an issue once it
\* was abnormal, every change of its answer since then is one event that names the revision, and
\* the issue describes the latest abnormal answer, whatever administrators did to it meanwhile.
IssuesTrackAnswers ==
    \A s \in Submissions, i \in Items :
        LET history == revisions[s]
            j == <<s, i>>
            Was(v) == Abnormal(history[v].answers, i)
            changes == {v \in 2 .. Len(history) :
                           /\ history[v].answers[i] # history[v - 1].answers[i]
                           /\ \E w \in 1 .. v - 1 : Was(w)}
        IN /\ Reported(j) <=> \E v \in 1 .. Len(history) : Was(v)
           /\ changes = {events[j][n].revision :
                            n \in {n \in DOMAIN events[j] : events[j][n].type = "UPDATED"}} \ {0}
           /\ \A v \in 1 .. Len(history) :
                 Was(v) /\ (\A w \in v + 1 .. Len(history) : ~Was(w)) => issues[j].text = history[v].answers[i].text

\* A linked checklist shows a reservation as it was when it was chosen, one that its guest can
\* still open shows it as it is, and of two that came by QR code and are linked to one reservation
\* one was restored after a cancellation.  linkStay() looks for duplicates, the others do not.
Restored(s) == \E v \in 1 .. Len(revisions[s]) : revisions[s][v].action = "RESTORED"
LinkedTwice(s, d) ==
    /\ Is(s, "SUBMITTED") /\ Is(d, "SUBMITTED") /\ s # d
    /\ subs[s].stay # None /\ subs[s].stay = subs[d].stay /\ subs[s].type = subs[d].type
LinksAreDeliberate ==
    /\ \A s \in Submissions : Started(s) /\ ~Is(s, "DRAFT") =>
          LET match == Latest(s).match
          IN /\ (match = None) = (subs[s].stay = None)
             /\ match # None => match.stay = subs[s].stay /\ match.revision <= stays[match.stay].revision
             /\ Private(s) /\ Accessible(s) => match.revision = stays[match.stay].revision
    /\ \A s, d \in Submissions : LinkedTwice(s, d) => \E r \in {s, d} : Private(r) \/ Restored(r)

\* Once the invitation a checklist was begun with is replaced or revoked, or its reservation is
\* changed in any way, the private link of the checklist never opens again, not even when the
\* reservation is as it was before.
Lost(s) ==
    LET x == stays[subs[s].stay] IN x.link # subs[s].link \/ x.revision # x.issuedFor
InvitationsStayClosed ==
    [][\A s \in Submissions : Private(s) /\ Lost(s) => ~Accessible(s)']_vars
================================================================================
