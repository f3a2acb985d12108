--------------------------------- MODULE Issues ---------------------------------
(***************************************************************************)
(* Reported problems.  An issue is the row of the current state and one    *)
(* event for each version of it, with a snapshot of the row.  Guests       *)
(* report issues under a request key; checklists report them per item (in  *)
(* Submissions, which composes this module); administrators annotate them, *)
(* move them on, link them to earlier ones, cancel and restore them.       *)
(*                                                                         *)
(* Each operation is one serializable transaction and so one action.  A    *)
(* request names the version it has seen.  Clients send requests again     *)
(* when an answer is lost, so a request may arrive at any time, any number *)
(* of times; one that is refused changes nothing and is no step.           *)
(***************************************************************************)
EXTENDS Integers, Sequences, SequencesExt, FiniteSets

CONSTANTS ChecklistIds, \* issues of checklist items: requestKey checklist:<submission>:<item>
          GuestKeys,    \* issues that guests report: requestKey guest-issue:<property>:<key>
          Texts,        \* what is described: title, description and area
          Categories, Names, Fallback, \* category rows; their names; the name of the default one
          Admins, Reasons,
          MaxDepth,     \* MAX_RECURRENCE_DEPTH
          MaxVersion,   \* bound: versions of an issue
          MaxTime,      \* bound: readings of the clock
          None

VARIABLES issues,     \* the Issue table
          events,     \* the IssueEvent table
          categories, \* the IssueCategory table
          acks        \* the requests that were answered with success, and with which version

issueVars == <<issues, events, categories, acks>>

ASSUME IssueBoundsAreNat == MaxDepth \in Nat /\ MaxVersion \in Nat /\ MaxTime \in Nat
ASSUME FallbackIsName == Fallback \in Names
\* Request keys of the two kinds begin differently.
ASSUME KeysAreApart == ChecklistIds \cap GuestKeys = {}

IssueIds == ChecklistIds \cup GuestKeys
Statuses == {"NEW", "IN_PROGRESS", "RESOLVED"}
EventTypes == {"REPORTED", "UPDATED", "STATUS_CHANGED", "REPAIR_REPORTED", "RESOLVED",
               "REOPENED", "CANCELLED", "RESTORED"}
Issue == [version: Nat, text: Texts, urgent: BOOLEAN, status: Statuses, resolver: Admins \cup {None},
          cancelled: BOOLEAN, recurrenceOf: IssueIds \cup {None}, reportedAt: Nat]
\* What a request says: who sent it, the version it has seen and what it asks for.
Contents == [category: Categories, text: Texts, urgent: BOOLEAN]
IssueRequest == [kind: {"REPORT", "CHECKLIST", "NOTE", "STATUS", "URGENCY", "RECURRENCE", "CANCELLED", "RESTORED"},
                 by: Admins \cup {None}, expected: Nat, says: Reasons \cup Contents \cup {None}]
\* revision: the number of the submission's revision in sourceRevisionId, or 0.
Event == [type: EventTypes, from: Statuses \cup {None}, to: Statuses, revision: Nat,
          req: IssueRequest, snapshot: Issue]
Category == [name: Names, active: BOOLEAN, updatedAt: Nat]
ASSUME NoneIsNoIssue == None \notin Issue \cup IssueIds \cup Admins \cup Category \cup Statuses

IssuesTypeOK ==
    /\ issues \in [IssueIds -> Issue \cup {None}]
    /\ events \in [IssueIds -> Seq(Event)]
    /\ categories \in [Categories -> Category \cup {None}]
    /\ acks \subseteq [issue: IssueIds, version: Nat, req: IssueRequest]

--------------------------------------------------------------------------------
Reported(i) == issues[i] # None
\* The record of the latest event, from which every writer makes the next snapshot.
Current(i) == Last(events[i]).snapshot
\* currentRecord: a reader refuses a row that its latest event does not show.
Readable(i) == Reported(i) /\ Len(events[i]) = issues[i].version /\ Current(i) = issues[i]

NewIssue(text, urgent, at) ==
    [version |-> 1, text |-> text, urgent |-> urgent, status |-> "NEW", resolver |-> None,
     cancelled |-> FALSE, recurrenceOf |-> None, reportedAt |-> at]
ReportEvent(row, revision, req) ==
    [type |-> "REPORTED", from |-> None, to |-> "NEW", revision |-> revision, req |-> req, snapshot |-> row]
UpdateEvent(i, type, revision, req, row) ==
    [type |-> type, from |-> issues[i].status, to |-> row.status, revision |-> revision, req |-> req, snapshot |-> row]
Ack(i, req) == [issue |-> i, version |-> req.expected + 1, req |-> req]

\* Row and event are written together, each from what was read of it.
Record(i, type, req, row, snapshot) ==
    /\ issues' = [issues EXCEPT ![i] = row]
    /\ events' = [events EXCEPT ![i] = Append(@, UpdateEvent(i, type, 0, req, snapshot))]

\* A request asks for the next version of an issue, within the bound.
\* Faulty variant: it may have seen an older one.
NotAhead(i, req) == Readable(i) /\ req.expected <= issues[i].version /\ issues[i].version < MaxVersion
UpToDate(i, req) ==
    Reported(i) /\ issues[i].version = req.expected /\ req.expected < MaxVersion /\ Readable(i)
Mutable(i, req) == UpToDate(i, req) /\ ~issues[i].cancelled

--------------------------------------------------------------------------------
\* A guest's report, under a request key that is used again when the answer was lost.
Report(content) == [kind |-> "REPORT", by |-> None, expected |-> 0, says |-> content]

ReportIssue(k, content, at) ==
    LET row == NewIssue(content.text, content.urgent, at)
    IN /\ ~Reported(k)
       /\ categories[content.category] # None /\ categories[content.category].active
       /\ issues' = [issues EXCEPT ![k] = row]
       /\ events' = [events EXCEPT ![k] = <<ReportEvent(row, 0, Report(content))>>]
       /\ acks' = acks \cup {Ack(k, Report(content))}
       /\ UNCHANGED categories

\* existingReceipt: whatever became of the issue, the report is compared with its first event.
\* Faulty variant: the key alone identifies the report.
RepeatKey(k, content) ==
    /\ Reported(k)
    /\ acks' = acks \cup {Ack(k, Report(content))}
    /\ UNCHANGED <<issues, events, categories>>
RepeatReport(k, content) ==
    /\ Reported(k)
    /\ events[k][1].type = "REPORTED" /\ events[k][1].req.says = content
    /\ acks' = acks \cup {Ack(k, Report(content))}
    /\ UNCHANGED <<issues, events, categories>>

Request(kind, a, e) == [kind |-> kind, by |-> a, expected |-> e, says |-> None]

NextVersion(r) == [r EXCEPT !.version = @ + 1]

AddNote(i, req) ==
    /\ Mutable(i, req) /\ req.kind = "NOTE"
    /\ Record(i, "UPDATED", req, NextVersion(issues[i]), NextVersion(Current(i)))
    /\ UNCHANGED <<categories, acks>>

StatusEvent(from, to) ==
    CASE to = "RESOLVED" /\ from # to -> "RESOLVED"
      [] to = "IN_PROGRESS" /\ from = "NEW" -> "STATUS_CHANGED"
      [] to = "IN_PROGRESS" /\ from = "RESOLVED" -> "REOPENED"
      [] OTHER -> None

WithStatus(r, to, admin) == [NextVersion(r) EXCEPT !.status = to, !.resolver = IF to = "RESOLVED" THEN admin ELSE None]

ChangeStatus(i, req, to) ==
    /\ Mutable(i, req) /\ req.kind = "STATUS"
    /\ StatusEvent(issues[i].status, to) # None
    /\ Record(i, StatusEvent(issues[i].status, to), req,
              WithStatus(issues[i], to, req.by), WithStatus(Current(i), to, req.by))
    /\ UNCHANGED <<categories, acks>>

Toggled(r) == [NextVersion(r) EXCEPT !.urgent = ~@]

ChangeUrgency(i, req) ==
    /\ Mutable(i, req) /\ req.kind = "URGENCY"
    /\ Record(i, "UPDATED", req, Toggled(issues[i]), Toggled(Current(i)))
    /\ UNCHANGED <<categories, acks>>

\* assertRecurrenceTarget: the walk from the chosen issue along the links that exist.
IsWalk(chain, target) ==
    /\ chain[0] = target
    /\ \A d \in 1 .. MaxDepth :
          chain[d] = IF chain[d - 1] = None THEN None ELSE issues[chain[d - 1]].recurrenceOf
Walks(target) == {chain \in [0 .. MaxDepth -> IssueIds \cup {None}] : IsWalk(chain, target)}
\* recurrenceCandidatesWhere: the earlier issues that are offered.
\* Faulty variant: cancelled ones, too.
AllEarlier(i) ==
    {j \in IssueIds \ {i, issues[i].recurrenceOf} : Reported(j) /\ issues[j].reportedAt < issues[i].reportedAt}
Candidates(i) ==
    {j \in IssueIds \ {i, issues[i].recurrenceOf} :
        Reported(j) /\ ~issues[j].cancelled /\ issues[j].reportedAt < issues[i].reportedAt}
\* Faulty variant: one link is checked, and times may be equal.
LinkAllowed(i, target) ==
    /\ Reported(target) /\ ~issues[target].cancelled /\ target # i
    /\ issues[target].reportedAt <= issues[i].reportedAt
RecurrenceAllowed(i, target) ==
    /\ Reported(target) /\ ~issues[target].cancelled
    /\ \E chain \in Walks(target) :
          /\ chain[MaxDepth] = None
          /\ \A d \in 0 .. MaxDepth : chain[d] # None =>
                /\ chain[d] # i /\ \A c \in 0 .. d - 1 : chain[c] # chain[d]
                /\ Reported(chain[d])
                /\ issues[chain[d]].reportedAt < issues[IF d = 0 THEN i ELSE chain[d - 1]].reportedAt

Linked(r, target) == [NextVersion(r) EXCEPT !.recurrenceOf = target]

ChangeRecurrence(i, req, target) ==
    /\ Mutable(i, req) /\ req.kind = "RECURRENCE"
    /\ target # issues[i].recurrenceOf
    /\ target # None => RecurrenceAllowed(i, target) /\ Readable(target)
    /\ Record(i, "UPDATED", req, Linked(issues[i], target), Linked(Current(i), target))
    /\ UNCHANGED <<categories, acks>>

--------------------------------------------------------------------------------
\* Cancellation and restoration, which a repeated request finds in the history.
Cancelled(r, on) == [NextVersion(r) EXCEPT !.cancelled = on]

ChangeCancellation(i, req) ==
    /\ UpToDate(i, req) /\ req.kind \in {"CANCELLED", "RESTORED"}
    /\ issues[i].cancelled = (req.kind = "RESTORED")
    /\ Record(i, req.kind, req, Cancelled(issues[i], req.kind = "CANCELLED"), Cancelled(Current(i), req.kind = "CANCELLED"))
    /\ acks' = acks \cup {Ack(i, req)}
    /\ UNCHANGED categories

\* readRetry: an older version is looked up, and nothing is done again.
RepeatCancellation(i, req) ==
    /\ Readable(i) /\ req.expected \in 1 .. issues[i].version - 1
    /\ events[i][req.expected + 1].type = req.kind
    /\ events[i][req.expected + 1].req = req
    /\ acks' = acks \cup {Ack(i, req)}
    /\ UNCHANGED <<issues, events, categories>>

--------------------------------------------------------------------------------
NameTaken(n) == \E c \in Categories : categories[c] # None /\ categories[c].name = n

CreateCategory(c, n) ==
    /\ categories[c] = None /\ ~NameTaken(n)
    /\ categories' = [categories EXCEPT ![c] = [name |-> n, active |-> TRUE, updatedAt |-> 0]]
    /\ UNCHANGED <<issues, events, acks>>

\* An update must have seen the row as it is (expectedUpdatedAt).  The order in which categories
\* are listed may be all it changes.
UpdateCategory(c, seen, n, on) ==
    /\ categories[c] # None /\ seen = categories[c].updatedAt /\ seen < MaxVersion
    /\ categories[c].name = Fallback => n = Fallback /\ (on \/ ~categories[c].active)
    /\ categories[c].name # Fallback => n # Fallback
    /\ n # categories[c].name => ~NameTaken(n)
    /\ categories' = [categories EXCEPT ![c] = [name |-> n, active |-> on, updatedAt |-> seen + 1]]
    /\ UNCHANGED <<issues, events, acks>>

--------------------------------------------------------------------------------
IssuesInit ==
    /\ issues = [i \in IssueIds |-> None]
    /\ events = [i \in IssueIds |-> <<>>]
    /\ categories = [c \in Categories |-> None]
    /\ acks = {}

AdminStep(i, a, e) ==
    \/ AddNote(i, Request("NOTE", a, e))
    \/ \E to \in Statuses : ChangeStatus(i, Request("STATUS", a, e), to)
    \/ ChangeUrgency(i, Request("URGENCY", a, e))
    \/ \E target \in IssueIds \cup {None} : ChangeRecurrence(i, Request("RECURRENCE", a, e), target)
    \/ \E kind \in {"CANCELLED", "RESTORED"}, why \in Reasons :
          LET req == [kind |-> kind, by |-> a, expected |-> e, says |-> why]
          IN ChangeCancellation(i, req) \/ RepeatCancellation(i, req)

GuestStep(k, content) ==
    \/ \E at \in 0 .. MaxTime : ReportIssue(k, content, at)
    \/ RepeatReport(k, content)

CategoryStep(c) ==
    \E n \in Names : \/ CreateCategory(c, n)
                     \/ \E seen \in 0 .. MaxVersion, on \in BOOLEAN : UpdateCategory(c, seen, n, on)

IssuesNext ==
    \/ \E i \in IssueIds, a \in Admins, e \in 1 .. MaxVersion : AdminStep(i, a, e)
    \/ \E k \in GuestKeys, content \in Contents : GuestStep(k, content)
    \/ \E c \in Categories : CategoryStep(c)

IssuesSpec == IssuesInit /\ [][IssuesNext]_issueVars

--------------------------------------------------------------------------------
\* The history of an issue has no gap and no overlap: event v shows version v, starts from the
\* status the one before ended with, was asked for by someone who had seen that one, and the
\* last event shows the row, although all writers write the two tables separately.
HistoryMatches ==
    \A i \in IssueIds :
        /\ Reported(i) => Readable(i)
        /\ ~Reported(i) => events[i] = <<>>
        /\ \A v \in 1 .. Len(events[i]) :
              /\ events[i][v].snapshot.version = v
              /\ events[i][v].to = events[i][v].snapshot.status
              /\ events[i][v].from = (IF v = 1 THEN None ELSE events[i][v - 1].to)
              /\ events[i][v].req.by # None => events[i][v].req.expected = v - 1

\* Whatever is repeated, and however late: success is reported only of what was done as asked.
RepliesAreTrue ==
    \A a \in acks : a.version \in 1 .. Len(events[a.issue]) /\ events[a.issue][a.version].req = a.req

\* Links to earlier occurrences, set one by one, never close a circle.
NoRecurrenceCycle ==
    \A C \in SUBSET IssueIds : C # {} => \E i \in C : Reported(i) => issues[i].recurrenceOf \notin C

\* The list of earlier issues that changeRecurrence() offers and the walk with which it checks the
\* choice agree: whatever is offered is accepted, unless the chain behind it is too long.
OfferedIsAccepted ==
    \A i \in IssueIds : Reported(i) => \A target \in Candidates(i) :
        RecurrenceAllowed(i, target) \/ \E chain \in Walks(target) : chain[MaxDepth] # None
================================================================================
