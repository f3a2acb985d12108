--------------------------------- MODULE Readers ---------------------------------
(***************************************************************************)
(* What is shown of checklists and issues: the lists, details and          *)
(* histories of administrators, the page of a guest, the checklists in the *)
(* calendar of reservations, the report and the archive of a period.  Each *)
(* reads in one repeatable-read transaction, so it sees one state, and     *)
(* refuses a record whose rows contradict each other rather than to show   *)
(* one of them.  Every reader has its own idea of what a record must be    *)
(* like, and none of them is called by the writers of Submissions and      *)
(* Issues: a field that one writer forgets makes a record unreadable, and  *)
(* with it the whole list or report it belongs to.                         *)
(*                                                                         *)
(* Periods, filters and pages choose among records and are left out, and   *)
(* so are the files of the photos (PhotoUploads).                          *)
(***************************************************************************)
EXTENDS Submissions

ASSUME TablesAreFinite == IsFiniteSet(Submissions)

--------------------------------------------------------------------------------
\* Snapshots are validated again as if they were submitted: required items, and photos of what
\* is abnormal or repaired; repairs only in the checklists of staff.
Stored(s) == Is(s, "SUBMITTED") \/ Is(s, "CANCELLED")
Prepared(photos, answers) == \A p \in photos : p \in Photos(answers)
Parses(s, v) ==
    LET r == revisions[s][v]
    IN /\ Complete(r.answers) /\ Prepared(r.photos, r.answers)
       /\ subs[s].type # "MAINTENANCE" => r.answers \in GuestAnswers

\* The revision the row names is the latest and has its status.
HeadMatches(s) == Len(revisions[s]) = subs[s].revision /\ subs[s].revision > 0 /\ Latest(s).status = subs[s].status
\* Both ways in which guests come to a checklist, and nothing between them.
Attributed(s) == OfGuest(s) /\ (Private(s) => subs[s].stay # None)

ListShows(s) == Stored(s) /\ HeadMatches(s) /\ Parses(s, subs[s].revision) /\ Latest(s).stay = subs[s].stay
RevisionShows(s, v) ==
    /\ v \in 1 .. subs[s].revision /\ v <= Len(revisions[s])
    /\ Parses(s, v)
    /\ v = subs[s].revision => revisions[s][v].stay = subs[s].stay
DetailShows(s) == Stored(s) /\ HeadMatches(s) /\ RevisionShows(s, subs[s].revision)
HistoryShows(s) == Stored(s) /\ \A v \in DOMAIN revisions[s] : v <= subs[s].revision => RevisionShows(s, v)

\* What an administrator is offered as not linked yet.
Unlinked == {s \in Submissions : Is(s, "SUBMITTED") /\ OfGuest(s) /\ ~Private(s) /\ subs[s].stay = None}
\* readSubmissionStayRecord(), before a link is offered or made.
StayRecordShows(s) ==
    /\ Is(s, "SUBMITTED") /\ OfGuest(s) /\ ~Private(s)
    /\ HeadMatches(s) /\ Parses(s, subs[s].revision) /\ Latest(s).stay = subs[s].stay

\* getCandidates(): the reservations it may be linked to, and those another checklist has.
StayCandidates == {x \in Stays : stays[x].active /\ stays[x].fits}
AlreadyLinked(s) ==
    {x \in StayCandidates : \E other \in Submissions \ {s} :
        Is(other, "SUBMITTED") /\ subs[other].type = subs[s].type /\ subs[other].stay = x}

\* readCurrent(), for the private link of a guest.
GuestMayRead(s) == Accessible(s) /\ Is(s, "SUBMITTED") /\ OfGuest(s)
GuestSees(s) == HeadMatches(s) /\ Parses(s, subs[s].revision) /\ Latest(s).stay = subs[s].stay

\* A row of the report of a period.
ReportShows(s) ==
    /\ HeadMatches(s) /\ subs[s].type # "MAINTENANCE" => Attributed(s)
    /\ Parses(s, subs[s].revision) /\ Latest(s).stay = subs[s].stay

\* The archive takes all revisions in turn and compares the last one with the row.
ArchiveShows(s) ==
    /\ subs[s].revision > 0 /\ DOMAIN revisions[s] = 1 .. subs[s].revision
    /\ \A v \in DOMAIN revisions[s] : Parses(s, v)
    /\ Latest(s).status = subs[s].status /\ Latest(s).stay = subs[s].stay

--------------------------------------------------------------------------------
\* parseIssueSnapshot(): a resolved issue has someone who resolved it, and recurs from another.
IssueParses(i, v) ==
    LET row == events[i][v].snapshot
    IN /\ row.version = v /\ (row.status = "RESOLVED") = (row.resolver # None) /\ row.recurrenceOf # i

\* The revision an event came from is one of the issue's checklist.
FromChecklist(i) == i \in ChecklistIds
SourceShows(i, v) ==
    LET e == events[i][v]
    IN /\ e.revision # 0 => FromChecklist(i) /\ e.revision \in DOMAIN revisions[i[1]]
       /\ FromChecklist(i) /\ e.type \in {"REPORTED", "REPAIR_REPORTED"} => e.revision # 0
       /\ FromChecklist(i) /\ e.type = "REPORTED" => e.revision = events[i][1].revision

EventShows(i, v) ==
    LET e == events[i][v]
    IN /\ v <= issues[i].version /\ IssueParses(i, v) /\ SourceShows(i, v)
       /\ e.to = e.snapshot.status
       /\ v = 1 => e.type = "REPORTED" /\ e.from = None

\* currentRecord(): the latest event shows the row.
CurrentShows(i) == Readable(i) /\ IssueParses(i, issues[i].version)
IssueDetailShows(i) ==
    CurrentShows(i) /\ EventShows(i, issues[i].version) /\ EventShows(i, 1) /\ events[i][1].type = "REPORTED"
IssueHistoryShows(i) == \A v \in DOMAIN events[i] : v <= issues[i].version => EventShows(i, v)
IssueReportShows(i) ==
    LET e == Last(events[i])
    IN /\ CurrentShows(i) /\ SourceShows(i, issues[i].version) /\ e.to = e.snapshot.status
       /\ (issues[i].version = 1) = (e.type = "REPORTED")
       /\ (issues[i].version = 1) = (e.from = None)
       /\ issues[i].version = 1 => e.to = "NEW"
IssueArchiveShows(i) ==
    /\ DOMAIN events[i] = 1 .. issues[i].version
    /\ \A v \in DOMAIN events[i] : IssueParses(i, v) /\ SourceShows(i, v)
    /\ CurrentShows(i)

\* The list of issues, whose pages fail as a whole, and so do the report and the archive.
IssueListShows == \A i \in IssueIds : Reported(i) /\ issues[i].version >= 1 => CurrentShows(i)
\* The list of earlier issues that i may be said to recur from.
RecurrenceListShows(i) == IssueDetailShows(i) /\ \A j \in Candidates(i) : CurrentShows(j)
ReportOpens ==
    /\ \A s \in Submissions : Is(s, "SUBMITTED") => ReportShows(s)
    /\ \A i \in IssueIds : Reported(i) /\ ~issues[i].cancelled => IssueReportShows(i)
ArchiveOpens ==
    /\ \A s \in Submissions : Stored(s) => ArchiveShows(s)
    /\ \A i \in IssueIds : Reported(i) => IssueArchiveShows(i)
\* The archive counts versions as it reads and compares them with what there is.
VersionsRead ==
    Cardinality(UNION {{s} \X (1 .. subs[s].revision) : s \in {s \in Submissions : Stored(s)}})
    + Cardinality(UNION {{i} \X (1 .. issues[i].version) : i \in {i \in IssueIds : Reported(i)}})
VersionsStored ==
    Cardinality(UNION {{s} \X DOMAIN revisions[s] : s \in Submissions})
    + Cardinality(UNION {{i} \X DOMAIN events[i] : i \in IssueIds})

--------------------------------------------------------------------------------
\* The calendar shows of a reservation how its check-in and its check-out stand.
LinkedTo(x, type) == {s \in Submissions : Is(s, "SUBMITTED") /\ subs[s].stay = x /\ subs[s].type = type}

\* A record the calendar cannot use.
\* The day of a checklist with an invitation is that of the reservation it was begun for.
Contradicts(s, x) ==
    LET match == Latest(s).match
    IN \/ ~HeadMatches(s) \/ ~Attributed(s) \/ ~Parses(s, subs[s].revision) \/ Latest(s).stay # x
       \/ match # None /\ match.stay # x
\* Faulty variant: only reservations that are not active any more have changed.
CancelledSince(s, x) == ~stays[x].active
ChangedSince(s, x) == Latest(s).match.revision # stays[x].revision

ReviewReasons(s, x) ==
    IF Contradicts(s, x) THEN {"INVALID_SUBMISSION_RECORD"}
    ELSE (IF ~Private(s) /\ ~stays[x].fits THEN {"VISIT_DATE_MISMATCH"} ELSE {})
         \cup (IF Latest(s).match = None THEN {"MISSING_MATCH_CONTEXT"}
               ELSE IF ChangedSince(s, x) THEN {"STAY_CHANGED"} ELSE {})

\* Reasons to look at a checklist that was submitted; {} when all is well.
Calendar(x, type) ==
    LET linked == LinkedTo(x, type)
    IN IF Cardinality(linked) > 1 THEN {"DUPLICATE_SUBMISSIONS"}
       ELSE UNION {ReviewReasons(s, x) : s \in linked}

\* Its items, and how many of those that arrive or depart the dashboard calls submitted.
CalendarStays == {x \in Stays : stays[x].active}
ChecklistStatus(x, type) ==
    IF LinkedTo(x, type) = {} THEN "NOT_SUBMITTED" ELSE IF Calendar(x, type) = {} THEN "SUBMITTED" ELSE "NEEDS_REVIEW"
Dashboard(type, status) ==
    Cardinality({x \in CalendarStays : stays[x].fits /\ ChecklistStatus(x, type) = status})

--------------------------------------------------------------------------------
\* Whatever guests and administrators did to a checklist and to its issues: no list, detail,
\* history, report or archive refuses a record they left, and the reservation of every checklist
\* that is offered as not linked can be looked for.  Six writers of submission revisions and a
\* dozen of issue events each build their own snapshot; the readers accept all of them.
NothingIsRefused ==
    /\ \A s \in Submissions : Stored(s) =>
          /\ ListShows(s) /\ DetailShows(s) /\ HistoryShows(s)
          /\ GuestMayRead(s) => GuestSees(s)
    /\ \A s \in Unlinked : StayRecordShows(s)
    /\ \A i \in IssueIds : Reported(i) => RecurrenceListShows(i) /\ IssueHistoryShows(i)
    /\ IssueListShows /\ ReportOpens /\ ArchiveOpens /\ VersionsRead = VersionsStored

\* A checklist the calendar shows without a remark is for a reservation that is still on its day,
\* and a guest who can still open theirs has not fallen behind the reservation; a wrong day shows
\* as a change, too; no record is shown as invalid or as never matched; the dashboard calls as
\* many submitted as are; and a reservation that an administrator is offered for a checklist as
\* free is on the day of it and none the calendar shows with one.
CalendarIsTrue ==
    /\ \A x \in CalendarStays, type \in GuestTypes :
        LET linked == LinkedTo(x, type)
            shown == Calendar(x, type)
        IN /\ shown \cap {"INVALID_SUBMISSION_RECORD", "MISSING_MATCH_CONTEXT"} = {}
           /\ "VISIT_DATE_MISMATCH" \in shown => "STAY_CHANGED" \in shown
           /\ linked # {} /\ shown = {} => \A s \in linked : ~Private(s) => stays[x].fits
           /\ \A s \in linked : Private(s) /\ Accessible(s) => "STAY_CHANGED" \notin shown
    /\ \A type \in GuestTypes :
          Dashboard(type, "SUBMITTED") <= Cardinality({s \in Submissions : Is(s, "SUBMITTED") /\ subs[s].type = type})
    /\ \A s \in Unlinked : \A x \in StayCandidates \ AlreadyLinked(s) :
          StayRecordShows(s) => x \in CalendarStays /\ ChecklistStatus(x, subs[s].type) = "NOT_SUBMITTED"
================================================================================
