--------------------------- MODULE SubmissionsProofs ---------------------------
(***************************************************************************)
(* Theorems about Issues, about Submissions and about what Readers makes   *)
(* of both, for all checklists, answers, administrators, reservations and  *)
(* bounds.                                                                 *)
(*                                                                         *)
(* Rows and histories of issues agree because every writer appends events  *)
(* for the versions after the one it has read; links go back in time,      *)
(* which is what the check of a link needs to be true of those set before  *)
(* it.  This invariant is kept by the actions of Issues and by checklists, *)
(* which write issues, too.  SInv is that of the checklists, TInv relates  *)
(* the answers of a checklist to the histories of its issues, and what the *)
(* readers ask of a record follows from the three.                         *)
(***************************************************************************)
EXTENDS Readers, TLAPS, SequenceTheorems, FiniteSetTheorems, WellFoundedInduction

\* The conjunct of HistoryMatches for one issue.
HistoryOf(i) ==
    /\ Reported(i) => Readable(i)
    /\ ~Reported(i) => events[i] = <<>>
    /\ \A v \in 1 .. Len(events[i]) :
          /\ events[i][v].snapshot.version = v
          /\ events[i][v].to = events[i][v].snapshot.status
          /\ events[i][v].from = (IF v = 1 THEN None ELSE events[i][v - 1].to)
          /\ events[i][v].req.by # None => events[i][v].req.expected = v - 1

\* A link leads to an issue that was reported before.
LinkGoesBack(i) ==
    issues[i].recurrenceOf # None =>
        /\ Reported(issues[i].recurrenceOf)
        /\ issues[issues[i].recurrenceOf].reportedAt < issues[i].reportedAt

\* A guest's report can be compared with the first event of its issue.
OfGuestReport(i) == i \in GuestKeys => events[i][1].req = Report(events[i][1].req.says)

RowIsSound(i) == Reported(i) => issues[i].version # 0 /\ OfGuestReport(i) /\ LinkGoesBack(i)

\* What every reader asks of a row, and of the event that made it: whoever resolved it is known,
\* it does not recur from itself, only the first event is a report, and what a checklist reported
\* names a revision of it.
RowParses(i, row) == (row.status = "RESOLVED" <=> row.resolver # None) /\ row.recurrenceOf # i
EventIsSound(i, v) ==
    LET e == events[i][v]
    IN /\ RowParses(i, e.snapshot)
       /\ e.type = "REPORTED" <=> v = 1
       /\ v = 1 => e.to = "NEW"
       /\ e.revision # 0 => i \in ChecklistIds
       /\ i \in ChecklistIds /\ e.type \in {"REPORTED", "REPAIR_REPORTED"} => e.revision # 0
EventsAreSound(i) == \A v \in 1 .. Len(events[i]) : EventIsSound(i, v)

IInv ==
    /\ IssuesTypeOK
    /\ \A i \in IssueIds : HistoryOf(i)
    /\ \A i \in IssueIds : RowIsSound(i)
    /\ \A i \in IssueIds : EventsAreSound(i)
    /\ RepliesAreTrue

LEMMA InitIInv == IssuesInit => IInv
<1> SUFFICES ASSUME IssuesInit PROVE IInv
    OBVIOUS
<1>1. \A i \in IssueIds : ~Reported(i) /\ events[i] = <<>>
    BY DEF IssuesInit, Reported
<1>2. IssuesTypeOK
    BY DEF IssuesInit, IssuesTypeOK
<1> QED BY <1>1, <1>2 DEF IInv, HistoryOf, RowIsSound, EventsAreSound, RepliesAreTrue, IssuesInit

--------------------------------------------------------------------------------
\* A step as one issue sees it: its history only grows, stays a history, and describes the row.
Grows(i) == \A v \in 1 .. Len(events[i]) : v \in 1 .. Len(events'[i]) /\ events'[i][v] = events[i][v]
RowStaysReported(i) == Reported(i) => Reported(i)' /\ issues'[i].reportedAt = issues[i].reportedAt
LinksToEarlier(i) ==
    issues'[i].recurrenceOf # None =>
        /\ issues'[i].recurrenceOf \in IssueIds /\ Reported(issues'[i].recurrenceOf)
        /\ issues[issues'[i].recurrenceOf].reportedAt < issues'[i].reportedAt
IssueStep(i) ==
    /\ HistoryOf(i)' /\ EventsAreSound(i)' /\ Grows(i) /\ RowStaysReported(i)
    /\ Reported(i)' => issues'[i].version # 0 /\ OfGuestReport(i)' /\ LinksToEarlier(i)

\* Steps that are sound for each issue are sound, if they answer only what was done.
LEMMA StepKeeps ==
    ASSUME IInv, IssuesTypeOK', \A i \in IssueIds : IssueStep(i),
           \A a \in acks' : a \in acks \/ (a.version \in 1 .. Len(events'[a.issue]) /\ events'[a.issue][a.version].req = a.req)
    PROVE  IInv'
<1>1. \A i \in IssueIds : HistoryOf(i)' /\ EventsAreSound(i)'
    BY DEF IssueStep
<1>2. ASSUME NEW i \in IssueIds, Reported(i)'
      PROVE  issues'[i].version # 0 /\ OfGuestReport(i)' /\ LinkGoesBack(i)'
    <2>1. issues'[i].version # 0 /\ OfGuestReport(i)' /\ LinksToEarlier(i)
        BY <1>2 DEF IssueStep
    <2>2. \A j \in IssueIds : RowStaysReported(j)
        BY DEF IssueStep
    <2> QED BY <2>1, <2>2 DEF LinksToEarlier, LinkGoesBack, RowStaysReported
<1>3. \A i \in IssueIds : RowIsSound(i)'
    BY <1>2 DEF RowIsSound
<1>4. RepliesAreTrue'
    <2>1. \A a \in acks : a.issue \in IssueIds /\ a.version \in 1 .. Len(events[a.issue]) /\ events[a.issue][a.version].req = a.req
        BY DEF IInv, IssuesTypeOK, RepliesAreTrue
    <2>2. \A a \in acks : a.version \in 1 .. Len(events'[a.issue]) /\ events'[a.issue][a.version].req = a.req
        BY <2>1 DEF IssueStep, Grows
    <2> QED BY <2>2 DEF RepliesAreTrue
<1> QED BY <1>1, <1>3, <1>4 DEF IInv

LEMMA SameIssue ==
    ASSUME IInv, NEW i \in IssueIds, issues'[i] = issues[i], events'[i] = events[i]
    PROVE  IssueStep(i)
<1>1. Reported(i)' <=> Reported(i)
    BY DEF Reported
<1>2. HistoryOf(i)'
    BY DEF IInv, HistoryOf, Reported, Readable, Current
<1>3. EventsAreSound(i)'
    <2>1. EventsAreSound(i)
        BY DEF IInv
    <2> QED BY <2>1 DEF EventsAreSound, EventIsSound
<1>4. Reported(i) => issues[i].version # 0 /\ OfGuestReport(i) /\ LinkGoesBack(i)
    BY DEF IInv, RowIsSound
<1>5. Reported(i) => issues[i].recurrenceOf \in IssueIds \cup {None}
    BY DEF IInv, IssuesTypeOK, Reported, Issue
<1>6. Reported(i)' => issues'[i].version # 0 /\ OfGuestReport(i)' /\ LinksToEarlier(i)
    BY <1>1, <1>4, <1>5 DEF OfGuestReport, Report, LinkGoesBack, LinksToEarlier
<1>7. Grows(i)
    BY DEF Grows
<1>8. RowStaysReported(i)
    BY <1>1 DEF RowStaysReported
<1> QED BY <1>2, <1>3, <1>6, <1>7, <1>8 DEF IssueStep

\* A step that changes no issue, but may add a true answer.
LEMMA AnswerKeeps ==
    ASSUME IInv, UNCHANGED <<issues, events>>, categories' \in [Categories -> Category \cup {None}],
           \/ UNCHANGED acks
           \/ \E i \in IssueIds, req \in IssueRequest :
                 /\ acks' = acks \cup {Ack(i, req)}
                 /\ req.expected + 1 \in 1 .. Len(events[i])
                 /\ events[i][req.expected + 1].req = req
    PROVE  IInv'
<1>1. \A i \in IssueIds : IssueStep(i)
    BY SameIssue
<1>2. \A i \in IssueIds, req \in IssueRequest : Ack(i, req) \in [issue: IssueIds, version: Nat, req: IssueRequest]
    <2>1. \A req \in IssueRequest : req.expected + 1 \in Nat
        BY DEF IssueRequest
    <2> QED BY <2>1 DEF Ack
<1>3. IssuesTypeOK'
    BY <1>2 DEF IInv, IssuesTypeOK
<1>4. \A a \in acks' : a \in acks \/ (a.version \in 1 .. Len(events'[a.issue]) /\ events'[a.issue][a.version].req = a.req)
    BY DEF Ack
<1> QED BY <1>1, <1>3, <1>4, StepKeeps

\* What an event for the next version of i must be like.
NextEvent(i, e) ==
    /\ e.snapshot.version = issues[i].version + 1 /\ e.from = issues[i].status /\ e.to = e.snapshot.status
    /\ e.snapshot.reportedAt = issues[i].reportedAt
    /\ e.req.by # None => e.req.expected = issues[i].version
    /\ e.type \notin {"REPORTED", "REPAIR_REPORTED"} /\ (e.revision # 0 => i \in ChecklistIds)
    /\ RowParses(i, e.snapshot)
    /\ e.snapshot.recurrenceOf # None =>
          /\ e.snapshot.recurrenceOf \in IssueIds /\ Reported(e.snapshot.recurrenceOf)
          /\ issues[e.snapshot.recurrenceOf].reportedAt < issues[i].reportedAt

LEMMA AppendedEvent ==
    ASSUME IInv, NEW i \in IssueIds, NEW e \in Event, Readable(i), NextEvent(i, e),
           issues'[i] = e.snapshot, events'[i] = Append(events[i], e)
    PROVE  /\ IssueStep(i) /\ events'[i] \in Seq(Event)
           /\ Len(events'[i]) = Len(events[i]) + 1 /\ events'[i][Len(events[i]) + 1] = e
<1> DEFINE n == Len(events[i])
           old == events[i]
           row == e.snapshot
<1>1. /\ old \in Seq(Event) /\ n \in Nat /\ issues[i] \in Issue /\ n = issues[i].version
      /\ old[n].snapshot = issues[i] /\ n # 0 /\ HistoryOf(i) /\ EventsAreSound(i) /\ OfGuestReport(i)
    BY DEF IInv, IssuesTypeOK, Readable, Reported, Current, Last, RowIsSound
<1>2. /\ Append(old, e) \in Seq(Event) /\ Len(Append(old, e)) = n + 1
      /\ \A v \in 1 .. n : Append(old, e)[v] = old[v]
      /\ Append(old, e)[n + 1] = e
    BY <1>1, AppendProperties
<1>3. /\ events'[i] \in Seq(Event) /\ Len(events'[i]) = n + 1 /\ events'[i][n + 1] = e
      /\ \A v \in 1 .. n : events'[i][v] = old[v]
    BY <1>2
<1>4. row \in Issue /\ row # None /\ Reported(i)'
    BY NoneIsNoIssue DEF Event, Reported
<1>5. Readable(i)'
    BY <1>1, <1>3, <1>4 DEF Readable, Current, Last, NextEvent
<1>6. old[n].to = issues[i].status
    <2>1. n \in 1 .. n
        BY <1>1
    <2> QED BY <1>1, <2>1 DEF HistoryOf
<1> HIDE DEF n, old
<1>7. ASSUME NEW v \in 1 .. n + 1
      PROVE  /\ events'[i][v].snapshot.version = v
             /\ events'[i][v].to = events'[i][v].snapshot.status
             /\ events'[i][v].from = (IF v = 1 THEN None ELSE events'[i][v - 1].to)
             /\ events'[i][v].req.by # None => events'[i][v].req.expected = v - 1
             /\ EventIsSound(i, v)'
    <2>1. CASE v \in 1 .. n
        <3>1. v # 1 => v - 1 \in 1 .. n
            BY <1>1
        <3>2. /\ old[v].snapshot.version = v
              /\ old[v].to = old[v].snapshot.status
              /\ old[v].from = (IF v = 1 THEN None ELSE old[v - 1].to)
              /\ old[v].req.by # None => old[v].req.expected = v - 1
            BY <1>1, <2>1 DEF HistoryOf, old, n
        <3>3. events'[i][v] = old[v] /\ (v # 1 => events'[i][v - 1] = old[v - 1])
            BY <1>3, <2>1, <3>1
        <3>4. EventIsSound(i, v)
            BY <1>1, <2>1 DEF EventsAreSound, n
        <3>5. EventIsSound(i, v)'
            BY <3>3, <3>4 DEF EventIsSound, RowParses, old
        <3> QED BY <3>2, <3>3, <3>5
    <2>2. CASE v = n + 1
        <3>1. v # 1 /\ v - 1 = n /\ n \in 1 .. n
            BY <1>1, <2>2
        <3>2. events'[i][v] = e /\ events'[i][v - 1] = old[n]
            BY <1>3, <2>2, <3>1
        <3>3. EventIsSound(i, v)'
            BY <3>1, <3>2 DEF EventIsSound, RowParses, NextEvent
        <3>4. e.snapshot.version = v /\ e.to = e.snapshot.status /\ (e.req.by # None => e.req.expected = v - 1)
            BY <1>1, <2>2, <3>1 DEF NextEvent
        <3>5. events'[i][v].from = (IF v = 1 THEN None ELSE events'[i][v - 1].to)
            BY <1>6, <3>1, <3>2 DEF NextEvent
        <3> QED BY <3>2, <3>3, <3>4, <3>5
    <2>3. v \in 1 .. n \/ v = n + 1
        BY <1>1
    <2> QED BY <2>1, <2>2, <2>3
<1>8. HistoryOf(i)' /\ EventsAreSound(i)'
    BY <1>3, <1>4, <1>5, <1>7 DEF HistoryOf, EventsAreSound
<1>9. Grows(i) /\ RowStaysReported(i)
    BY <1>1, <1>3, <1>4 DEF Grows, RowStaysReported, NextEvent, n, old
<1>10. issues'[i].version # 0
    BY <1>1 DEF NextEvent
<1>11. OfGuestReport(i)'
    <2>1. events'[i][1] = old[1]
        BY <1>1, <1>3
    <2> QED BY <1>1, <2>1 DEF OfGuestReport, Report, old
<1>12. LinksToEarlier(i)
    BY DEF LinksToEarlier, NextEvent
<1> QED BY <1>3, <1>8, <1>9, <1>10, <1>11, <1>12 DEF IssueStep, n

\* The first events of an issue: a report, and what was reported with it.
LEMMA FirstEvents ==
    ASSUME IInv, NEW i \in IssueIds, ~Reported(i), NEW row \in Issue, NEW history \in Seq(Event),
           issues'[i] = row, events'[i] = history,
           Len(history) = row.version, row.version # 0, history[row.version].snapshot = row, row.recurrenceOf = None,
           \A v \in 1 .. Len(history) :
              LET e == history[v]
              IN /\ e.snapshot.version = v /\ e.to = e.snapshot.status
                 /\ e.from = (IF v = 1 THEN None ELSE history[v - 1].to)
                 /\ e.req.by = None /\ RowParses(i, e.snapshot)
                 /\ e.type = "REPORTED" <=> v = 1
                 /\ v = 1 => e.to = "NEW"
                 /\ e.revision # 0 <=> i \in ChecklistIds,
           i \in GuestKeys => history[1].req = Report(history[1].req.says)
    PROVE  IssueStep(i)
<1>1. row # None /\ Reported(i)' /\ row.version \in Nat
    BY NoneIsNoIssue DEF Reported, Issue
<1>2. Readable(i)'
    BY <1>1 DEF Readable, Current, Last
<1>3. HistoryOf(i)' /\ EventsAreSound(i)'
    BY <1>1, <1>2 DEF HistoryOf, EventsAreSound, EventIsSound, RowParses
<1>4. Grows(i) /\ RowStaysReported(i)
    <2>1. events[i] = <<>>
        BY DEF IInv, HistoryOf
    <2> QED BY <2>1 DEF Grows, RowStaysReported
<1>5. OfGuestReport(i)' /\ LinksToEarlier(i)
    BY DEF OfGuestReport, Report, LinksToEarlier
<1> QED BY <1>1, <1>3, <1>4, <1>5 DEF IssueStep

\* A step that appends an event for the next version of i.
LEMMA RecordKeeps ==
    ASSUME IInv, NEW i \in IssueIds, NEW type \in EventTypes, NEW req \in IssueRequest, NEW row \in Issue,
           UpToDate(i, req), row.version = issues[i].version + 1, row.reportedAt = issues[i].reportedAt,
           type \notin {"REPORTED", "REPAIR_REPORTED"}, RowParses(i, row),
           \/ row.recurrenceOf \in {None, issues[i].recurrenceOf}
           \/ Reported(row.recurrenceOf) /\ issues[row.recurrenceOf].reportedAt < issues[i].reportedAt,
           Record(i, type, req, row, row), UNCHANGED categories,
           acks' \in {acks, acks \cup {Ack(i, req)}}
    PROVE  IInv'
<1> DEFINE e == UpdateEvent(i, type, 0, req, row)
           n == Len(events[i])
<1>1. /\ issues \in [IssueIds -> Issue \cup {None}] /\ events \in [IssueIds -> Seq(Event)]
      /\ events[i] \in Seq(Event) /\ n \in Nat
    BY DEF IInv, IssuesTypeOK
<1>2. /\ issues[i] \in Issue /\ n = issues[i].version /\ Readable(i) /\ Reported(i)
      /\ req.expected = n /\ n # 0
    BY <1>1 DEF UpToDate, Readable, Current, Last, Reported, IInv, RowIsSound
<1>3. e \in Event
    <2>1. issues[i].status \in Statuses /\ row.status \in Statuses
        BY <1>2 DEF Issue
    <2>2. e = [type |-> type, from |-> issues[i].status, to |-> row.status, revision |-> 0, req |-> req, snapshot |-> row]
        BY DEF UpdateEvent
    <2> QED BY <2>1, <2>2 DEF Event
<1>4. /\ e.snapshot = row /\ e.to = row.status /\ e.from = issues[i].status /\ e.req = req
      /\ e.type = type /\ e.revision = 0
    BY DEF UpdateEvent
<1>5. issues' = [issues EXCEPT ![i] = row] /\ events' = [events EXCEPT ![i] = Append(events[i], e)]
    BY <1>1 DEF Record
<1> HIDE DEF e
<1>6. issues'[i] = row /\ events'[i] = Append(events[i], e)
    BY <1>1, <1>5
<1>7. NextEvent(i, e)
    <2>1. row.recurrenceOf # None => /\ Reported(row.recurrenceOf) /\ row.recurrenceOf \in IssueIds
                                     /\ issues[row.recurrenceOf].reportedAt < issues[i].reportedAt
        BY <1>2 DEF IInv, RowIsSound, LinkGoesBack, Issue
    <2> QED BY <1>2, <1>4, <2>1 DEF NextEvent
<1>8. /\ IssueStep(i) /\ events'[i] \in Seq(Event)
      /\ Len(events'[i]) = n + 1 /\ events'[i][n + 1] = e
    BY <1>2, <1>3, <1>4, <1>6, <1>7, AppendedEvent
<1>9. \A j \in IssueIds \ {i} : IssueStep(j)
    BY <1>1, <1>5, SameIssue
<1>10. IssuesTypeOK'
    <2>1. Ack(i, req) \in [issue: IssueIds, version: Nat, req: IssueRequest]
        BY <1>1, <1>2 DEF Ack
    <2>2. issues' \in [IssueIds -> Issue \cup {None}]
        BY <1>1, <1>5
    <2>3. events' \in [IssueIds -> Seq(Event)]
        BY <1>1, <1>5, <1>6, <1>8
    <2> QED BY <2>1, <2>2, <2>3 DEF IInv, IssuesTypeOK
<1>11. n + 1 \in 1 .. Len(events'[i])
    BY <1>1, <1>8
<1>12. /\ Ack(i, req).issue = i /\ Ack(i, req).version = n + 1 /\ Ack(i, req).req = req
    BY <1>2 DEF Ack
<1>13. \A a \in acks' : a \in acks \/ (a.version \in 1 .. Len(events'[a.issue]) /\ events'[a.issue][a.version].req = a.req)
    BY <1>4, <1>8, <1>11, <1>12
<1> QED BY <1>8, <1>9, <1>10, <1>13, StepKeeps

--------------------------------------------------------------------------------
\* What administrators write is a row of the next version, reported when it was.
IsNext(row, r) ==
    /\ row \in Issue /\ row.version = r.version + 1 /\ row.reportedAt = r.reportedAt
    /\ row.status = "RESOLVED" <=> row.resolver # None

LEMMA NextRows ==
    ASSUME NEW r \in Issue, NEW to \in Statuses, NEW a \in Admins, NEW on \in BOOLEAN, NEW target \in IssueIds \cup {None},
           r.status = "RESOLVED" <=> r.resolver # None
    PROVE  /\ IsNext(NextVersion(r), r) /\ NextVersion(r).recurrenceOf = r.recurrenceOf
           /\ IsNext(WithStatus(r, to, a), r) /\ WithStatus(r, to, a).recurrenceOf = r.recurrenceOf
           /\ IsNext(Toggled(r), r) /\ Toggled(r).recurrenceOf = r.recurrenceOf
           /\ IsNext(Linked(r, target), r) /\ Linked(r, target).recurrenceOf = target
           /\ IsNext(Cancelled(r, on), r) /\ Cancelled(r, on).recurrenceOf = r.recurrenceOf
<1>1. r.version + 1 \in Nat /\ r.urgent \in BOOLEAN
    BY DEF Issue
<1>2. IsNext(NextVersion(r), r) /\ NextVersion(r).recurrenceOf = r.recurrenceOf
    BY <1>1 DEF IsNext, NextVersion, Issue
<1>3. IsNext(WithStatus(r, to, a), r) /\ WithStatus(r, to, a).recurrenceOf = r.recurrenceOf
    BY <1>2, NoneIsNoIssue DEF IsNext, WithStatus, Issue
<1>4. IsNext(Toggled(r), r) /\ Toggled(r).recurrenceOf = r.recurrenceOf
    BY <1>2 DEF IsNext, Toggled, Issue
<1>5. IsNext(Linked(r, target), r) /\ Linked(r, target).recurrenceOf = target
    BY <1>2 DEF IsNext, Linked, Issue
<1>6. IsNext(Cancelled(r, on), r) /\ Cancelled(r, on).recurrenceOf = r.recurrenceOf
    BY <1>2 DEF IsNext, Cancelled, Issue
<1> QED BY <1>2, <1>3, <1>4, <1>5, <1>6

LEMMA CurrentParses ==
    ASSUME IInv, NEW i \in IssueIds, Readable(i)
    PROVE  RowParses(i, issues[i])
<1>1. /\ issues[i] \in Issue /\ Current(i) = issues[i] /\ issues[i].version # 0
      /\ Len(events[i]) = issues[i].version
    BY DEF Readable, Reported, IInv, IssuesTypeOK, RowIsSound
<1>2. Len(events[i]) \in 1 .. Len(events[i])
    BY <1>1 DEF Issue
<1>3. EventIsSound(i, Len(events[i]))
    BY <1>2 DEF IInv, EventsAreSound
<1> QED BY <1>1, <1>3 DEF EventIsSound, Current, Last

LEMMA AdminKeeps ==
    ASSUME IInv, NEW i \in IssueIds, NEW a \in Admins, NEW e \in 1 .. MaxVersion, AdminStep(i, a, e)
    PROVE  IInv'
<1>1. \A kind \in {"NOTE", "STATUS", "URGENCY", "RECURRENCE"} : Request(kind, a, e) \in IssueRequest
    BY IssueBoundsAreNat DEF Request, IssueRequest
<1>2. ASSUME NEW req, UpToDate(i, req) PROVE issues[i] \in Issue /\ Current(i) = issues[i] /\ RowParses(i, issues[i])
    <2>1. issues[i] \in Issue /\ Current(i) = issues[i] /\ Readable(i) /\ Reported(i)
        BY <1>2 DEF UpToDate, Readable, Reported, IInv, IssuesTypeOK
    <2> QED BY <2>1, CurrentParses
<1>3. CASE AddNote(i, Request("NOTE", a, e))
    <2> DEFINE req == Request("NOTE", a, e)
    <2>1. UpToDate(i, req) /\ issues[i] \in Issue /\ Current(i) = issues[i] /\ RowParses(i, issues[i])
        BY <1>2, <1>3 DEF AddNote, Mutable
    <2>2. Record(i, "UPDATED", req, NextVersion(issues[i]), NextVersion(issues[i])) /\ UNCHANGED <<categories, acks>>
        BY <1>3, <2>1 DEF AddNote
    <2>3. IsNext(NextVersion(issues[i]), issues[i]) /\ NextVersion(issues[i]).recurrenceOf = issues[i].recurrenceOf
        BY <2>1, NextRows DEF Statuses, RowParses
    <2> QED BY <1>1, <2>1, <2>2, <2>3, RecordKeeps DEF IsNext, EventTypes, RowParses
<1>4. ASSUME NEW to \in Statuses, ChangeStatus(i, Request("STATUS", a, e), to)
      PROVE  IInv'
    <2> DEFINE req == Request("STATUS", a, e)
               row == WithStatus(issues[i], to, a)
               type == StatusEvent(issues[i].status, to)
    <2>1. UpToDate(i, req) /\ issues[i] \in Issue /\ Current(i) = issues[i] /\ RowParses(i, issues[i])
        BY <1>2, <1>4 DEF ChangeStatus, Mutable
    <2>2. Record(i, type, req, row, row) /\ UNCHANGED <<categories, acks>> /\ type # None
        BY <1>4, <2>1 DEF ChangeStatus, Request
    <2>3. type \in EventTypes /\ type \notin {"REPORTED", "REPAIR_REPORTED"}
        BY <2>2 DEF StatusEvent, EventTypes
    <2>4. IsNext(row, issues[i]) /\ row.recurrenceOf = issues[i].recurrenceOf
        BY <2>1, NextRows DEF RowParses
    <2> HIDE DEF type, row
    <2> QED BY <1>1, <2>1, <2>2, <2>3, <2>4, RecordKeeps DEF IsNext, RowParses
<1>5. CASE ChangeUrgency(i, Request("URGENCY", a, e))
    <2> DEFINE req == Request("URGENCY", a, e)
    <2>1. UpToDate(i, req) /\ issues[i] \in Issue /\ Current(i) = issues[i] /\ RowParses(i, issues[i])
        BY <1>2, <1>5 DEF ChangeUrgency, Mutable
    <2>2. Record(i, "UPDATED", req, Toggled(issues[i]), Toggled(issues[i])) /\ UNCHANGED <<categories, acks>>
        BY <1>5, <2>1 DEF ChangeUrgency
    <2>3. IsNext(Toggled(issues[i]), issues[i]) /\ Toggled(issues[i]).recurrenceOf = issues[i].recurrenceOf
        BY <2>1, NextRows DEF Statuses, RowParses
    <2> QED BY <1>1, <2>1, <2>2, <2>3, RecordKeeps DEF IsNext, EventTypes, RowParses
<1>6. ASSUME NEW target \in IssueIds \cup {None}, ChangeRecurrence(i, Request("RECURRENCE", a, e), target)
      PROVE  IInv'
    <2> DEFINE req == Request("RECURRENCE", a, e)
               row == Linked(issues[i], target)
    <2>1. UpToDate(i, req) /\ issues[i] \in Issue /\ Current(i) = issues[i] /\ RowParses(i, issues[i])
        BY <1>2, <1>6 DEF ChangeRecurrence, Mutable
    <2>2. Record(i, "UPDATED", req, row, row) /\ UNCHANGED <<categories, acks>>
        BY <1>6, <2>1 DEF ChangeRecurrence
    <2>3. IsNext(row, issues[i]) /\ row.recurrenceOf = target
        BY <2>1, NextRows DEF Statuses, RowParses
    <2>4. target # None => Reported(target) /\ target # i /\ issues[target].reportedAt < issues[i].reportedAt
        <3> SUFFICES ASSUME target # None
                     PROVE  Reported(target) /\ target # i /\ issues[target].reportedAt < issues[i].reportedAt
            OBVIOUS
        <3>1. PICK chain \in Walks(target) :
                 \A d \in 0 .. MaxDepth : chain[d] # None =>
                    chain[d] # i /\ issues[chain[d]].reportedAt < issues[IF d = 0 THEN i ELSE chain[d - 1]].reportedAt
            BY <1>6 DEF ChangeRecurrence, RecurrenceAllowed
        <3>2. chain[0] = target /\ 0 \in 0 .. MaxDepth
            BY IssueBoundsAreNat DEF Walks, IsWalk
        <3> QED BY <1>6, <3>1, <3>2 DEF ChangeRecurrence, RecurrenceAllowed
    <2>5. RowParses(i, row)
        BY <2>3, <2>4, NoneIsNoIssue DEF IsNext, RowParses
    <2> HIDE DEF row
    <2> QED BY <1>1, <2>1, <2>2, <2>3, <2>4, <2>5, RecordKeeps DEF IsNext, EventTypes
<1>7. ASSUME NEW req \in IssueRequest, ChangeCancellation(i, req)
      PROVE  IInv'
    <2> DEFINE row == Cancelled(issues[i], req.kind = "CANCELLED")
    <2>1. UpToDate(i, req) /\ issues[i] \in Issue /\ Current(i) = issues[i] /\ RowParses(i, issues[i])
        BY <1>2, <1>7 DEF ChangeCancellation
    <2>2. /\ Record(i, req.kind, req, row, row) /\ UNCHANGED categories /\ acks' = acks \cup {Ack(i, req)}
          /\ req.kind \in EventTypes /\ req.kind \notin {"REPORTED", "REPAIR_REPORTED"}
        BY <1>7, <2>1 DEF ChangeCancellation, EventTypes
    <2>3. IsNext(row, issues[i]) /\ row.recurrenceOf = issues[i].recurrenceOf
        BY <2>1, NextRows DEF Statuses, RowParses
    <2> HIDE DEF row
    <2> QED BY <2>1, <2>2, <2>3, RecordKeeps DEF IsNext, RowParses
<1>8. ASSUME NEW req \in IssueRequest, RepeatCancellation(i, req)
      PROVE  IInv'
    <2>1. req.expected + 1 \in 1 .. Len(events[i]) /\ events[i][req.expected + 1].req = req
        BY <1>8 DEF RepeatCancellation, Readable, IssueRequest, Reported, IInv, IssuesTypeOK, Issue
    <2>2. acks' = acks \cup {Ack(i, req)} /\ UNCHANGED <<issues, events, categories>>
        BY <1>8 DEF RepeatCancellation
    <2> QED BY <2>1, <2>2, AnswerKeeps DEF IInv, IssuesTypeOK
<1>9. \A kind \in {"CANCELLED", "RESTORED"}, why \in Reasons :
         [kind |-> kind, by |-> a, expected |-> e, says |-> why] \in IssueRequest
    BY IssueBoundsAreNat DEF IssueRequest
<1> QED BY <1>3, <1>4, <1>5, <1>6, <1>7, <1>8, <1>9 DEF AdminStep

LEMMA GuestKeeps ==
    ASSUME IInv, NEW k \in GuestKeys, NEW content \in Contents, GuestStep(k, content)
    PROVE  IInv'
<1>1. k \in IssueIds /\ Report(content) \in IssueRequest /\ Report(content).expected = 0
    BY DEF IssueIds, Report, IssueRequest
<1>2. ASSUME NEW at \in 0 .. MaxTime, ReportIssue(k, content, at)
      PROVE  IInv'
    <2> DEFINE row == NewIssue(content.text, content.urgent, at)
               e == ReportEvent(row, 0, Report(content))
    <2>1. row \in Issue /\ row # None /\ row.version = 1 /\ row.recurrenceOf = None /\ row.status = "NEW"
        <3>1. at \in Nat /\ content.text \in Texts /\ content.urgent \in BOOLEAN
            BY IssueBoundsAreNat DEF Contents
        <3>2. row \in Issue
            BY <3>1 DEF NewIssue, Issue, Statuses
        <3> QED BY <3>2, NoneIsNoIssue DEF NewIssue
    <2> HIDE DEF row
    <2>2. e \in Event
        BY <1>1, <2>1 DEF ReportEvent, Event, EventTypes, Statuses
    <2>3. e.snapshot = row /\ e.to = "NEW" /\ e.from = None /\ e.req = Report(content)
        BY DEF ReportEvent
    <2>4. /\ issues' = [issues EXCEPT ![k] = row] /\ events' = [events EXCEPT ![k] = <<e>>]
          /\ acks' = acks \cup {Ack(k, Report(content))} /\ UNCHANGED categories /\ ~Reported(k)
        BY <1>2 DEF ReportIssue, row
    <2> HIDE DEF e
    <2>5. /\ issues \in [IssueIds -> Issue \cup {None}] /\ events \in [IssueIds -> Seq(Event)]
        BY DEF IInv, IssuesTypeOK
    <2>6. issues'[k] = row /\ events'[k] = <<e>> /\ Reported(k)'
        BY <1>1, <2>1, <2>4, <2>5 DEF Reported
    <2>7. \A j \in IssueIds \ {k} : issues'[j] = issues[j] /\ events'[j] = events[j]
        BY <2>4, <2>5
    <2>8. \A j \in IssueIds : Reported(j) => Reported(j)' /\ issues'[j] = issues[j] /\ j # k
        BY <2>4, <2>7 DEF Reported
    <2>9. IssuesTypeOK'
        <3>1. Ack(k, Report(content)) \in [issue: IssueIds, version: Nat, req: IssueRequest]
            BY <1>1 DEF Ack
        <3>2. <<e>> \in Seq(Event)
            BY <2>2
        <3> QED BY <2>1, <2>4, <2>5, <3>1, <3>2 DEF IInv, IssuesTypeOK
    <2>10. IssueStep(k)
        <3>1. Len(<<e>>) = 1 /\ <<e>>[1] = e /\ <<e>> \in Seq(Event) /\ \A v \in 1 .. Len(<<e>>) : v = 1
            BY <2>2
        <3>2. e.req.by = None /\ e.type = "REPORTED" /\ e.revision = 0
            BY DEF e, ReportEvent, Report
        <3>3. RowParses(k, row) /\ k \notin ChecklistIds
            BY NoneIsNoIssue, KeysAreApart DEF row, NewIssue, RowParses, IssueIds
        <3>4. e.req = Report(e.req.says)
            BY <2>3 DEF Report
        <3> DEFINE history == <<e>>
        <3>5. /\ history \in Seq(Event) /\ Len(history) = row.version /\ row.version # 0
              /\ history[row.version].snapshot = row /\ history[1] = e /\ events'[k] = history
            BY <2>1, <2>3, <2>6, <3>1
        <3>6. \A v \in 1 .. Len(history) : v = 1
            BY <3>1
        <3> HIDE DEF history
        <3>7. \A v \in 1 .. Len(history) :
                 LET x == history[v]
                 IN /\ x.snapshot.version = v /\ x.to = x.snapshot.status
                    /\ x.from = (IF v = 1 THEN None ELSE history[v - 1].to)
                    /\ x.req.by = None /\ RowParses(k, x.snapshot)
                    /\ x.type = "REPORTED" <=> v = 1
                    /\ v = 1 => x.to = "NEW"
                    /\ x.revision # 0 <=> k \in ChecklistIds
            BY <2>1, <2>3, <3>2, <3>3, <3>5, <3>6
        <3> QED BY <1>1, <2>1, <2>4, <2>6, <3>4, <3>5, <3>7, FirstEvents
    <2>11. \A j \in IssueIds \ {k} : IssueStep(j)
        BY <2>7, SameIssue
    <2>12. \A a \in acks' : a \in acks \/ (a.version \in 1 .. Len(events'[a.issue]) /\ events'[a.issue][a.version].req = a.req)
        <3>1. /\ Ack(k, Report(content)).issue = k /\ Ack(k, Report(content)).version = 1
              /\ Ack(k, Report(content)).req = Report(content)
            BY <1>1 DEF Ack
        <3>2. 1 \in 1 .. Len(events'[k]) /\ events'[k][1].req = Report(content)
            BY <2>3, <2>6
        <3> QED BY <2>4, <3>1, <3>2
    <2> QED BY <2>9, <2>10, <2>11, <2>12, StepKeeps
<1>3. CASE RepeatReport(k, content)
    <2>1. /\ Reported(k) /\ events[k][1].req.says = content /\ UNCHANGED <<issues, events, categories>>
          /\ acks' = acks \cup {Ack(k, Report(content))}
        BY <1>3 DEF RepeatReport
    <2>2. events[k][1].req = Report(content)
        BY <1>1, <2>1 DEF IInv, RowIsSound, OfGuestReport
    <2>3. Report(content).expected + 1 = 1 /\ 1 \in 1 .. Len(events[k])
        <3>1. Readable(k) /\ issues[k].version # 0 /\ issues[k].version \in Nat
            BY <1>1, <2>1 DEF IInv, HistoryOf, RowIsSound, IssuesTypeOK, Reported, Issue
        <3> QED BY <1>1, <3>1 DEF Readable
    <2> QED BY <1>1, <2>1, <2>2, <2>3, AnswerKeeps DEF IInv, IssuesTypeOK
<1> QED BY <1>2, <1>3 DEF GuestStep

LEMMA CategoryKeeps ==
    ASSUME IInv, NEW c \in Categories, CategoryStep(c)
    PROVE  IInv'
<1>1. categories \in [Categories -> Category \cup {None}]
    BY DEF IInv, IssuesTypeOK
<1>2. ASSUME NEW n \in Names, CreateCategory(c, n)
      PROVE  IInv'
    <2>1. [name |-> n, active |-> TRUE, updatedAt |-> 0] \in Category
        BY DEF Category
    <2> QED BY <1>1, <1>2, <2>1, AnswerKeeps DEF CreateCategory
<1>3. ASSUME NEW n \in Names, NEW seen \in 0 .. MaxVersion, NEW on \in BOOLEAN, UpdateCategory(c, seen, n, on)
      PROVE  IInv'
    <2>1. [name |-> n, active |-> on, updatedAt |-> seen + 1] \in Category
        BY IssueBoundsAreNat DEF Category
    <2> QED BY <1>1, <1>3, <2>1, AnswerKeeps DEF UpdateCategory
<1> QED BY <1>2, <1>3 DEF CategoryStep

LEMMA SpecIInv == IssuesSpec => []IInv
<1>1. IInv /\ [IssuesNext]_issueVars => IInv'
    <2> SUFFICES ASSUME IInv, [IssuesNext]_issueVars PROVE IInv'
        OBVIOUS
    <2>1. CASE UNCHANGED issueVars
        BY <2>1, AnswerKeeps DEF issueVars, IInv, IssuesTypeOK
    <2> QED BY <2>1, AdminKeeps, GuestKeeps, CategoryKeeps DEF IssuesNext
<1> QED BY InitIInv, <1>1, PTL DEF IssuesSpec

--------------------------------------------------------------------------------
\* The tables have the types that the module declares.
THEOREM IssueTypesAreCorrect == IssuesSpec => []IssuesTypeOK
<1>1. IInv => IssuesTypeOK
    BY DEF IInv
<1> QED BY SpecIInv, <1>1, PTL

\* The events of an issue are its versions, one by one, and the last one shows the row, for any
\* number of issues and administrators (admin-issues.service.ts:281).
THEOREM HistoriesMatch == IssuesSpec => []HistoryMatches
<1>1. IInv => HistoryMatches
    BY DEF IInv, HistoryMatches, HistoryOf
<1> QED BY SpecIInv, <1>1, PTL

\* An answer of success is true of the history, however often and late a request was repeated
\* (guest-issues.service.ts:222, admin-issue-cancellation.service.ts:172).
THEOREM AnswersAreTrue == IssuesSpec => []RepliesAreTrue
<1>1. IInv => RepliesAreTrue
    BY DEF IInv
<1> QED BY SpecIInv, <1>1, PTL

--------------------------------------------------------------------------------
\* Every set of naturals that is not empty has a least member.
LEMMA LeastNat ==
    ASSUME NEW T \in SUBSET Nat, T # {}
    PROVE  \E m \in T : \A n \in T : m <= n
<1>1. IsWellFoundedOn({ss \in Nat \X Nat : ss[1] < ss[2]}, Nat)
    BY NatLessThanWellFounded DEF OpToRel
<1>2. PICK m \in T : \A n \in T : <<n, m>> \notin {ss \in Nat \X Nat : ss[1] < ss[2]}
    BY <1>1, WFMin
<1>3. \A n \in T : ~(n < m)
    BY <1>2
<1> QED BY <1>3

\* What the invariant says of reported issues and their links.
LEMMA LinksAreReported ==
    ASSUME IInv, NEW i \in IssueIds, Reported(i)
    PROVE  /\ issues[i].reportedAt \in Nat /\ issues[i].recurrenceOf \in IssueIds \cup {None}
           /\ LinkGoesBack(i)
BY DEF IInv, IssuesTypeOK, RowIsSound, Reported, Issue

LEMMA NoCircle == IInv => NoRecurrenceCycle
<1>1. ASSUME IInv, NEW C \in SUBSET IssueIds, C # {}
      PROVE  \E i \in C : Reported(i) => issues[i].recurrenceOf \notin C
    <2>1. CASE \E i \in C : ~Reported(i)
        BY <2>1
    <2>2. CASE \A i \in C : Reported(i)
        <3> DEFINE T == {issues[i].reportedAt : i \in C}
        <3>1. T \in SUBSET Nat /\ T # {}
            BY <1>1, <2>2, LinksAreReported
        <3>2. PICK m \in T : \A n \in T : m <= n
            BY <3>1, LeastNat
        <3>3. PICK i \in C : issues[i].reportedAt = m
            BY <3>2
        <3>4. ASSUME issues[i].recurrenceOf \in C PROVE FALSE
            <4>1. issues[i].recurrenceOf # None
                BY <1>1, <3>4, NoneIsNoIssue
            <4>2. issues[issues[i].recurrenceOf].reportedAt < m
                BY <1>1, <2>2, <3>3, <4>1, LinksAreReported DEF LinkGoesBack
            <4>3. issues[issues[i].recurrenceOf].reportedAt \in T
                BY <3>4
            <4>4. m \in Nat /\ issues[issues[i].recurrenceOf].reportedAt \in Nat
                BY <3>1, <3>2, <4>3
            <4>5. m <= issues[issues[i].recurrenceOf].reportedAt
                BY <3>2, <4>3
            <4> HIDE DEF T
            <4> QED BY <4>2, <4>4, <4>5
        <3> QED BY <3>4
    <2> QED BY <2>1, <2>2
<1> QED BY <1>1 DEF NoRecurrenceCycle

\* Links to earlier occurrences never close a circle, however long it would be and whatever the
\* depth to which a link is checked (admin-issue-recurrence.ts:26).
THEOREM LinksHaveNoCircle == IssuesSpec => []NoRecurrenceCycle
<1> QED BY SpecIInv, NoCircle, PTL

\* From a reported issue there is a walk of any length: it ends in None if the links end.
LEMMA WalkExists ==
    ASSUME IInv, NEW target \in IssueIds, Reported(target)
    PROVE  \E chain \in [0 .. MaxDepth -> IssueIds \cup {None}] : IsWalk(chain, target)
<1> DEFINE Known == {j \in IssueIds : Reported(j)} \cup {None}
           Parent(x) == IF x = None THEN None ELSE issues[x].recurrenceOf
           Goes(f, n) == f \in [0 .. n -> Known] /\ f[0] = target /\ \A d \in 1 .. n : f[d] = Parent(f[d - 1])
           Bad == {n \in Nat : ~\E f : Goes(f, n)}
<1>1. \A x \in Known : Parent(x) \in Known
    BY LinksAreReported DEF LinkGoesBack
<1>2. Bad = {}
    <2> SUFFICES ASSUME Bad # {} PROVE FALSE
        OBVIOUS
    <2>1. PICK m \in Bad : \A n \in Bad : m <= n
        <3>1. Bad \in SUBSET Nat
            OBVIOUS
        <3> QED BY <3>1, LeastNat
    <2>2. m # 0
        <3> SUFFICES ASSUME m = 0 PROVE FALSE
            OBVIOUS
        <3> DEFINE h == [d \in 0 .. m |-> target]
        <3>1. h \in [0 .. m -> Known]
            OBVIOUS
        <3>2. h[0] = target
            OBVIOUS
        <3>3. \A d \in 1 .. m : h[d] = Parent(h[d - 1])
            <4>1. 1 .. m = {}
                OBVIOUS
            <4> QED BY <4>1
        <3>4. Goes(h, m)
            BY <3>1, <3>2, <3>3
        <3> HIDE DEF Goes, h
        <3> QED BY <2>1, <3>4
    <2>3. m - 1 \in Nat /\ m - 1 \notin Bad
        <3>1. m \in Nat
            OBVIOUS
        <3> HIDE DEF Bad
        <3> QED BY <2>1, <2>2, <3>1
    <2>4. PICK f : Goes(f, m - 1)
        BY <2>3
    <2> DEFINE g == [d \in 0 .. m |-> IF d = m THEN Parent(f[m - 1]) ELSE f[d]]
    <2> HIDE DEF Parent, Known
    <2>5. \A d \in 0 .. m : g[d] \in Known
        <3>1. f[m - 1] \in Known
            BY <2>3, <2>4
        <3>2. \A d \in 0 .. m : d # m => d \in 0 .. m - 1
            BY <2>1
        <3> QED BY <1>1, <2>4, <3>1, <3>2
    <2>6. g[0] = target
        BY <2>1, <2>2, <2>4
    <2>7. \A d \in 1 .. m : g[d] = Parent(g[d - 1])
        <3> SUFFICES ASSUME NEW d \in 1 .. m PROVE g[d] = Parent(g[d - 1])
            OBVIOUS
        <3>1. d - 1 \in 0 .. m /\ d - 1 # m /\ g[d - 1] = f[d - 1]
            BY <2>1
        <3>2. CASE d = m
            BY <2>1, <3>1, <3>2
        <3>3. CASE d # m
            <4>1. d \in 1 .. m - 1 /\ g[d] = f[d]
                BY <2>1, <3>3
            <4> QED BY <2>4, <3>1, <4>1
        <3> QED BY <3>2, <3>3
    <2>8. Goes(g, m)
        BY <2>5, <2>6, <2>7
    <2> HIDE DEF Goes, g
    <2> QED BY <2>1, <2>8
<1>3. PICK f : Goes(f, MaxDepth)
    BY <1>2, IssueBoundsAreNat
<1>4. f \in [0 .. MaxDepth -> IssueIds \cup {None}]
    BY <1>3
<1>5. IsWalk(f, target)
    BY <1>3 DEF IsWalk
<1> QED BY <1>4, <1>5

\* Along a walk, all are reported, and each before all that lead to it.
LEMMA WalksGoBack ==
    ASSUME IInv, NEW target \in IssueIds, Reported(target),
           NEW chain \in [0 .. MaxDepth -> IssueIds \cup {None}], IsWalk(chain, target)
    PROVE  \A d \in 0 .. MaxDepth, c \in 0 .. MaxDepth : c <= d /\ chain[d] # None =>
              /\ Reported(chain[d]) /\ chain[c] # None
              /\ c < d => issues[chain[d]].reportedAt < issues[chain[c]].reportedAt
<1> USE IssueBoundsAreNat
<1> DEFINE Holds(d, c) == /\ Reported(chain[d]) /\ chain[c] # None
                          /\ c < d => issues[chain[d]].reportedAt < issues[chain[c]].reportedAt
           Bad == {d \in 0 .. MaxDepth : \E c \in 0 .. d : chain[d] # None /\ ~Holds(d, c)}
<1>1. Bad = {}
    <2> SUFFICES ASSUME Bad # {} PROVE FALSE
        OBVIOUS
    <2>1. PICK m \in Bad : \A n \in Bad : m <= n
        <3>1. Bad \in SUBSET Nat
            OBVIOUS
        <3> QED BY <3>1, LeastNat
    <2>2. m \in 0 .. MaxDepth /\ chain[m] # None
        BY <2>1
    <2>3. PICK c \in 0 .. m : ~Holds(m, c)
        BY <2>1
    <2>4. CASE m = 0
        <3>1. c = 0 /\ chain[0] = target
            BY <2>4 DEF IsWalk
        <3>2. target # None
            BY NoneIsNoIssue
        <3>3. Holds(m, c)
            BY <2>4, <3>1, <3>2
        <3> QED BY <2>3, <3>3
    <2>5. CASE m # 0
        <3>1. m \in 1 .. MaxDepth /\ m - 1 \in 0 .. MaxDepth /\ m - 1 \notin Bad
            BY <2>1, <2>2, <2>5
        <3>2. chain[m - 1] # None /\ chain[m] = issues[chain[m - 1]].recurrenceOf
            BY <2>2, <3>1 DEF IsWalk
        <3>3. \A b \in 0 .. m - 1 : Holds(m - 1, b)
            BY <3>1, <3>2
        <3>4. Reported(chain[m - 1]) /\ chain[m - 1] \in IssueIds
            <4>1. m - 1 \in 0 .. m - 1
                BY <3>1
            <4> QED BY <3>1, <3>2, <3>3, <4>1
        <3>5. Reported(chain[m]) /\ issues[chain[m]].reportedAt < issues[chain[m - 1]].reportedAt
            BY <2>2, <3>2, <3>4, LinksAreReported DEF LinkGoesBack
        <3>6. chain[m] \in IssueIds /\ issues[chain[m]].reportedAt \in Nat /\ issues[chain[m - 1]].reportedAt \in Nat
            BY <2>2, <3>4, <3>5, LinksAreReported
        <3>7. CASE c = m
            BY <2>2, <2>3, <3>5, <3>7
        <3>8. CASE c # m
            <4>1. c \in 0 .. m - 1 /\ c \in 0 .. MaxDepth
                BY <2>2, <3>8
            <4>2. /\ chain[c] # None
                  /\ c < m - 1 => issues[chain[m - 1]].reportedAt < issues[chain[c]].reportedAt
                BY <3>3, <4>1
            <4>3. c = m - 1 \/ c < m - 1
                BY <3>1, <4>1
            <4>4. Reported(chain[c]) /\ chain[c] \in IssueIds
                <5>1. c \notin Bad /\ c \in 0 .. c
                    BY <2>1, <3>8, <4>1
                <5>2. Holds(c, c)
                    BY <4>1, <4>2, <5>1
                <5> QED BY <4>1, <4>2, <5>2
            <4>5. issues[chain[c]].reportedAt \in Nat
                BY <4>4, LinksAreReported
            <4>6. issues[chain[m]].reportedAt < issues[chain[c]].reportedAt
                BY <3>5, <3>6, <4>2, <4>3, <4>5
            <4> QED BY <2>3, <3>5, <4>2, <4>6
        <3> QED BY <3>7, <3>8
    <2> QED BY <2>4, <2>5
<1>2. ASSUME NEW d \in 0 .. MaxDepth, NEW c \in 0 .. MaxDepth, c <= d, chain[d] # None
      PROVE  Holds(d, c)
    BY <1>1, <1>2
<1> QED BY <1>2

LEMMA OffersHold == IInv => OfferedIsAccepted
<1>1. ASSUME IInv, NEW i \in IssueIds, Reported(i), NEW target \in Candidates(i),
             ~\E chain \in Walks(target) : chain[MaxDepth] # None
      PROVE  RecurrenceAllowed(i, target)
    <2>1. /\ target \in IssueIds /\ Reported(target) /\ ~issues[target].cancelled
          /\ issues[target].reportedAt < issues[i].reportedAt
        BY <1>1 DEF Candidates
    <2>2. PICK chain \in [0 .. MaxDepth -> IssueIds \cup {None}] : IsWalk(chain, target)
        BY <1>1, <2>1, WalkExists
    <2>3. chain \in Walks(target) /\ chain[MaxDepth] = None
        BY <1>1, <2>2 DEF Walks
    <2>4. \A d \in 0 .. MaxDepth, c \in 0 .. MaxDepth : c <= d /\ chain[d] # None =>
             /\ Reported(chain[d]) /\ chain[c] # None
             /\ c < d => issues[chain[d]].reportedAt < issues[chain[c]].reportedAt
        BY <1>1, <2>1, <2>2, WalksGoBack
    <2>5. ASSUME NEW d \in 0 .. MaxDepth, chain[d] # None
          PROVE  /\ chain[d] # i /\ \A c \in 0 .. d - 1 : chain[c] # chain[d]
                 /\ Reported(chain[d])
                 /\ issues[chain[d]].reportedAt < issues[IF d = 0 THEN i ELSE chain[d - 1]].reportedAt
        <3>1. Reported(chain[d]) /\ chain[d] \in IssueIds /\ issues[chain[d]].reportedAt \in Nat
            <4>1. d <= d
                BY IssueBoundsAreNat
            <4>2. Reported(chain[d]) /\ chain[d] \in IssueIds
                BY <2>4, <2>5, <4>1
            <4> QED BY <1>1, <4>2, LinksAreReported
        <3>2. issues[target].reportedAt \in Nat /\ issues[i].reportedAt \in Nat
            BY <1>1, <2>1, LinksAreReported
        <3>3. chain[0] = target /\ 0 \in 0 .. MaxDepth
            BY <2>2, IssueBoundsAreNat DEF IsWalk
        <3>4. 0 < d => issues[chain[d]].reportedAt < issues[target].reportedAt
            <4> SUFFICES ASSUME 0 < d PROVE issues[chain[d]].reportedAt < issues[target].reportedAt
                OBVIOUS
            <4>1. issues[chain[d]].reportedAt < issues[chain[0]].reportedAt
                BY <2>4, <2>5, <3>3
            <4> QED BY <3>3, <4>1
        <3>5. issues[chain[d]].reportedAt < issues[i].reportedAt
            <4>1. CASE d = 0
                BY <2>1, <3>3, <4>1
            <4>2. CASE 0 < d
                BY <2>1, <3>1, <3>2, <3>4, <4>2
            <4> QED BY <4>1, <4>2, IssueBoundsAreNat
        <3>6. chain[d] # i
            BY <3>1, <3>5
        <3>7. ASSUME NEW c \in 0 .. d - 1 PROVE chain[c] # chain[d]
            <4>1. c \in 0 .. MaxDepth /\ c < d /\ c <= d
                BY IssueBoundsAreNat
            <4>2. issues[chain[d]].reportedAt < issues[chain[c]].reportedAt
                BY <2>4, <2>5, <4>1
            <4> QED BY <3>1, <4>2
        <3>8. issues[chain[d]].reportedAt < issues[IF d = 0 THEN i ELSE chain[d - 1]].reportedAt
            <4>1. CASE d = 0
                BY <3>5, <4>1
            <4>2. CASE d # 0
                <5>1. d - 1 \in 0 .. MaxDepth /\ d - 1 < d /\ d - 1 <= d
                    BY <4>2, IssueBoundsAreNat
                <5>2. issues[chain[d]].reportedAt < issues[chain[d - 1]].reportedAt
                    BY <2>4, <2>5, <5>1
                <5> QED BY <4>2, <5>2
            <4> QED BY <4>1, <4>2
        <3> QED BY <3>1, <3>6, <3>7, <3>8
    <2> QED BY <2>1, <2>3, <2>5 DEF RecurrenceAllowed
<1> QED BY <1>1 DEF OfferedIsAccepted

\* Whatever the list of earlier issues offers is accepted, unless the chain behind it is too long,
\* for any depth (admin-issue-recurrence.ts:9 and :26).
THEOREM OffersAreAccepted == IssuesSpec => []OfferedIsAccepted
<1> QED BY SpecIInv, OffersHold, PTL

--------------------------------------------------------------------------------
\* Checklists.
Reply4 == [sub : Submissions, version : Nat, req : SubmissionRequest, seen : Answers]
RowsTypeOK ==
    /\ subs \in [Submissions -> Submission \cup {None}]
    /\ revisions \in [Submissions -> Seq(Revision)]
    /\ views \in [Submissions -> SUBSET View]
    /\ stays \in [Stays -> Stay]
    /\ replies \subseteq Reply4

\* Revision v of a history: it is what its request asked for, and what it keeps of earlier
\* requests names earlier revisions.
RevisionSound(history, v) ==
    LET r == history[v]
    IN /\ r.req \in r.marks /\ r.by = r.req.by
       /\ r.photos \subseteq Photos(r.answers)
       /\ v = 1 => r.marks = {r.req} /\ r.req.kind = "SUBMIT" /\ r.by = None
       /\ v > 1 => /\ r.req.expected = v - 1 /\ r.req.kind # "SUBMIT" /\ r.action = ActionOf(r.req.kind)
                   /\ r.photos \subseteq history[v - 1].photos
                   /\ r.by = None => r.marks = {r.req}
       /\ \A m \in r.marks : m = r.req \/ m.expected < v - 1 \/ (m.kind = "SUBMIT" /\ m.by = None)

\* Answers are complete from the first revision on, and guests report no repairs.
AnswersSound(s) ==
    /\ OfGuest(s) => subs[s].answers \in GuestAnswers
    /\ \A v \in 1 .. Len(revisions[s]) :
          Complete(revisions[s][v].answers) /\ (OfGuest(s) => revisions[s][v].answers \in GuestAnswers)

\* The row of a checklist, its history and what clients were shown of its draft.
RecordSound(s) ==
    /\ AnswersSound(s)
    /\ ~Started(s) => views[s] = {}
    /\ ~Started(s) \/ Is(s, "DRAFT") => revisions[s] = <<>>
    /\ Started(s) /\ ~Is(s, "DRAFT") => Intact(s)
    /\ \A v \in 1 .. Len(revisions[s]) : RevisionSound(revisions[s], v)
    /\ \A w \in views[s] :
          /\ Is(s, "DRAFT") => /\ w.at <= subs[s].updatedAt
                               /\ w.at = subs[s].updatedAt => w.answers = subs[s].answers
          /\ revisions[s] # <<>> /\ w.at = revisions[s][1].req.expected => w.answers = revisions[s][1].answers

\* Invitations are for revisions that have been; the link of a checklist is one that has been, and
\* what was chosen for a checklist without one was on the day of the checklist.
StaySound(x) ==
    /\ stays[x].revision > 0 /\ stays[x].issuedFor <= stays[x].revision
    /\ stays[x].issuedFor # 0 => stays[x].link > 0
LinkSound(s) ==
    LET match == Latest(s).match
    IN Started(s) =>
        /\ Private(s) => subs[s].stay \in Stays /\ subs[s].link <= stays[subs[s].stay].link
        /\ Is(s, "DRAFT") /\ subs[s].stay # None => Private(s)
        /\ ~Is(s, "DRAFT") =>
              /\ match = None <=> subs[s].stay = None
              /\ match # None => match.stay = subs[s].stay /\ match.revision <= stays[match.stay].revision
              /\ Private(s) /\ stays[subs[s].stay].link = subs[s].link =>
                    stays[subs[s].stay].issuedFor = match.revision
              /\ ~Private(s) /\ match # None /\ match.revision = stays[match.stay].revision =>
                    stays[match.stay].fits
Excused(s, d) == LinkedTwice(s, d) => \E r \in {s, d} : Private(r) \/ Restored(r)

SInv ==
    /\ RowsTypeOK
    /\ \A s \in Submissions : RecordSound(s)
    /\ \A x \in Stays : StaySound(x)
    /\ \A s \in Submissions : LinkSound(s)
    /\ \A s, d \in Submissions : Excused(s, d)
    /\ ConfirmedAsAsked

LEMMA InitSInv == Init => SInv
<1> SUFFICES ASSUME Init PROVE SInv
  OBVIOUS
<1>1. RowsTypeOK
  <2>1. <<>> \in Seq(Revision)
    OBVIOUS
  <2>2. [revision |-> 1, link |-> 0, issuedFor |-> 0, active |-> TRUE, fits |-> TRUE, late |-> FALSE] \in Stay
    BY DEF Stay
  <2> QED BY <2>1, <2>2 DEF Init, RowsTypeOK
<1>2. \A s \in Submissions : ~Started(s) /\ revisions[s] = <<>> /\ views[s] = {}
  BY DEF Init, Started
<1>3. \A s \in Submissions : RecordSound(s) /\ LinkSound(s)
  BY <1>2 DEF RecordSound, AnswersSound, OfGuest, LinkSound, Is
<1>4. \A x \in Stays : StaySound(x)
  BY DEF Init, StaySound
<1>5. \A s, d \in Submissions : Excused(s, d)
  BY <1>2 DEF Excused, LinkedTwice, Is
<1>6. ConfirmedAsAsked
  BY DEF Init, ConfirmedAsAsked
<1> QED BY <1>1, <1>3, <1>4, <1>5, <1>6 DEF SInv

--------------------------------------------------------------------------------
\* What is said of a checklist depends on its own rows and, of its link, on the reservation.
LEMMA SameRecord ==
    ASSUME NEW s \in Submissions, RecordSound(s),
           subs'[s] = subs[s], revisions'[s] = revisions[s], views'[s] = views[s]
    PROVE  RecordSound(s)'
<1> QED BY DEF RecordSound, AnswersSound, OfGuest, Started, Is, Intact, Latest, Last, RevisionSound

LEMMA SameLink ==
    ASSUME NEW s \in Submissions, LinkSound(s), stays' = stays,
           subs'[s] = subs[s], revisions'[s] = revisions[s]
    PROVE  LinkSound(s)'
<1> QED BY DEF LinkSound, Started, Is, Private, Latest, Last

\* Answers to requests are kept when histories only grow.
LEMMA RepliesKept ==
    ASSUME RowsTypeOK, ConfirmedAsAsked,
           \A s \in Submissions : \A v \in 1 .. Len(revisions[s]) :
                v \in 1 .. Len(revisions'[s]) /\ revisions'[s][v] = revisions[s][v],
           NEW r \in replies
    PROVE  /\ r.version \in 1 .. Len(revisions'[r.sub])
           /\ revisions'[r.sub][r.version].req = r.req
           /\ r.req.kind = "SUBMIT" => r.seen = revisions'[r.sub][1].answers
<1>1. r.sub \in Submissions /\ revisions[r.sub] \in Seq(Revision) /\ r.version \in 1 .. Len(revisions[r.sub])
  BY DEF RowsTypeOK, Reply4, ConfirmedAsAsked
<1>2. 1 \in 1 .. Len(revisions[r.sub])
  BY <1>1
<1> QED BY <1>1, <1>2 DEF ConfirmedAsAsked

\* A request that is only answered.
LEMMA AnswerStep ==
    ASSUME SInv, UNCHANGED <<subs, revisions, views, stays>>, NEW s \in Submissions, NEW v \in 1 .. Len(revisions[s]),
           NEW req \in SubmissionRequest, NEW seen \in Answers, Reply(s, v, req, seen),
           revisions[s][v].req = req, req.kind = "SUBMIT" => seen = revisions[s][1].answers
    PROVE  SInv'
<1> DEFINE new == [sub |-> s, version |-> v, req |-> req, seen |-> seen]
<1>1. RowsTypeOK /\ replies' = replies \cup {new}
  BY DEF SInv, Reply
<1>2. v \in Nat
  BY <1>1 DEF RowsTypeOK
<1>3. RowsTypeOK'
  BY <1>1, <1>2 DEF RowsTypeOK, Reply4
<1>4. ConfirmedAsAsked'
  BY <1>1 DEF SInv, ConfirmedAsAsked
<1>5. \A d \in Submissions : RecordSound(d)' /\ LinkSound(d)'
  BY SameRecord, SameLink DEF SInv
<1>6. /\ \A x \in Stays : StaySound(x)'
      /\ \A a, b \in Submissions : Excused(a, b)'
  BY DEF SInv, StaySound, Excused, LinkedTwice, Is, Started, Private, Restored
<1> QED BY <1>3, <1>4, <1>5, <1>6 DEF SInv

--------------------------------------------------------------------------------
\* Reservations: versions only grow, and an invitation that is kept is for the same revision.
StaysGrow ==
    \A x \in Stays :
        /\ stays'[x].link >= stays[x].link /\ stays'[x].revision >= stays[x].revision
        /\ stays'[x].link = stays[x].link => stays'[x].issuedFor = stays[x].issuedFor

LEMMA StayWrite ==
    ASSUME SInv, NEW x \in Stays, NEW row \in Stay, stays' = [stays EXCEPT ![x] = row],
           UNCHANGED <<subs, revisions, views, replies>>,
           row.link >= stays[x].link, row.revision >= stays[x].revision,
           row.issuedFor <= row.revision, row.issuedFor # 0 => row.link > 0,
           row.link = stays[x].link => row.issuedFor = stays[x].issuedFor,
           row.revision = stays[x].revision => row.fits = stays[x].fits
    PROVE  SInv' /\ StaysGrow
<1>1. RowsTypeOK /\ \A y \in Stays : stays[y] \in Stay /\ StaySound(y)
  BY DEF SInv, RowsTypeOK
<1>2. /\ stays'[x] = row /\ \A y \in Stays \ {x} : stays'[y] = stays[y]
      /\ stays' \in [Stays -> Stay]
  BY <1>1 DEF RowsTypeOK
<1>3. \A y \in Stays : /\ stays[y].link \in Nat /\ stays[y].revision \in Nat /\ stays[y].issuedFor \in Nat
                       /\ stays'[y].link \in Nat /\ stays'[y].revision \in Nat /\ stays'[y].issuedFor \in Nat
  BY <1>1, <1>2 DEF Stay
<1>4. StaysGrow
  BY <1>2, <1>3 DEF StaysGrow
<1>5. \A y \in Stays : StaySound(y)'
  BY <1>1, <1>2, <1>3 DEF StaySound
<1>6. ASSUME NEW s \in Submissions PROVE LinkSound(s)'
  <2> DEFINE match == Latest(s).match
             y == subs[s].stay
  <2>1. LinkSound(s)
    BY DEF SInv
  <2> SUFFICES ASSUME Started(s) PROVE LinkSound(s)'
    BY DEF LinkSound, Started
  <2>2. /\ (Private(s) <=> Private(s)') /\ (Is(s, "DRAFT") <=> Is(s, "DRAFT")') /\ match' = match
        /\ subs[s].link \in Nat
    BY <1>1 DEF Private, Is, Started, Latest, Last, RowsTypeOK, Submission
  <2>3. Private(s) => y \in Stays /\ subs[s].link <= stays[y].link /\ subs[s].link <= stays'[y].link
    BY <1>3, <1>4, <2>1, <2>2 DEF LinkSound, StaysGrow
  <2>4. Is(s, "DRAFT") /\ y # None => Private(s)
    BY <2>1 DEF LinkSound
  <2>5. CASE Is(s, "DRAFT")
    BY <2>2, <2>3, <2>4, <2>5 DEF LinkSound, Private, Is, Started
  <2>6. CASE ~Is(s, "DRAFT")
    <3>1. match = None <=> y = None
      BY <2>1, <2>6 DEF LinkSound
    <3>2. match # None => match.stay = y /\ match.revision <= stays[y].revision
      BY <2>1, <2>6 DEF LinkSound
    <3>3. match # None => y \in Stays /\ match.revision \in Nat
      <4>1. revisions[s] \in Seq(Revision) /\ Intact(s)
        BY <1>1, <2>6 DEF SInv, RecordSound, RowsTypeOK
      <4>2. Latest(s) \in Revision
        BY <4>1, ElementOfSeq DEF Intact, Latest, Last
      <4> QED BY <3>2, <4>2 DEF Revision, StayMatch
    <3>4. match # None => match.revision <= stays'[y].revision
      BY <1>3, <1>4, <3>2, <3>3 DEF StaysGrow
    <3>5. Private(s) /\ stays'[y].link = subs[s].link => stays'[y].issuedFor = match.revision
      <4> SUFFICES ASSUME Private(s), stays'[y].link = subs[s].link
                   PROVE  stays'[y].issuedFor = match.revision
        OBVIOUS
      <4>1. stays[y].link = subs[s].link
        BY <1>3, <1>4, <2>2, <2>3 DEF StaysGrow
      <4>2. stays'[y].issuedFor = stays[y].issuedFor
        BY <1>4, <2>3, <4>1 DEF StaysGrow
      <4> QED BY <2>1, <2>6, <4>1, <4>2 DEF LinkSound
    <3>6. ~Private(s) /\ match # None /\ match.revision = stays'[y].revision => stays'[y].fits
      <4> SUFFICES ASSUME ~Private(s), match # None, match.revision = stays'[y].revision PROVE stays'[y].fits
        OBVIOUS
      <4>1. match.revision = stays[y].revision => stays[y].fits
        BY <2>1, <2>6, <3>2 DEF LinkSound
      <4>2. stays'[y].revision = stays[y].revision
        BY <1>3, <1>4, <3>2, <3>3 DEF StaysGrow
      <4>3. stays'[y].fits = stays[y].fits
        BY <1>2, <3>3, <4>2
      <4> QED BY <4>1, <4>2, <4>3
    <3> HIDE DEF match
    <3> QED BY <2>2, <2>3, <2>6, <3>1, <3>2, <3>4, <3>5, <3>6 DEF LinkSound, Private, Is, Started, match, Latest
  <2> QED BY <2>5, <2>6
<1>7. \A a, b \in Submissions : Excused(a, b)'
  BY DEF SInv, Excused, LinkedTwice, Is, Started, Private, Restored
<1>8. \A s \in Submissions : RecordSound(s)'
  BY SameRecord DEF SInv
<1>9. RowsTypeOK' /\ ConfirmedAsAsked'
  BY <1>2 DEF SInv, RowsTypeOK, ConfirmedAsAsked
<1> QED BY <1>4, <1>5, <1>6, <1>7, <1>8, <1>9 DEF SInv

LEMMA StayStepKeeps ==
    ASSUME SInv, NEW x \in Stays, StayStep(x)
    PROVE  SInv' /\ StaysGrow
<1>1. /\ stays[x] \in Stay /\ StaySound(x) /\ stays \in [Stays -> Stay]
      /\ stays[x].link \in Nat /\ stays[x].revision \in Nat /\ stays[x].issuedFor \in Nat
  BY DEF SInv, RowsTypeOK, Stay
<1>2. ASSUME NEW seen, IssueLink(x, seen) PROVE SInv' /\ StaysGrow
  <2> DEFINE row == [stays[x] EXCEPT !.link = @ + 1, !.issuedFor = stays[x].revision]
  <2>1. stays[x].link + 1 \in Nat
    BY <1>1
  <2>2. row \in Stay
    BY <1>1, <2>1 DEF Stay
  <2>3. /\ row.link = stays[x].link + 1 /\ row.revision = stays[x].revision /\ row.issuedFor = stays[x].revision
        /\ row.fits = stays[x].fits
    BY <1>1 DEF Stay
  <2>4. stays' = [stays EXCEPT ![x] = row] /\ UNCHANGED <<subs, revisions, views, replies>>
    BY <1>1, <1>2 DEF IssueLink
  <2> HIDE DEF row
  <2>5. /\ row.link >= stays[x].link /\ row.revision >= stays[x].revision
        /\ row.issuedFor <= row.revision /\ (row.issuedFor # 0 => row.link > 0)
        /\ (row.link = stays[x].link => row.issuedFor = stays[x].issuedFor)
        /\ (row.revision = stays[x].revision => row.fits = stays[x].fits)
    BY <1>1, <2>3
  <2> QED BY <2>2, <2>4, <2>5, StayWrite
<1>3. ASSUME NEW seen, RevokeLink(x, seen) PROVE SInv' /\ StaysGrow
  <2> DEFINE row == [stays[x] EXCEPT !.link = @ + 1, !.issuedFor = 0]
  <2>1. stays[x].link + 1 \in Nat
    BY <1>1
  <2>2. row \in Stay
    BY <1>1, <2>1 DEF Stay
  <2>3. /\ row.link = stays[x].link + 1 /\ row.revision = stays[x].revision /\ row.issuedFor = 0
        /\ row.fits = stays[x].fits
    BY <1>1 DEF Stay
  <2>4. stays' = [stays EXCEPT ![x] = row] /\ UNCHANGED <<subs, revisions, views, replies>>
    BY <1>1, <1>3 DEF RevokeLink
  <2> HIDE DEF row
  <2>5. /\ row.link >= stays[x].link /\ row.revision >= stays[x].revision
        /\ row.issuedFor <= row.revision /\ (row.issuedFor # 0 => row.link > 0)
        /\ (row.link = stays[x].link => row.issuedFor = stays[x].issuedFor)
        /\ (row.revision = stays[x].revision => row.fits = stays[x].fits)
    BY <1>1, <2>3
  <2> QED BY <2>2, <2>4, <2>5, StayWrite
<1>4. ASSUME NEW active \in BOOLEAN, NEW fits \in BOOLEAN, NEW late \in BOOLEAN, ReviseStay(x, active, fits, late)
      PROVE  SInv' /\ StaysGrow
  <2> DEFINE row == [stays[x] EXCEPT !.revision = @ + 1, !.active = active, !.fits = fits, !.late = late]
  <2>1. stays[x].revision + 1 \in Nat
    BY <1>1
  <2>2. row \in Stay
    BY <1>1, <2>1 DEF Stay
  <2>3. /\ row.link = stays[x].link /\ row.revision = stays[x].revision + 1
        /\ row.issuedFor = stays[x].issuedFor
    BY <1>1 DEF Stay
  <2>4. stays' = [stays EXCEPT ![x] = row] /\ UNCHANGED <<subs, revisions, views, replies>>
    BY <1>1, <1>4 DEF ReviseStay
  <2> HIDE DEF row
  <2>5. /\ row.link >= stays[x].link /\ row.revision >= stays[x].revision
        /\ row.issuedFor <= row.revision /\ (row.issuedFor # 0 => row.link > 0)
        /\ (row.link = stays[x].link => row.issuedFor = stays[x].issuedFor)
        /\ (row.revision = stays[x].revision => row.fits = stays[x].fits)
    BY <1>1, <2>3 DEF StaySound
  <2> QED BY <2>2, <2>4, <2>5, StayWrite
<1>5. ASSUME Elapse(x) PROVE SInv' /\ StaysGrow
  <2> DEFINE row == [stays[x] EXCEPT !.late = TRUE]
  <2>1. row \in Stay
    BY <1>1 DEF Stay
  <2>2. /\ row.link = stays[x].link /\ row.revision = stays[x].revision /\ row.issuedFor = stays[x].issuedFor
        /\ row.fits = stays[x].fits
    BY <1>1 DEF Stay
  <2>3. stays' = [stays EXCEPT ![x] = row] /\ UNCHANGED <<subs, revisions, views, replies>>
    BY <1>1, <1>5 DEF Elapse
  <2> HIDE DEF row
  <2>4. /\ row.link >= stays[x].link /\ row.revision >= stays[x].revision
        /\ row.issuedFor <= row.revision /\ (row.issuedFor # 0 => row.link > 0)
        /\ (row.link = stays[x].link => row.issuedFor = stays[x].issuedFor)
        /\ (row.revision = stays[x].revision => row.fits = stays[x].fits)
    BY <1>1, <2>2 DEF StaySound
  <2> QED BY <2>1, <2>3, <2>4, StayWrite
<1> QED BY <1>2, <1>3, <1>4, <1>5 DEF StayStep

--------------------------------------------------------------------------------
\* A step of one checklist.  Why it does not share a reservation after it unless that is excused:
\* it has none, it was begun for it or is restored, or it shared it before, or nobody does.
MayShare(s) ==
    /\ Is(s, "SUBMITTED")' => Started(s)
    /\ Is(s, "SUBMITTED")' /\ subs'[s].stay # None =>
        \/ Private(s)' \/ Restored(s)'
        \/ Is(s, "SUBMITTED") /\ subs[s].stay = subs'[s].stay
        \/ \A d \in Submissions \ {s} :
              ~(Is(d, "SUBMITTED") /\ subs[d].stay = subs'[s].stay /\ subs[d].type = subs[s].type)

LEMMA OneChecklist ==
    ASSUME SInv, NEW s \in Submissions, UNCHANGED stays, RowsTypeOK',
           \A d \in Submissions \ {s} : subs'[d] = subs[d] /\ revisions'[d] = revisions[d] /\ views'[d] = views[d],
           RecordSound(s)', LinkSound(s)', ConfirmedAsAsked', MayShare(s),
           Started(s) => subs'[s].type = subs[s].type /\ subs'[s].link = subs[s].link,
           Restored(s) => Restored(s)'
    PROVE  SInv'
<1>1. \A d \in Submissions : RecordSound(d)' /\ LinkSound(d)'
  BY SameRecord, SameLink DEF SInv
<1>2. \A x \in Stays : StaySound(x)'
  BY DEF SInv, StaySound
<1>3. ASSUME NEW d \in Submissions \ {s}, LinkedTwice(s, d)'
      PROVE  \E r \in {s, d} : Private(r)' \/ Restored(r)'
  <2>1. /\ Is(s, "SUBMITTED")' /\ Is(d, "SUBMITTED") /\ subs'[s].stay # None
        /\ subs'[s].stay = subs[d].stay /\ subs'[s].type = subs[d].type
    BY <1>3 DEF LinkedTwice, Is, Started
  <2>2. CASE Private(s)' \/ Restored(s)'
    BY <2>2
  <2>3. CASE Is(s, "SUBMITTED") /\ subs[s].stay = subs'[s].stay
    <3>1. Started(s) /\ LinkedTwice(s, d)
      BY <2>1, <2>3 DEF LinkedTwice, Is
    <3>2. Private(s) \/ Restored(s) \/ Private(d) \/ Restored(d)
      BY <3>1 DEF SInv, Excused
    <3>3. /\ Private(s) => Private(s)'
          /\ Private(d) => Private(d)'
          /\ Restored(d) => Restored(d)'
      BY <2>1, <3>1 DEF Private, Started, Is, Restored
    <3> QED BY <3>2, <3>3
  <2>4. CASE ~(Is(s, "SUBMITTED") /\ subs[s].stay = subs'[s].stay)
    <3>1. Started(s) /\ subs[d].type = subs[s].type
      BY <2>1 DEF MayShare
    <3> QED BY <2>1, <2>2, <2>4, <3>1 DEF MayShare
  <2> QED BY <2>2, <2>3, <2>4
<1>4. ASSUME NEW a \in Submissions, NEW b \in Submissions PROVE Excused(a, b)'
  <2>1. CASE a = b
    BY <2>1 DEF Excused, LinkedTwice
  <2>2. CASE a = s /\ b # s
    BY <1>3, <2>2 DEF Excused
  <2>3. CASE a # s /\ b = s
    <3>1. LinkedTwice(a, s)' => LinkedTwice(s, a)'
      BY DEF LinkedTwice
    <3> QED BY <1>3, <2>3, <3>1 DEF Excused
  <2>4. CASE a # s /\ b # s
    BY <2>4 DEF SInv, Excused, LinkedTwice, Is, Started, Private, Restored
  <2> QED BY <2>1, <2>2, <2>3, <2>4
<1> QED BY <1>1, <1>2, <1>4 DEF SInv

LEMMA UnansweredTyped == Unanswered \in Answers /\ Unanswered \in GuestAnswers
BY DEF Unanswered, Answers, GuestAnswers

LEMMA StartDraftStep ==
    ASSUME SInv, NEW s \in Submissions, NEW type \in Types, NEW x \in Stays \cup {None}, NEW now \in 0 .. MaxClock,
           StartDraft(s, type, x, now)
    PROVE  SInv'
<1> DEFINE link == IF x = None THEN 0 ELSE stays[x].link
           row == [type |-> type, status |-> "DRAFT", answers |-> Unanswered, revision |-> 0, stay |-> x,
                   updatedAt |-> now, link |-> link]
           view == [at |-> now, answers |-> Unanswered]
<1>1. RowsTypeOK /\ RecordSound(s) /\ ~Started(s) /\ views[s] = {} /\ revisions[s] = <<>>
  BY DEF SInv, StartDraft, RecordSound
<1>2. /\ subs' = [subs EXCEPT ![s] = row] /\ views' = [views EXCEPT ![s] = @ \cup {view}]
      /\ UNCHANGED <<revisions, stays, replies>> /\ (x # None => Invited(x))
  BY DEF StartDraft, Show
<1>3. now \in Nat /\ link \in Nat
  <2>1. now \in Nat
    BY SubmissionBoundsAreNat
  <2>2. x # None => stays[x].link \in Nat
    BY <1>1 DEF RowsTypeOK, Stay
  <2> QED BY <2>1, <2>2
<1>4. x # None => x \in Stays /\ link > 0
  <2> SUFFICES ASSUME x # None PROVE x \in Stays /\ stays[x].link > 0
    OBVIOUS
  <2>1. x \in Stays /\ StaySound(x) /\ stays[x].issuedFor = stays[x].revision
    BY <1>2 DEF SInv, Invited
  <2>2. stays[x].revision \in Nat
    BY <1>1, <2>1 DEF RowsTypeOK, Stay
  <2> QED BY <2>1, <2>2 DEF StaySound
<1> HIDE DEF link
<1>5. row \in Submission /\ view \in View /\ row # None
  BY <1>3, UnansweredTyped, NoneIsNoRevision DEF Submission, View
<1>6. subs'[s] = row /\ views'[s] = {view}
  BY <1>1, <1>2 DEF RowsTypeOK
<1>7. RowsTypeOK'
  BY <1>1, <1>2, <1>5 DEF RowsTypeOK
<1>8. RecordSound(s)'
  <2>1. AnswersSound(s)'
    BY <1>1, <1>2, <1>6, UnansweredTyped DEF AnswersSound, OfGuest
  <2> QED BY <1>1, <1>2, <1>3, <1>5, <1>6, <2>1 DEF RecordSound, Started, Is
<1>9. LinkSound(s)'
  <2>1. link # 0 => x \in Stays /\ link = stays[x].link
    BY DEF link
  <2> QED BY <1>2, <1>3, <1>4, <1>6, <2>1 DEF LinkSound, Private, Is, Started
<1>10. MayShare(s)
  BY <1>6 DEF MayShare, Is
<1>11. ConfirmedAsAsked' /\ (Restored(s) => Restored(s)')
  BY <1>2 DEF SInv, ConfirmedAsAsked, Restored
<1>12. \A d \in Submissions \ {s} : subs'[d] = subs[d] /\ revisions'[d] = revisions[d] /\ views'[d] = views[d]
  BY <1>1, <1>2 DEF RowsTypeOK
<1> QED BY <1>1, <1>2, <1>7, <1>8, <1>9, <1>10, <1>11, <1>12, OneChecklist

LEMMA SaveDraftStep ==
    ASSUME SInv, NEW s \in Submissions, NEW seen \in views[s], NEW answers \in Answers, NEW now \in 0 .. MaxClock,
           SaveDraft(s, seen, answers, now)
    PROVE  SInv'
<1> DEFINE at == Later(now, subs[s].updatedAt)
           row == [subs[s] EXCEPT !.answers = answers, !.updatedAt = at]
           view == [at |-> at, answers |-> answers]
<1>1. /\ RowsTypeOK /\ RecordSound(s) /\ LinkSound(s) /\ Is(s, "DRAFT") /\ Started(s)
      /\ subs[s] \in Submission /\ revisions[s] = <<>> /\ subs[s].updatedAt \in Nat
  BY DEF SInv, SaveDraft, RecordSound, Is, Started, RowsTypeOK, Submission
<1>2. at \in Nat /\ at > subs[s].updatedAt
  <2>1. now \in Nat
    BY SubmissionBoundsAreNat
  <2> QED BY <1>1, <2>1 DEF Later
<1>3. /\ subs' = [subs EXCEPT ![s] = row] /\ views' = [views EXCEPT ![s] = @ \cup {view}]
      /\ UNCHANGED <<revisions, stays, replies>>
  BY <1>1 DEF SaveDraft, Show, RowsTypeOK
<1> HIDE DEF at
<1>4. /\ row \in Submission /\ row # None /\ view \in View /\ row.status = "DRAFT"
      /\ row.answers = answers /\ row.updatedAt = at /\ row.type = subs[s].type
      /\ row.link = subs[s].link /\ row.stay = subs[s].stay
  <2>1. row \in Submission
    BY <1>1, <1>2 DEF Submission
  <2>2. /\ row.status = "DRAFT" /\ row.answers = answers /\ row.updatedAt = at /\ row.type = subs[s].type
        /\ row.link = subs[s].link /\ row.stay = subs[s].stay
    BY <1>1 DEF Submission, Is
  <2>3. view \in View
    BY <1>2 DEF View
  <2> QED BY <2>1, <2>2, <2>3, NoneIsNoRevision
<1> HIDE DEF row
<1>5. subs'[s] = row /\ views'[s] = views[s] \cup {view}
  BY <1>1, <1>3 DEF RowsTypeOK
<1>6. RowsTypeOK'
  BY <1>1, <1>3, <1>4 DEF RowsTypeOK
<1>7. RecordSound(s)'
  <2>1. \A w \in views[s] : w.at \in Nat /\ w.at <= subs[s].updatedAt
    BY <1>1 DEF RecordSound, RowsTypeOK, View
  <2>2. ASSUME NEW w \in views'[s]
        PROVE  w.at <= row.updatedAt /\ (w.at = row.updatedAt => w.answers = row.answers)
    BY <1>1, <1>2, <1>4, <1>5, <2>1
  <2>3. revisions'[s] = <<>> /\ Is(s, "DRAFT")' /\ Started(s)'
    BY <1>1, <1>3, <1>4, <1>5 DEF Is, Started
  <2>4. AnswersSound(s)'
    <3>1. subs[s].type \in GuestTypes => answers \in GuestAnswers
      BY DEF SaveDraft
    <3> QED BY <1>4, <1>5, <2>3, <3>1 DEF AnswersSound, OfGuest
  <2> QED BY <1>5, <2>2, <2>3, <2>4 DEF RecordSound
<1>8. LinkSound(s)'
  BY <1>1, <1>3, <1>4, <1>5 DEF LinkSound, Private, Is, Started
<1>9. MayShare(s)
  BY <1>4, <1>5 DEF MayShare, Is
<1>10. ConfirmedAsAsked' /\ (Restored(s) => Restored(s)')
  BY <1>3 DEF SInv, ConfirmedAsAsked, Restored
<1>11. \A d \in Submissions \ {s} : subs'[d] = subs[d] /\ revisions'[d] = revisions[d] /\ views'[d] = views[d]
  BY <1>1, <1>3 DEF RowsTypeOK
<1> QED BY <1>1, <1>3, <1>4, <1>5, <1>6, <1>7, <1>8, <1>9, <1>10, <1>11, OneChecklist

LEMMA SubmitStep ==
    ASSUME SInv, NEW s \in Submissions, NEW seen \in views[s], NEW photos \in SUBSET Photos(subs[s].answers),
           NEW now \in 0 .. MaxClock, SubmitChecklist(s, seen, photos, now)
    PROVE  SInv'
<1> DEFINE req == SubmitRequest(seen, photos)
           answers == subs[s].answers
           at == Later(now, subs[s].updatedAt)
           row == [subs[s] EXCEPT !.status = "SUBMITTED", !.revision = 1, !.updatedAt = at]
           match == PrivateMatch(s)
           first == [action |-> "SUBMITTED", by |-> None, status |-> "SUBMITTED", answers |-> answers,
                     photos |-> photos, stay |-> subs[s].stay, match |-> match, marks |-> {req}, req |-> req]
           answer == [sub |-> s, version |-> 1, req |-> req, seen |-> seen.answers]
<1>1. /\ RowsTypeOK /\ RecordSound(s) /\ LinkSound(s) /\ Is(s, "DRAFT") /\ Started(s) /\ Accessible(s)
      /\ subs[s] \in Submission /\ revisions[s] = <<>> /\ subs[s].updatedAt \in Nat
      /\ subs[s].updatedAt = seen.at /\ seen \in View
  BY DEF SInv, SubmitChecklist, RecordSound, Is, Started, RowsTypeOK, Submission
<1>2. /\ subs' = [subs EXCEPT ![s] = row] /\ revisions' = [revisions EXCEPT ![s] = <<first>>]
      /\ replies' = replies \cup {answer} /\ UNCHANGED <<views, stays>>
  BY <1>1 DEF SubmitChecklist, Reply, RowsTypeOK
<1>3. at \in Nat
  <2>1. now \in Nat
    BY SubmissionBoundsAreNat
  <2> QED BY <1>1, <2>1 DEF Later
<1>4. answers \in Answers /\ subs[s].stay \in Stays \cup {None} /\ seen.at \in Nat /\ seen.answers \in Answers
  BY <1>1 DEF Submission, View
<1>5. photos \in SUBSET (Items \X {"DEFECT", "REPAIR"})
  BY DEF Photos
<1>6. /\ req \in SubmissionRequest /\ req.kind = "SUBMIT" /\ req.by = None /\ req.expected = seen.at
  <2>1. Blank \in SubmissionRequest /\ Blank.kind = "SUBMIT" /\ Blank.by = None
    BY UnansweredTyped DEF Blank, SubmissionRequest, Kinds
  <2>2. req = [Blank EXCEPT !.expected = seen.at, !.photos = photos]
    BY DEF SubmitRequest
  <2> HIDE DEF req
  <2>3. req \in SubmissionRequest
    BY <1>4, <1>5, <2>1, <2>2 DEF SubmissionRequest
  <2> QED BY <1>4, <2>1, <2>2, <2>3 DEF SubmissionRequest
<1>7. seen.answers = answers
  BY <1>1 DEF RecordSound
<1> HIDE DEF at, req
<1>8. /\ row \in Submission /\ row # None /\ row.status = "SUBMITTED" /\ row.answers = answers
      /\ row.revision = 1 /\ row.type = subs[s].type /\ row.link = subs[s].link /\ row.stay = subs[s].stay
  <2>1. row \in Submission
    BY <1>1, <1>3 DEF Submission
  <2>2. /\ row.status = "SUBMITTED" /\ row.answers = answers /\ row.revision = 1 /\ row.type = subs[s].type
        /\ row.link = subs[s].link /\ row.stay = subs[s].stay
    BY <1>1 DEF Submission
  <2> QED BY <2>1, <2>2, NoneIsNoRevision
<1> HIDE DEF row
\* Whoever submits with an invitation submits for the reservation it was issued for.
<1>9. /\ match \in StayMatch \cup {None}
      /\ match = None <=> subs[s].stay = None
      /\ match # None => /\ match.stay = subs[s].stay /\ match.revision = stays[match.stay].revision
                         /\ stays[match.stay].revision \in Nat
      /\ Private(s) => stays[subs[s].stay].issuedFor = match.revision
  <2>1. CASE Private(s)
    <3>1. subs[s].stay \in Stays /\ Invited(subs[s].stay)
      BY <1>1, <2>1 DEF LinkSound, Accessible
    <3>2. stays[subs[s].stay].revision \in Nat
      BY <1>1, <3>1 DEF RowsTypeOK, Stay
    <3>3. match = [stay |-> subs[s].stay, revision |-> stays[subs[s].stay].revision]
      BY <2>1 DEF PrivateMatch
    <3>4. match \in StayMatch /\ match # None /\ subs[s].stay # None
      BY <3>1, <3>2, <3>3, NoneIsNoRevision, NoneIsNoSubmission DEF StayMatch
    <3> HIDE DEF match
    <3> QED BY <2>1, <3>1, <3>2, <3>3, <3>4 DEF Invited
  <2>2. CASE ~Private(s)
    BY <1>1, <2>2 DEF LinkSound, PrivateMatch
  <2> QED BY <2>1, <2>2
<1> HIDE DEF match
<1>10. first \in Revision
  BY <1>4, <1>5, <1>6, <1>9 DEF Revision
<1>11. subs'[s] = row /\ revisions'[s] = <<first>> /\ views'[s] = views[s]
  BY <1>1, <1>2 DEF RowsTypeOK
<1>12. Len(<<first>>) = 1 /\ <<first>>[1] = first /\ <<first>> \in Seq(Revision) /\ <<first>> # <<>>
  BY <1>10
<1>13. /\ first.status = "SUBMITTED" /\ first.stay = subs[s].stay /\ first.answers = answers /\ first.match = match
       /\ first.req = req /\ first.marks = {req} /\ first.by = None /\ first.photos = photos
  OBVIOUS
<1> HIDE DEF first
<1>14. Latest(s)' = first
  BY <1>11, <1>12 DEF Latest, Last
<1>15. RowsTypeOK'
  <2>1. answer \in Reply4
    BY <1>4, <1>6 DEF Reply4
  <2> QED BY <1>1, <1>2, <1>8, <1>12, <2>1 DEF RowsTypeOK
<1>16. RecordSound(s)'
  <2>1. Started(s)' /\ ~Is(s, "DRAFT")' /\ Intact(s)'
    BY <1>8, <1>11, <1>12, <1>13, <1>14 DEF Started, Is, Intact
  <2>2. RevisionSound(<<first>>, 1)
    BY <1>6, <1>12, <1>13 DEF RevisionSound
  <2>3. \A w \in views[s] : w.at = seen.at => w.answers = answers
    BY <1>1 DEF RecordSound
  <2>4. \A v \in 1 .. Len(revisions'[s]) : RevisionSound(revisions'[s], v)
    BY <1>11, <1>12, <2>2
  <2>5. \A w \in views'[s] : w.at = revisions'[s][1].req.expected => w.answers = revisions'[s][1].answers
    BY <1>6, <1>11, <1>12, <1>13, <2>3
  <2>6. AnswersSound(s)'
    <3>1. Complete(answers) /\ (OfGuest(s) => answers \in GuestAnswers)
      BY <1>1 DEF SubmitChecklist, RecordSound, AnswersSound
    <3>2. OfGuest(s)' => OfGuest(s)
      BY <1>1, <1>8, <1>11 DEF OfGuest
    <3>3. \A v \in 1 .. Len(revisions'[s]) : revisions'[s][v].answers = answers
      BY <1>11, <1>12, <1>13
    <3> QED BY <1>8, <1>11, <3>1, <3>2, <3>3 DEF AnswersSound
  <2> QED BY <2>1, <2>4, <2>5, <2>6 DEF RecordSound
<1>17. LinkSound(s)'
  <2>1. Private(s) <=> Private(s)'
    BY <1>1, <1>8, <1>11 DEF Private, Started
  <2> QED BY <1>1, <1>2, <1>8, <1>9, <1>11, <1>13, <1>14, <2>1 DEF LinkSound, Is, Started, Stay
<1>18. MayShare(s)
  BY <1>1, <1>8, <1>11 DEF MayShare, Is, Started, Private, LinkSound
<1>19. ConfirmedAsAsked'
  <2>1. \A d \in Submissions : \A v \in 1 .. Len(revisions[d]) :
           v \in 1 .. Len(revisions'[d]) /\ revisions'[d][v] = revisions[d][v]
    BY <1>1, <1>2 DEF RowsTypeOK
  <2>2. ConfirmedAsAsked
    BY DEF SInv
  <2>3. 1 \in 1 .. Len(revisions'[s]) /\ revisions'[s][1] = first
    BY <1>11, <1>12
  <2>4. ASSUME NEW r \in replies'
        PROVE  /\ r.version \in 1 .. Len(revisions'[r.sub])
               /\ revisions'[r.sub][r.version].req = r.req
               /\ r.req.kind = "SUBMIT" => r.seen = revisions'[r.sub][1].answers
    <3>1. CASE r \in replies
      BY <1>1, <2>1, <2>2, <3>1, RepliesKept
    <3>2. CASE r = answer
      BY <1>7, <1>13, <2>3, <3>2
    <3> QED BY <1>2, <3>1, <3>2
  <2> QED BY <2>4 DEF ConfirmedAsAsked
<1>20. Restored(s) => Restored(s)'
  BY <1>1 DEF Restored
<1>21. \A d \in Submissions \ {s} : subs'[d] = subs[d] /\ revisions'[d] = revisions[d] /\ views'[d] = views[d]
  BY <1>1, <1>2 DEF RowsTypeOK
<1> QED BY <1>1, <1>2, <1>8, <1>11, <1>15, <1>16, <1>17, <1>18, <1>19, <1>20, <1>21, OneChecklist

--------------------------------------------------------------------------------
\* A revision r of s that req asked for, made from the latest one.
Follows(s, req, r) ==
    /\ r \in Revision /\ req \in SubmissionRequest
    /\ r.req = req /\ req \in r.marks /\ r.by = req.by /\ r.action = ActionOf(req.kind) /\ req.kind # "SUBMIT"
    /\ r.by = None => r.marks = {req}
    /\ r.marks \subseteq Latest(s).marks \cup {req}
    /\ r.photos \subseteq Photos(r.answers) /\ r.photos \subseteq Latest(s).photos
    /\ Complete(r.answers) /\ (OfGuest(s) => r.answers \in GuestAnswers)
    /\ \/ r.stay = Latest(s).stay /\ r.match = Latest(s).match
       \/ /\ ~Private(s) /\ (r.match = None <=> r.stay = None)
          /\ r.match # None => /\ r.match.stay = r.stay /\ r.match.revision = stays[r.stay].revision
                               /\ stays[r.stay].fits
    /\ r.status = "SUBMITTED" /\ r.stay # None =>
          \/ Private(s) \/ r.action = "RESTORED"
          \/ Is(s, "SUBMITTED") /\ subs[s].stay = r.stay
          \/ ~LinkedElsewhere(s, r.stay)

LEMMA RevisionStep ==
    ASSUME SInv, NEW s \in Submissions, NEW req, NEW r, UpToRevision(s, req), ~Is(s, "DRAFT"),
           AddRevision(s, req, r), Follows(s, req, r)
    PROVE  SInv'
<1> DEFINE old == revisions[s]
           n == Len(old)
           row == [subs[s] EXCEPT !.status = r.status, !.answers = r.answers, !.stay = r.stay, !.revision = n + 1]
           answer == [sub |-> s, version |-> n + 1, req |-> req, seen |-> r.answers]
<1>1. /\ RowsTypeOK /\ RecordSound(s) /\ LinkSound(s) /\ Started(s) /\ Intact(s)
      /\ subs[s] \in Submission /\ old \in Seq(Revision) /\ n \in Nat /\ n > 0
      /\ subs[s].revision = n /\ req.expected = n
  BY DEF SInv, UpToRevision, RecordSound, Started, RowsTypeOK, Submission, Intact
<1>2. /\ r \in Revision /\ req \in SubmissionRequest /\ r.req = req /\ req \in r.marks /\ r.by = req.by
      /\ r.action = ActionOf(req.kind) /\ req.kind # "SUBMIT" /\ (r.by = None => r.marks = {req})
      /\ r.marks \subseteq Latest(s).marks \cup {req}
      /\ r.photos \subseteq Photos(r.answers) /\ r.photos \subseteq Latest(s).photos
  BY DEF Follows
<1>3. /\ subs' = [subs EXCEPT ![s] = row] /\ revisions' = [revisions EXCEPT ![s] = Append(old, r)]
      /\ replies' = replies \cup {answer} /\ UNCHANGED <<views, stays>>
  BY <1>1 DEF AddRevision, Reply, RowsTypeOK
<1>4. Latest(s) = old[n] /\ old[n] \in Revision
  BY <1>1, ElementOfSeq DEF Latest, Last
<1>5. /\ row \in Submission /\ row # None /\ row.status = r.status /\ row.answers = r.answers
      /\ row.revision = n + 1 /\ row.type = subs[s].type /\ row.link = subs[s].link /\ row.stay = r.stay
      /\ row.status \in {"SUBMITTED", "CANCELLED"}
  <2>1. /\ r.status \in {"SUBMITTED", "CANCELLED"} /\ r.answers \in Answers /\ r.stay \in Stays \cup {None}
        /\ n + 1 \in Nat
    BY <1>1, <1>2 DEF Revision
  <2>2. row \in Submission
    BY <1>1, <2>1 DEF Submission
  <2>3. /\ row.status = r.status /\ row.answers = r.answers
        /\ row.revision = n + 1 /\ row.type = subs[s].type /\ row.link = subs[s].link /\ row.stay = r.stay
    BY <1>1 DEF Submission
  <2> QED BY <2>1, <2>2, <2>3, NoneIsNoRevision
<1>6. subs'[s] = row /\ revisions'[s] = Append(old, r) /\ views'[s] = views[s]
  BY <1>1, <1>3 DEF RowsTypeOK
<1> HIDE DEF row
<1>7. /\ Append(old, r) \in Seq(Revision) /\ Len(Append(old, r)) = n + 1 /\ Append(old, r)[n + 1] = r
      /\ \A v \in 1 .. n : Append(old, r)[v] = old[v]
      /\ Append(old, r)[1] = old[1] /\ old # <<>> /\ Append(old, r) # <<>>
  BY <1>1, <1>2
<1>8. Latest(s)' = r
  BY <1>6, <1>7 DEF Latest, Last
<1>9. RowsTypeOK'
  <2>1. answer \in Reply4
    BY <1>1, <1>2 DEF Reply4, Revision
  <2> QED BY <1>1, <1>3, <1>5, <1>7, <2>1 DEF RowsTypeOK
<1>10. RecordSound(s)'
  <2>1. Started(s)' /\ ~Is(s, "DRAFT")' /\ Intact(s)'
    BY <1>1, <1>5, <1>6, <1>7, <1>8 DEF Started, Is, Intact
  <2>2. ASSUME NEW v \in 1 .. n PROVE RevisionSound(Append(old, r), v)
    <3>1. RevisionSound(old, v)
      BY <1>1 DEF RecordSound
    <3>2. Append(old, r)[v] = old[v] /\ (v > 1 => Append(old, r)[v - 1] = old[v - 1])
      BY <1>1, <1>7
    <3> HIDE DEF old
    <3> QED BY <3>1, <3>2 DEF RevisionSound
  <2>3. RevisionSound(Append(old, r), n + 1)
    <3>1. RevisionSound(old, n)
      BY <1>1 DEF RecordSound
    <3>2. ASSUME NEW m \in r.marks
          PROVE  m = r.req \/ m.expected < n \/ (m.kind = "SUBMIT" /\ m.by = None)
      <4>1. CASE m = req
        BY <1>2, <4>1
      <4>2. CASE m # req
        <5>1. m \in old[n].marks
          BY <1>2, <1>4, <4>2
        <5>2. m = old[n].req \/ m.expected < n - 1 \/ (m.kind = "SUBMIT" /\ m.by = None)
          BY <3>1, <5>1 DEF RevisionSound
        <5>3. m.expected \in Nat
          BY <1>4, <5>1 DEF Revision, SubmissionRequest
        <5>4. n = 1 => old[n].req.kind = "SUBMIT" /\ old[n].req.by = None
          BY <3>1 DEF RevisionSound
        <5>5. n > 1 => old[n].req.expected = n - 1
          BY <3>1 DEF RevisionSound
        <5>6. n \in Nat /\ n > 0
          BY <1>1
        <5> HIDE DEF n, old
        <5>7. CASE m = old[n].req /\ n = 1
          BY <5>4, <5>7
        <5>8. CASE m = old[n].req /\ n > 1
          BY <5>5, <5>6, <5>8
        <5>9. CASE m.expected < n - 1
          BY <5>3, <5>6, <5>9
        <5> QED BY <5>2, <5>6, <5>7, <5>8, <5>9
      <4> QED BY <4>1, <4>2
    <3>3. Append(old, r)[n + 1] = r /\ Append(old, r)[n] = old[n] /\ n + 1 > 1 /\ n + 1 # 1 /\ (n + 1) - 1 = n
      BY <1>1, <1>7
    <3> HIDE DEF n, old
    <3> QED BY <1>1, <1>2, <1>4, <3>2, <3>3 DEF RevisionSound
  <2>4. \A v \in 1 .. Len(revisions'[s]) : RevisionSound(revisions'[s], v)
    <3> SUFFICES ASSUME NEW v \in 1 .. n + 1 PROVE RevisionSound(Append(old, r), v)
      BY <1>6, <1>7
    <3>1. v \in 1 .. n \/ v = n + 1
      BY <1>1
    <3> QED BY <2>2, <2>3, <3>1
  <2>5. \A w \in views'[s] : w.at = revisions'[s][1].req.expected => w.answers = revisions'[s][1].answers
    BY <1>1, <1>6, <1>7 DEF RecordSound
  <2>6. AnswersSound(s)'
    <3>1. Complete(r.answers) /\ (OfGuest(s) => r.answers \in GuestAnswers)
      BY DEF Follows
    <3>2. OfGuest(s)' <=> OfGuest(s)
      BY <1>1, <1>5, <1>6 DEF OfGuest, Started
    <3>3. \A v \in 1 .. n : Complete(old[v].answers) /\ (OfGuest(s) => old[v].answers \in GuestAnswers)
      BY <1>1 DEF RecordSound, AnswersSound
    <3>4. \A v \in 1 .. n + 1 : v \in 1 .. n \/ v = n + 1
      BY <1>1
    <3> HIDE DEF n, old
    <3>5. \A v \in 1 .. n + 1 : Complete(revisions'[s][v].answers)
                               /\ (OfGuest(s) => revisions'[s][v].answers \in GuestAnswers)
      BY <1>6, <1>7, <3>1, <3>3, <3>4
    <3> QED BY <1>5, <1>6, <1>7, <3>1, <3>2, <3>5 DEF AnswersSound
  <2> QED BY <2>1, <2>4, <2>5, <2>6 DEF RecordSound
<1>11. LinkSound(s)'
  <2>1. Private(s) <=> Private(s)'
    BY <1>1, <1>5, <1>6 DEF Private, Started
  <2>2. CASE r.stay = Latest(s).stay /\ r.match = Latest(s).match
    <3>1. r.stay = subs[s].stay
      BY <1>1, <2>2 DEF Intact
    <3> QED BY <1>1, <1>3, <1>5, <1>6, <1>8, <2>1, <2>2, <3>1 DEF LinkSound, Is, Started
  <2>3. CASE /\ ~Private(s) /\ (r.match = None <=> r.stay = None)
             /\ r.match # None => /\ r.match.stay = r.stay /\ r.match.revision = stays[r.stay].revision
                                  /\ stays[r.stay].fits
    <3>1. r.match # None => r.match.revision <= stays[r.stay].revision
      <4>1. r.match # None => r.match \in StayMatch
        BY <1>2 DEF Revision
      <4> QED BY <2>3, <4>1 DEF StayMatch
    <3> QED BY <1>1, <1>3, <1>5, <1>6, <1>8, <2>1, <2>3, <3>1 DEF LinkSound, Is, Started
  <2> QED BY <2>2, <2>3 DEF Follows
<1>12. Restored(s)' <=> Restored(s) \/ r.action = "RESTORED"
  <2>1. 1 .. n + 1 = 1 .. n \cup {n + 1}
    BY <1>1
  <2> QED BY <1>6, <1>7, <2>1 DEF Restored
<1>13. MayShare(s)
  <2> SUFFICES ASSUME r.status = "SUBMITTED", r.stay # None
               PROVE  \/ Private(s) \/ r.action = "RESTORED"
                      \/ Is(s, "SUBMITTED") /\ subs[s].stay = r.stay
                      \/ \A d \in Submissions \ {s} :
                            ~(Is(d, "SUBMITTED") /\ subs[d].stay = r.stay /\ subs[d].type = subs[s].type)
    BY <1>1, <1>5, <1>6, <1>12 DEF MayShare, Is, Private, Started
  <2> QED BY DEF Follows, LinkedElsewhere
<1>14. ConfirmedAsAsked'
  <2>1. \A d \in Submissions : \A v \in 1 .. Len(revisions[d]) :
           v \in 1 .. Len(revisions'[d]) /\ revisions'[d][v] = revisions[d][v]
    <3> SUFFICES ASSUME NEW d \in Submissions, NEW v \in 1 .. Len(revisions[d])
                 PROVE  v \in 1 .. Len(revisions'[d]) /\ revisions'[d][v] = revisions[d][v]
      OBVIOUS
    <3>1. CASE d = s
      BY <1>1, <1>6, <1>7, <3>1
    <3>2. CASE d # s
      BY <1>1, <1>3, <3>2 DEF RowsTypeOK
    <3> QED BY <3>1, <3>2
  <2>2. ConfirmedAsAsked
    BY DEF SInv
  <2>3. n + 1 \in 1 .. Len(revisions'[s]) /\ revisions'[s][n + 1] = r
    BY <1>1, <1>6, <1>7
  <2>4. ASSUME NEW a \in replies'
        PROVE  /\ a.version \in 1 .. Len(revisions'[a.sub])
               /\ revisions'[a.sub][a.version].req = a.req
               /\ a.req.kind = "SUBMIT" => a.seen = revisions'[a.sub][1].answers
    <3>1. CASE a \in replies
      BY <1>1, <2>1, <2>2, <3>1, RepliesKept
    <3>2. CASE a = answer
      BY <1>2, <2>3, <3>2
    <3> QED BY <1>3, <3>1, <3>2
  <2> QED BY <2>4 DEF ConfirmedAsAsked
<1>15. \A d \in Submissions \ {s} : subs'[d] = subs[d] /\ revisions'[d] = revisions[d] /\ views'[d] = views[d]
  BY <1>1, <1>3 DEF RowsTypeOK
<1> QED BY <1>1, <1>3, <1>5, <1>6, <1>9, <1>10, <1>11, <1>12, <1>13, <1>14, <1>15, OneChecklist

LEMMA LatestTyped ==
    ASSUME SInv, NEW s \in Submissions, NEW req, UpToRevision(s, req)
    PROVE  /\ Latest(s) \in Revision /\ subs[s] \in Submission /\ Started(s)
           /\ Latest(s).status = subs[s].status /\ Latest(s).stay = subs[s].stay
           /\ Latest(s).photos \subseteq Photos(Latest(s).answers)
           /\ Complete(Latest(s).answers) /\ (OfGuest(s) => Latest(s).answers \in GuestAnswers)
<1>1. revisions[s] \in Seq(Revision) /\ Len(revisions[s]) > 0 /\ Started(s) /\ Intact(s)
  BY DEF UpToRevision, Intact, SInv, RowsTypeOK, Submission, Started
<1>2. Latest(s) \in Revision
  BY <1>1, ElementOfSeq DEF Latest, Last
<1>3. /\ RevisionSound(revisions[s], Len(revisions[s]))
      /\ Complete(Latest(s).answers) /\ (OfGuest(s) => Latest(s).answers \in GuestAnswers)
  <2>1. Len(revisions[s]) \in 1 .. Len(revisions[s])
    BY <1>1
  <2> QED BY <2>1 DEF SInv, RecordSound, AnswersSound, Latest, Last
<1> QED BY <1>1, <1>2, <1>3 DEF Intact, SInv, RowsTypeOK, Started, RevisionSound, Latest, Last

\* Corrections and changes of status keep the link to the reservation.
LEMMA KeepsLink ==
    ASSUME NEW s \in Submissions, NEW req \in SubmissionRequest, NEW r \in Revision,
           Latest(s).stay = subs[s].stay, Is(s, "SUBMITTED") \/ r.action = "RESTORED" \/ r.status # "SUBMITTED",
           r.req = req, r.marks \subseteq Latest(s).marks \cup {req}, req \in r.marks, r.by = req.by,
           r.action = ActionOf(req.kind), req.kind # "SUBMIT", r.by = None => r.marks = {req},
           r.photos \subseteq Photos(r.answers), r.photos \subseteq Latest(s).photos,
           Complete(r.answers), OfGuest(s) => r.answers \in GuestAnswers,
           r.stay = Latest(s).stay, r.match = Latest(s).match
    PROVE  Follows(s, req, r)
<1> QED BY DEF Follows

LEMMA GuestCorrectStep ==
    ASSUME SInv, NEW s \in Submissions, NEW req \in SubmissionRequest, req.by = None, NEW now, GuestCorrect(s, req, now)
    PROVE  SInv'
<1> DEFINE before == Latest(s)
           photos == Retained(before.photos, req.answers)
           r == [before EXCEPT !.action = "CORRECTED", !.by = None, !.answers = req.answers,
                               !.photos = photos, !.marks = {req}, !.req = req]
<1>1. UpToRevision(s, req) /\ Is(s, "SUBMITTED") /\ req.kind = "GUEST" /\ req.answers \in Answers
  BY DEF GuestCorrect, GuestAnswers
<1>2. before \in Revision /\ before.stay = subs[s].stay
  BY <1>1, LatestTyped
<1>3. AddRevision(s, req, r)
  BY <1>2 DEF GuestCorrect, Revision
<1>4. /\ photos \subseteq Photos(req.answers) /\ photos \subseteq before.photos
      /\ photos \in SUBSET (Items \X {"DEFECT", "REPAIR"})
  BY <1>2 DEF Retained, Revision
<1> HIDE DEF photos
<1>5. r \in Revision
  <2>1. {req} \in SUBSET SubmissionRequest
    OBVIOUS
  <2> QED BY <1>1, <1>2, <1>4, <2>1 DEF Revision
<1>6. /\ r.action = "CORRECTED" /\ r.by = None /\ r.answers = req.answers /\ r.photos = photos
      /\ r.marks = {req} /\ r.req = req /\ r.stay = before.stay /\ r.match = before.match
  BY <1>2 DEF Revision
<1> HIDE DEF r, before
<1>7. Follows(s, req, r)
  <2>1. ActionOf(req.kind) = "CORRECTED" /\ req.kind # "SUBMIT"
    BY <1>1 DEF ActionOf
  <2>2. Complete(req.answers) /\ req.answers \in GuestAnswers
    BY DEF GuestCorrect
  <2> QED BY <1>1, <1>2, <1>4, <1>5, <1>6, <2>1, <2>2, KeepsLink DEF before
<1> QED BY <1>1, <1>3, <1>7, RevisionStep DEF Is

\* What staff reported of a repair is kept in answers of the same kind.
LEMMA RepairsTyped ==
    ASSUME NEW s \in Submissions, NEW requested \in Answers, Latest(s).answers \in Answers
    PROVE  /\ WithRepairs(s, requested) \in Answers
           /\ Complete(requested) => Complete(WithRepairs(s, requested))
           /\ subs[s].type # "MAINTENANCE" => WithRepairs(s, requested) = requested
<1> DEFINE before == Latest(s).answers
           Kept2(i) == IF Abnormal(requested, i) /\ Abnormal(before, i)
                       THEN [requested[i] EXCEPT !.repair = before[i].repair] ELSE requested[i]
<1>1. ASSUME NEW i \in Items
      PROVE  Kept2(i) \in {None, Normal} \cup AbnormalAnswers /\ (requested[i] # None => Kept2(i) # None)
  <2>1. requested[i] \in {None, Normal} \cup AbnormalAnswers /\ before[i] \in {None, Normal} \cup AbnormalAnswers
    BY DEF Answers
  <2>2. CASE Abnormal(requested, i) /\ Abnormal(before, i)
    <3>1. requested[i] \in AbnormalAnswers /\ before[i] \in AbnormalAnswers
      BY <2>1, <2>2 DEF Abnormal
    <3>2. [requested[i] EXCEPT !.repair = before[i].repair] \in AbnormalAnswers
      BY <3>1 DEF AbnormalAnswers
    <3>3. None \notin AbnormalAnswers
      BY NoneIsNoRevision
    <3> QED BY <2>2, <3>2, <3>3
  <2>3. CASE ~(Abnormal(requested, i) /\ Abnormal(before, i))
    BY <2>1, <2>3
  <2> QED BY <2>2, <2>3
<1> HIDE DEF Kept2
<1>2. [i \in Items |-> Kept2(i)] \in Answers /\ (Complete(requested) => Complete([i \in Items |-> Kept2(i)]))
  BY <1>1, RequiredAreItems DEF Answers, Complete
<1>3. /\ WithRepairs(s, requested) = requested \/ WithRepairs(s, requested) = [i \in Items |-> Kept2(i)]
      /\ subs[s].type # "MAINTENANCE" => WithRepairs(s, requested) = requested
  BY DEF WithRepairs, Kept2
<1> QED BY <1>2, <1>3

LEMMA AdminCorrectStep ==
    ASSUME SInv, NEW s \in Submissions, NEW req \in SubmissionRequest, req.by \in Admins, NEW now, AdminCorrect(s, req, now)
    PROVE  SInv'
<1> DEFINE before == Latest(s)
           answers == WithRepairs(s, req.answers)
           photos == Retained(before.photos, answers)
           marks == Kept(s, req) \cup {req}
           r == [before EXCEPT !.action = "CORRECTED", !.by = req.by, !.answers = answers,
                               !.photos = photos, !.marks = marks, !.req = req]
<1>1. UpToRevision(s, req) /\ Is(s, "SUBMITTED") /\ req.kind = "ADMIN" /\ req.answers \in Answers
  BY DEF AdminCorrect, GuestAnswers
<1>2. before \in Revision /\ before.stay = subs[s].stay
  BY <1>1, LatestTyped
<1>3. AddRevision(s, req, r)
  BY <1>2 DEF AdminCorrect, Revision
<1>4. /\ photos \subseteq Photos(answers) /\ photos \subseteq before.photos
      /\ photos \in SUBSET (Items \X {"DEFECT", "REPAIR"})
  BY <1>2 DEF Retained, Revision
<1>5. marks \subseteq before.marks \cup {req} /\ req \in marks /\ marks \in SUBSET SubmissionRequest
  BY <1>2 DEF Kept, Revision
<1>6. answers \in Answers /\ Complete(answers) /\ (OfGuest(s) => answers \in GuestAnswers)
  <2>1. req.answers \in GuestAnswers /\ Complete(req.answers)
    BY DEF AdminCorrect
  <2>2. OfGuest(s) => subs[s].type # "MAINTENANCE"
    BY DEF OfGuest, GuestTypes
  <2> QED BY <1>1, <1>2, <2>1, <2>2, RepairsTyped DEF Revision
<1> HIDE DEF photos, marks, answers
<1>7. r \in Revision
  BY <1>2, <1>4, <1>5, <1>6 DEF Revision
<1>8. /\ r.action = "CORRECTED" /\ r.by = req.by /\ r.answers = answers /\ r.photos = photos
      /\ r.marks = marks /\ r.req = req /\ r.stay = before.stay /\ r.match = before.match
  BY <1>2 DEF Revision
<1> HIDE DEF r, before
<1>9. Follows(s, req, r)
  <2>1. ActionOf(req.kind) = "CORRECTED" /\ req.kind # "SUBMIT"
    BY <1>1 DEF ActionOf
  <2>2. r.by # None
    BY <1>8, NoneIsNoRevision
  <2> QED BY <1>1, <1>2, <1>4, <1>5, <1>6, <1>7, <1>8, <2>1, <2>2, KeepsLink DEF before
<1> QED BY <1>1, <1>3, <1>9, RevisionStep DEF Is

LEMMA StatusStep ==
    ASSUME SInv, NEW s \in Submissions, NEW req \in SubmissionRequest, req.by \in Admins, ChangeSubmissionStatus(s, req)
    PROVE  SInv'
<1> DEFINE before == Latest(s)
           status == IF req.kind = "CANCELLED" THEN "CANCELLED" ELSE "SUBMITTED"
           marks == Kept(s, req) \cup {req}
           r == [before EXCEPT !.action = req.kind, !.by = req.by, !.status = status, !.marks = marks, !.req = req]
<1>1. /\ UpToRevision(s, req) /\ ~Is(s, "DRAFT") /\ req.kind \in {"CANCELLED", "RESTORED"}
  BY DEF ChangeSubmissionStatus, Is
<1>2. before \in Revision /\ before.stay = subs[s].stay
  BY <1>1, LatestTyped
<1>3. AddRevision(s, req, r)
  BY <1>2 DEF ChangeSubmissionStatus, Revision
<1>4. marks \subseteq before.marks \cup {req} /\ req \in marks /\ marks \in SUBSET SubmissionRequest
  BY <1>2 DEF Kept, Revision
<1>5. status \in {"SUBMITTED", "CANCELLED"} /\ (req.kind = "CANCELLED" => status # "SUBMITTED")
  OBVIOUS
<1>6. /\ before.photos \subseteq Photos(before.answers)
      /\ Complete(before.answers) /\ (OfGuest(s) => before.answers \in GuestAnswers)
  BY <1>1, LatestTyped
<1> HIDE DEF marks, status
<1>7. r \in Revision
  BY <1>1, <1>2, <1>4, <1>5 DEF Revision
<1>8. /\ r.action = req.kind /\ r.by = req.by /\ r.answers = before.answers /\ r.photos = before.photos
      /\ r.marks = marks /\ r.req = req /\ r.stay = before.stay /\ r.match = before.match /\ r.status = status
  BY <1>2 DEF Revision
<1> HIDE DEF r, before
<1>9. Follows(s, req, r)
  <2>1. ActionOf(req.kind) = req.kind /\ req.kind # "SUBMIT"
    BY <1>1 DEF ActionOf
  <2>2. r.by # None
    BY <1>8, NoneIsNoRevision
  <2>3. r.action = "RESTORED" \/ r.status # "SUBMITTED"
    BY <1>1, <1>5, <1>8
  <2> QED BY <1>1, <1>2, <1>4, <1>6, <1>7, <1>8, <2>1, <2>2, <2>3, KeepsLink DEF before
<1> QED BY <1>1, <1>3, <1>9, RevisionStep

LEMMA LinkStayStep ==
    ASSUME SInv, NEW s \in Submissions, NEW req \in SubmissionRequest, req.by \in Admins, LinkStay(s, req)
    PROVE  SInv'
<1> DEFINE before == Latest(s)
           match == MatchOf(req)
           r == [before EXCEPT !.action = "CORRECTED", !.by = req.by, !.stay = req.stay, !.match = match,
                               !.marks = {req}, !.req = req]
<1>1. /\ UpToRevision(s, req) /\ Is(s, "SUBMITTED") /\ req.kind = "LINK" /\ ~Private(s)
      /\ req.stay # None => /\ stays[req.stay].revision = req.stayRevision /\ stays[req.stay].fits
                            /\ ~LinkedElsewhere(s, req.stay)
  BY DEF LinkStay
<1>2. before \in Revision
  BY <1>1, LatestTyped
<1>3. AddRevision(s, req, r)
  BY <1>2 DEF LinkStay, LinkRevision
<1>4. /\ match \in StayMatch \cup {None} /\ (match = None <=> req.stay = None)
      /\ match # None => match.stay = req.stay /\ match.revision = req.stayRevision
      /\ req.stay \in Stays \cup {None}
  <2>1. req.stay # None => match \in StayMatch
    BY DEF MatchOf, StayMatch, SubmissionRequest
  <2> QED BY <2>1, NoneIsNoRevision DEF MatchOf, SubmissionRequest
<1>5. /\ before.photos \subseteq Photos(before.answers)
      /\ Complete(before.answers) /\ (OfGuest(s) => before.answers \in GuestAnswers)
  BY <1>1, LatestTyped
<1> HIDE DEF match
<1>6. r \in Revision
  <2>1. {req} \in SUBSET SubmissionRequest
    OBVIOUS
  <2> QED BY <1>2, <1>4, <2>1 DEF Revision
<1>7. /\ r.action = "CORRECTED" /\ r.by = req.by /\ r.answers = before.answers /\ r.photos = before.photos
      /\ r.marks = {req} /\ r.req = req /\ r.stay = req.stay /\ r.match = match /\ r.status = before.status
  BY <1>2 DEF Revision
<1> HIDE DEF r, before
<1>8. Follows(s, req, r)
  <2>1. ActionOf(req.kind) = "CORRECTED" /\ req.kind # "SUBMIT"
    BY <1>1 DEF ActionOf
  <2> QED BY <1>1, <1>4, <1>5, <1>6, <1>7, <2>1 DEF Follows, before
<1> QED BY <1>1, <1>3, <1>8, RevisionStep DEF Is

--------------------------------------------------------------------------------
LEMMA RepeatSubmitStep ==
    ASSUME SInv, NEW s \in Submissions, NEW seen \in views[s], NEW photos, RepeatSubmit(s, seen, photos)
    PROVE  SInv'
<1> DEFINE req == SubmitRequest(seen, photos)
<1>1. /\ RowsTypeOK /\ RecordSound(s) /\ Started(s) /\ ~Is(s, "DRAFT") /\ req \in revisions[s][1].marks
      /\ Reply(s, 1, req, seen.answers) /\ UNCHANGED <<subs, revisions, views, stays>>
  BY DEF SInv, RepeatSubmit, Is
<1>2. revisions[s] \in Seq(Revision) /\ Len(revisions[s]) > 0 /\ revisions[s] # <<>>
  <2>1. revisions[s] \in Seq(Revision) /\ Intact(s) /\ subs[s] \in Submission
    BY <1>1 DEF RowsTypeOK, RecordSound, Started
  <2> QED BY <2>1 DEF Intact, Submission
<1>3. 1 \in 1 .. Len(revisions[s]) /\ RevisionSound(revisions[s], 1) /\ revisions[s][1] \in Revision
  BY <1>1, <1>2, ElementOfSeq DEF RecordSound
<1>4. req = revisions[s][1].req /\ req \in SubmissionRequest
  BY <1>1, <1>3 DEF RevisionSound, Revision
<1>5. req.expected = seen.at
  <2>1. Blank.expected = 0 /\ Blank \in SubmissionRequest
    BY UnansweredTyped DEF Blank, SubmissionRequest, Kinds
  <2> QED BY <2>1 DEF SubmitRequest, SubmissionRequest
<1> HIDE DEF req
<1>6. seen.answers = revisions[s][1].answers
  BY <1>1, <1>2, <1>4, <1>5 DEF RecordSound
<1>7. seen.answers \in Answers
  BY <1>1 DEF RowsTypeOK, View
<1> QED BY <1>1, <1>3, <1>4, <1>6, <1>7, AnswerStep

\* What is looked up was made for the very request: kept marks name earlier revisions.
LEMMA RepeatRequestStep ==
    ASSUME SInv, NEW s \in Submissions, NEW req, RepeatRequest(s, req)
    PROVE  SInv'
<1> DEFINE v == req.expected + 1
           r == revisions[s][v]
<1>1. /\ RowsTypeOK /\ RecordSound(s) /\ Intact(s) /\ Started(s) /\ revisions[s] \in Seq(Revision)
      /\ req.expected \in 1 .. subs[s].revision - 1 /\ subs[s].revision \in Nat
      /\ Recorded(r, req) /\ Reply(s, v, req, r.answers) /\ UNCHANGED <<subs, revisions, views, stays>>
  BY DEF SInv, RepeatRequest, RowsTypeOK, Intact, Started, Submission
<1>2. v \in 1 .. Len(revisions[s]) /\ v > 1 /\ v - 1 = req.expected /\ req.expected \in Nat
  BY <1>1 DEF Intact
<1>3. RevisionSound(revisions[s], v) /\ r \in Revision
  BY <1>1, <1>2, ElementOfSeq DEF RecordSound
<1>4. req \in r.marks /\ r.by = req.by
  BY <1>1 DEF Recorded
<1> HIDE DEF v
<1>5. r.req = req
  <2>1. req = r.req \/ req.expected < v - 1 \/ (req.kind = "SUBMIT" /\ req.by = None)
    BY <1>3, <1>4 DEF RevisionSound
  <2>2. r.by = None => r.marks = {r.req}
    BY <1>2, <1>3 DEF RevisionSound
  <2>3. ~(req.expected < v - 1)
    BY <1>2
  <2> QED BY <1>4, <2>1, <2>2, <2>3
<1>6. req.kind # "SUBMIT"
  BY <1>2, <1>3, <1>5 DEF RevisionSound
<1>7. req \in SubmissionRequest /\ r.answers \in Answers
  BY <1>3, <1>4 DEF Revision
<1> QED BY <1>1, <1>2, <1>5, <1>6, <1>7, AnswerStep

--------------------------------------------------------------------------------
\* The requests that are sent.
LEMMA CorrectionRequests ==
    ASSUME NEW s \in Submissions, NEW e \in 1 .. MaxRevision, NEW now, CorrectionStep(s, e, now)
    PROVE  \E req \in SubmissionRequest : \/ req.by = None /\ GuestCorrect(s, req, now)
                                          \/ req.by \in Admins /\ AdminCorrect(s, req, now)
<1>1. PICK answers \in GuestAnswers, why \in Reasons :
        \/ GuestCorrect(s, [Blank EXCEPT !.kind = "GUEST", !.expected = e, !.answers = answers, !.why = why], now)
        \/ \E a \in Admins :
              AdminCorrect(s, [Blank EXCEPT !.kind = "ADMIN", !.by = a, !.expected = e, !.answers = answers,
                                            !.why = why], now)
  BY DEF CorrectionStep
<1>2. Blank \in SubmissionRequest /\ Blank.by = None /\ e \in Nat /\ answers \in Answers
  BY UnansweredTyped, SubmissionBoundsAreNat DEF Blank, SubmissionRequest, Kinds, GuestAnswers
<1>3. CASE GuestCorrect(s, [Blank EXCEPT !.kind = "GUEST", !.expected = e, !.answers = answers, !.why = why], now)
  <2> DEFINE req == [Blank EXCEPT !.kind = "GUEST", !.expected = e, !.answers = answers, !.why = why]
  <2>1. req \in SubmissionRequest
    BY <1>2 DEF SubmissionRequest, Kinds
  <2>2. req.by = None
    BY <1>2 DEF SubmissionRequest
  <2> HIDE DEF req
  <2>3. GuestCorrect(s, req, now)
    BY <1>3 DEF req
  <2> QED BY <2>1, <2>2, <2>3
<1>4. ASSUME NEW a \in Admins,
             AdminCorrect(s, [Blank EXCEPT !.kind = "ADMIN", !.by = a, !.expected = e, !.answers = answers,
                                           !.why = why], now)
      PROVE  \E req \in SubmissionRequest : req.by \in Admins /\ AdminCorrect(s, req, now)
  <2> DEFINE req == [Blank EXCEPT !.kind = "ADMIN", !.by = a, !.expected = e, !.answers = answers, !.why = why]
  <2>1. req \in SubmissionRequest
    BY <1>2 DEF SubmissionRequest, Kinds
  <2>2. req.by = a
    BY <1>2 DEF SubmissionRequest
  <2> HIDE DEF req
  <2>3. AdminCorrect(s, req, now)
    BY <1>4 DEF req
  <2> QED BY <2>1, <2>2, <2>3
<1> QED BY <1>1, <1>3, <1>4

LEMMA AdministrationRequests ==
    ASSUME NEW s \in Submissions, NEW e \in 1 .. MaxRevision, AdministrationStep(s, e)
    PROVE  \E req \in SubmissionRequest : req.by \in Admins /\ (ChangeSubmissionStatus(s, req) \/ LinkStay(s, req))
<1>1. Blank \in SubmissionRequest /\ e \in Nat
  BY UnansweredTyped, SubmissionBoundsAreNat DEF Blank, SubmissionRequest, Kinds
<1>2. ASSUME NEW a \in Admins, NEW why \in Reasons, NEW kind \in {"CANCELLED", "RESTORED"},
             ChangeSubmissionStatus(s, [Blank EXCEPT !.kind = kind, !.by = a, !.expected = e, !.why = why])
      PROVE  \E req \in SubmissionRequest : req.by \in Admins /\ (ChangeSubmissionStatus(s, req) \/ LinkStay(s, req))
  <2> DEFINE req == [Blank EXCEPT !.kind = kind, !.by = a, !.expected = e, !.why = why]
  <2>1. req \in SubmissionRequest
    BY <1>1 DEF SubmissionRequest, Kinds
  <2>2. req.by = a
    BY <1>1 DEF SubmissionRequest
  <2> HIDE DEF req
  <2>3. ChangeSubmissionStatus(s, req)
    BY <1>2 DEF req
  <2> QED BY <2>1, <2>2, <2>3
<1>3. ASSUME NEW a \in Admins, NEW why \in Reasons, NEW x \in Stays \cup {None}, NEW n \in 0 .. MaxRevision,
             LinkStay(s, [Blank EXCEPT !.kind = "LINK", !.by = a, !.expected = e, !.stay = x,
                                       !.stayRevision = n, !.why = why])
      PROVE  \E req \in SubmissionRequest : req.by \in Admins /\ (ChangeSubmissionStatus(s, req) \/ LinkStay(s, req))
  <2> DEFINE req == [Blank EXCEPT !.kind = "LINK", !.by = a, !.expected = e, !.stay = x,
                                  !.stayRevision = n, !.why = why]
  <2>1. n \in Nat
    BY SubmissionBoundsAreNat
  <2>2. req \in SubmissionRequest
    BY <1>1, <2>1 DEF SubmissionRequest, Kinds
  <2>3. req.by = a
    BY <1>1 DEF SubmissionRequest
  <2> HIDE DEF req
  <2>4. LinkStay(s, req)
    BY <1>3 DEF req
  <2> QED BY <2>2, <2>3, <2>4
<1> QED BY <1>2, <1>3 DEF AdministrationStep

\* Issues go on beside the checklists.
LEMMA AsideKeeps == ASSUME SInv, UNCHANGED subVars PROVE SInv'
<1>1. /\ RowsTypeOK' /\ ConfirmedAsAsked'
      /\ \A x \in Stays : StaySound(x)'
      /\ \A a, b \in Submissions : Excused(a, b)'
  BY DEF SInv, subVars, RowsTypeOK, ConfirmedAsAsked, StaySound, Excused, LinkedTwice, Is, Started, Private, Restored
<1>2. \A s \in Submissions : RecordSound(s)' /\ LinkSound(s)'
  BY SameRecord, SameLink DEF SInv, subVars
<1> QED BY <1>1, <1>2 DEF SInv

LEMMA NextSInv == ASSUME SInv, [Next]_vars PROVE SInv'
<1>1. ASSUME NEW s \in Submissions, NEW now \in 0 .. MaxClock, DraftStep(s, now) PROVE SInv'
  BY <1>1, StartDraftStep, SaveDraftStep, SubmitStep DEF DraftStep
<1>2. ASSUME NEW s \in Submissions, Retry(s) PROVE SInv'
  BY <1>2, RepeatSubmitStep, RepeatRequestStep DEF Retry
<1>3. ASSUME NEW s \in Submissions, NEW e \in 1 .. MaxRevision, NEW now, CorrectionStep(s, e, now) PROVE SInv'
  BY <1>3, CorrectionRequests, GuestCorrectStep, AdminCorrectStep
<1>4. ASSUME NEW s \in Submissions, NEW e \in 1 .. MaxRevision, AdministrationStep(s, e) PROVE SInv'
  BY <1>4, AdministrationRequests, StatusStep, LinkStayStep
<1>5. ASSUME NEW x \in Stays, StayStep(x) PROVE SInv'
  BY <1>5, StayStepKeeps
<1>6. CASE (IssuesNext /\ UNCHANGED subVars) \/ UNCHANGED vars
  BY <1>6, AsideKeeps DEF vars
<1> QED BY <1>1, <1>2, <1>3, <1>4, <1>5, <1>6 DEF Next

\* The strengthening: rows are what their latest revisions say, marks that a revision keeps name
\* earlier ones, and the invitation of a private link is one that was issued.
THEOREM SubmissionsInvariant == Spec => []SInv
<1> QED BY InitSInv, NextSInv, PTL DEF Spec

\* The row of a checklist is what its latest revision says, revisions follow each other, and no
\* photo comes back or outlives its answer (addRevision(), createCorrectedSnapshot()).
THEOREM RecordsMatchRevisions == Spec => []RecordMatchesRevision
<1>1. SInv => RecordMatchesRevision
  BY DEF SInv, RecordSound, RevisionSound, RecordMatchesRevision
<1> QED BY <1>1, SubmissionsInvariant, PTL

\* Success is reported only of the revision that was made for the request, however late and after
\* whatever other revisions it is repeated (readRetry(), the marks of snapshots).
THEOREM AnswersAreForTheirRequest == Spec => []ConfirmedAsAsked
<1>1. SInv => ConfirmedAsAsked
  BY DEF SInv
<1> QED BY <1>1, SubmissionsInvariant, PTL

\* A linked checklist shows a reservation as it was when it was chosen, and two that came by QR
\* code share one only after a restoration (linkStay(), resolvePrivateSubmission()).
THEOREM LinksStayDeliberate == Spec => []LinksAreDeliberate
<1>1. ASSUME SInv PROVE LinksAreDeliberate
  <2>1. ASSUME NEW s \in Submissions, Started(s), ~Is(s, "DRAFT")
        PROVE  /\ (Latest(s).match = None) = (subs[s].stay = None)
               /\ Latest(s).match # None => /\ Latest(s).match.stay = subs[s].stay
                                            /\ Latest(s).match.revision <= stays[Latest(s).match.stay].revision
    BY <1>1, <2>1 DEF SInv, LinkSound
  <2>2. ASSUME NEW s \in Submissions, Started(s), ~Is(s, "DRAFT"), Private(s), Accessible(s)
        PROVE  Latest(s).match.revision = stays[Latest(s).match.stay].revision
    <3>1. /\ LinkSound(s) /\ subs[s].stay \in Stays /\ subs[s].stay # None
          /\ stays[subs[s].stay].issuedFor = stays[subs[s].stay].revision
          /\ stays[subs[s].stay].link = subs[s].link
      BY <1>1, <2>2, NoneIsNoSubmission DEF SInv, LinkSound, Accessible, Invited
    <3>2. Latest(s).match # None /\ Latest(s).match.stay = subs[s].stay
      BY <2>2, <3>1 DEF LinkSound
    <3> QED BY <2>2, <3>1, <3>2 DEF LinkSound
  <2>3. \A s, d \in Submissions : LinkedTwice(s, d) => \E r \in {s, d} : Private(r) \/ Restored(r)
    BY <1>1 DEF SInv, Excused
  <2> QED BY <2>1, <2>2, <2>3 DEF LinksAreDeliberate
<1> QED BY <1>1, SubmissionsInvariant, PTL

--------------------------------------------------------------------------------
\* A private checklist keeps its reservation and the version of its link.
PrivateKept ==
    \A s \in Submissions : Private(s) => Started(s)' /\ subs'[s].stay = subs[s].stay /\ subs'[s].link = subs[s].link

LEMMA RowKept ==
    ASSUME SInv, NEW s \in Submissions, NEW row, subs' = [subs EXCEPT ![s] = row],
           Private(s) => row # None /\ row.stay = subs[s].stay /\ row.link = subs[s].link
    PROVE  PrivateKept
<1>1. subs'[s] = row /\ \A d \in Submissions \ {s} : subs'[d] = subs[d]
  BY DEF SInv, RowsTypeOK
<1> QED BY <1>1 DEF PrivateKept, Private, Started

LEMMA RevisionKept ==
    ASSUME SInv, NEW s \in Submissions, NEW req, NEW r, UpToRevision(s, req), AddRevision(s, req, r),
           Private(s) => r.stay = subs[s].stay,
           r.status \in {"SUBMITTED", "CANCELLED"}, r.answers \in Answers
    PROVE  PrivateKept
<1> DEFINE n == subs[s].revision + 1
           row == [subs[s] EXCEPT !.status = r.status, !.answers = r.answers, !.stay = r.stay, !.revision = n]
<1>1. subs[s] \in Submission /\ n \in Nat
  BY LatestTyped DEF Submission
<1>2. subs' = [subs EXCEPT ![s] = row]
  BY <1>1 DEF AddRevision, SInv, RowsTypeOK
<1> HIDE DEF n
<1>3. row.stay = r.stay /\ row.link = subs[s].link
  BY <1>1 DEF Submission
<1>4. Private(s) => row # None
  <2> SUFFICES ASSUME Private(s) PROVE row \in Submission
    BY NoneIsNoRevision
  <2>1. r.stay \in Stays \cup {None}
    BY <1>1 DEF Submission
  <2> QED BY <1>1, <2>1 DEF Submission
<1> HIDE DEF row
<1> QED BY <1>2, <1>3, <1>4, RowKept

LEMMA NextKeepsPrivate == ASSUME SInv, [Next]_vars PROVE PrivateKept
<1>1. ASSUME NEW s \in Submissions, NEW now \in 0 .. MaxClock, DraftStep(s, now) PROVE PrivateKept
  <2>1. ASSUME NEW type \in Types, NEW x \in Stays \cup {None}, StartDraft(s, type, x, now) PROVE PrivateKept
    <3>1. ~Private(s)
      BY <2>1 DEF StartDraft, Private
    <3> DEFINE row == [type |-> type, status |-> "DRAFT", answers |-> Unanswered, revision |-> 0, stay |-> x,
                       updatedAt |-> now, link |-> IF x = None THEN 0 ELSE stays[x].link]
    <3>2. subs' = [subs EXCEPT ![s] = row]
      BY <2>1 DEF StartDraft
    <3> HIDE DEF row
    <3> QED BY <3>1, <3>2, RowKept
  <2>2. ASSUME NEW seen \in views[s], NEW answers \in Answers, SaveDraft(s, seen, answers, now) PROVE PrivateKept
    <3> DEFINE at == Later(now, subs[s].updatedAt)
               row == [subs[s] EXCEPT !.answers = answers, !.updatedAt = at]
    <3>1. subs[s] \in Submission /\ subs' = [subs EXCEPT ![s] = row]
      BY <2>2 DEF SaveDraft, SInv, RowsTypeOK, Is, Started
    <3>2. at \in Nat
      <4>1. now \in Nat /\ subs[s].updatedAt \in Nat
        BY <3>1, SubmissionBoundsAreNat DEF Submission
      <4> QED BY <4>1 DEF Later
    <3> HIDE DEF at
    <3>3. row \in Submission /\ row.stay = subs[s].stay /\ row.link = subs[s].link
      BY <3>1, <3>2 DEF Submission
    <3> HIDE DEF row
    <3> QED BY <3>1, <3>3, NoneIsNoRevision, RowKept
  <2>3. ASSUME NEW seen \in views[s], NEW photos, SubmitChecklist(s, seen, photos, now) PROVE PrivateKept
    <3> DEFINE at == Later(now, subs[s].updatedAt)
               row == [subs[s] EXCEPT !.status = "SUBMITTED", !.revision = 1, !.updatedAt = at]
    <3>1. subs[s] \in Submission /\ subs' = [subs EXCEPT ![s] = row]
      BY <2>3 DEF SubmitChecklist, SInv, RowsTypeOK, Is, Started
    <3>2. at \in Nat
      <4>1. now \in Nat /\ subs[s].updatedAt \in Nat
        BY <3>1, SubmissionBoundsAreNat DEF Submission
      <4> QED BY <4>1 DEF Later
    <3> HIDE DEF at
    <3>3. row \in Submission /\ row.stay = subs[s].stay /\ row.link = subs[s].link
      BY <3>1, <3>2 DEF Submission
    <3> HIDE DEF row
    <3> QED BY <3>1, <3>3, NoneIsNoRevision, RowKept
  <2> QED BY <1>1, <2>1, <2>2, <2>3 DEF DraftStep
<1>2. ASSUME NEW s \in Submissions, NEW req \in SubmissionRequest, NEW now, GuestCorrect(s, req, now)
      PROVE  PrivateKept
  <2> DEFINE photos == Retained(Latest(s).photos, req.answers)
             r == [Latest(s) EXCEPT !.action = "CORRECTED", !.by = None, !.answers = req.answers,
                                    !.photos = photos, !.marks = {req}, !.req = req]
  <2>1. UpToRevision(s, req) /\ req.answers \in Answers
    BY <1>2 DEF GuestCorrect, GuestAnswers
  <2>2. Latest(s) \in Revision /\ Latest(s).stay = subs[s].stay
    BY <2>1, LatestTyped
  <2>3. AddRevision(s, req, r)
    BY <1>2, <2>2 DEF GuestCorrect, Revision
  <2> HIDE DEF photos
  <2>4. r.stay = Latest(s).stay /\ r.status = Latest(s).status /\ r.answers = req.answers
    BY <2>2 DEF Revision
  <2>5. Latest(s).status \in {"SUBMITTED", "CANCELLED"}
    BY <2>2 DEF Revision
  <2> HIDE DEF r
  <2> QED BY <2>1, <2>2, <2>3, <2>4, <2>5, RevisionKept
<1>3. ASSUME NEW s \in Submissions, NEW req \in SubmissionRequest, NEW now, AdminCorrect(s, req, now)
      PROVE  PrivateKept
  <2> DEFINE answers == WithRepairs(s, req.answers)
             photos == Retained(Latest(s).photos, answers)
             marks == Kept(s, req) \cup {req}
             r == [Latest(s) EXCEPT !.action = "CORRECTED", !.by = req.by, !.answers = answers,
                                    !.photos = photos, !.marks = marks, !.req = req]
  <2>1. UpToRevision(s, req) /\ req.answers \in Answers
    BY <1>3 DEF AdminCorrect, GuestAnswers
  <2>2. Latest(s) \in Revision /\ Latest(s).stay = subs[s].stay
    BY <2>1, LatestTyped
  <2>3. AddRevision(s, req, r)
    BY <1>3, <2>2 DEF AdminCorrect, Revision
  <2>4. answers \in Answers
    BY <2>1, <2>2, RepairsTyped DEF Revision
  <2> HIDE DEF photos, marks, answers
  <2>5. r.stay = Latest(s).stay /\ r.status = Latest(s).status /\ r.answers = answers
    BY <2>2 DEF Revision
  <2>6. Latest(s).status \in {"SUBMITTED", "CANCELLED"}
    BY <2>2 DEF Revision
  <2> HIDE DEF r
  <2> QED BY <2>1, <2>2, <2>3, <2>4, <2>5, <2>6, RevisionKept
<1>4. ASSUME NEW s \in Submissions, NEW req, ChangeSubmissionStatus(s, req) PROVE PrivateKept
  <2> DEFINE status == IF req.kind = "CANCELLED" THEN "CANCELLED" ELSE "SUBMITTED"
             marks == Kept(s, req) \cup {req}
             r == [Latest(s) EXCEPT !.action = req.kind, !.by = req.by, !.status = status, !.marks = marks,
                                    !.req = req]
  <2>1. UpToRevision(s, req) /\ status \in {"SUBMITTED", "CANCELLED"}
    BY <1>4 DEF ChangeSubmissionStatus
  <2>2. Latest(s) \in Revision /\ Latest(s).stay = subs[s].stay
    BY <2>1, LatestTyped
  <2>3. AddRevision(s, req, r)
    BY <1>4, <2>2 DEF ChangeSubmissionStatus, Revision
  <2> HIDE DEF marks, status
  <2>4. r.stay = Latest(s).stay /\ r.status = status /\ r.answers = Latest(s).answers
    BY <2>2 DEF Revision
  <2>5. Latest(s).answers \in Answers
    BY <2>2 DEF Revision
  <2> HIDE DEF r
  <2> QED BY <2>1, <2>2, <2>3, <2>4, <2>5, RevisionKept
<1>5. ASSUME NEW s \in Submissions, NEW req, LinkStay(s, req) PROVE PrivateKept
  <2> DEFINE match == MatchOf(req)
             r == [Latest(s) EXCEPT !.action = "CORRECTED", !.by = req.by, !.stay = req.stay, !.match = match,
                                    !.marks = {req}, !.req = req]
  <2>1. UpToRevision(s, req) /\ ~Private(s)
    BY <1>5 DEF LinkStay
  <2>2. Latest(s) \in Revision
    BY <2>1, LatestTyped
  <2>3. AddRevision(s, req, r)
    BY <1>5, <2>2 DEF LinkStay, LinkRevision, Revision
  <2> HIDE DEF match
  <2>4. r.status = Latest(s).status /\ r.answers = Latest(s).answers
    BY <2>2 DEF Revision
  <2>5. Latest(s).answers \in Answers /\ Latest(s).status \in {"SUBMITTED", "CANCELLED"}
    BY <2>2 DEF Revision
  <2> HIDE DEF r
  <2> QED BY <2>1, <2>3, <2>4, <2>5, RevisionKept
<1>6. ASSUME UNCHANGED subs PROVE PrivateKept
  BY <1>6 DEF PrivateKept, Private, Started
<1>7. ASSUME NEW s \in Submissions, Retry(s) PROVE PrivateKept
  BY <1>6, <1>7 DEF Retry, RepeatSubmit, RepeatRequest
<1>8. ASSUME NEW x \in Stays, StayStep(x) PROVE PrivateKept
  BY <1>6, <1>8 DEF StayStep, IssueLink, RevokeLink, ReviseStay, Elapse
<1>9. CASE (IssuesNext /\ UNCHANGED subVars) \/ UNCHANGED vars
  BY <1>6, <1>9 DEF vars, subVars
<1>10. ASSUME NEW s \in Submissions, NEW e \in 1 .. MaxRevision, NEW now, CorrectionStep(s, e, now) PROVE PrivateKept
  BY <1>2, <1>3, <1>10, CorrectionRequests
<1>11. ASSUME NEW s \in Submissions, NEW e \in 1 .. MaxRevision, AdministrationStep(s, e) PROVE PrivateKept
  BY <1>4, <1>5, <1>11, AdministrationRequests
<1> QED BY <1>1, <1>7, <1>8, <1>9, <1>10, <1>11 DEF Next

LEMMA NextGrowsStays == ASSUME SInv, [Next]_vars PROVE StaysGrow
<1>1. \A x \in Stays : stays[x].link \in Nat /\ stays[x].revision \in Nat
  BY DEF SInv, RowsTypeOK, Stay
<1>2. ASSUME UNCHANGED stays PROVE StaysGrow
  BY <1>1, <1>2 DEF StaysGrow
<1>3. ASSUME NEW x \in Stays, StayStep(x) PROVE StaysGrow
  BY <1>3, StayStepKeeps
<1>4. CASE (IssuesNext /\ UNCHANGED subVars) \/ UNCHANGED vars
  BY <1>2, <1>4 DEF vars, subVars
<1>5. CASE \E s \in Submissions, now \in 0 .. MaxClock : DraftStep(s, now)
  <2>1. ASSUME NEW s, NEW type, NEW x, NEW now, StartDraft(s, type, x, now) PROVE UNCHANGED stays
    BY <2>1 DEF StartDraft
  <2>2. ASSUME NEW s, NEW seen, NEW answers, NEW now, SaveDraft(s, seen, answers, now) PROVE UNCHANGED stays
    BY <2>2 DEF SaveDraft
  <2>3. ASSUME NEW s, NEW seen, NEW photos, NEW now, SubmitChecklist(s, seen, photos, now)
        PROVE UNCHANGED stays
    BY <2>3 DEF SubmitChecklist
  <2>4. UNCHANGED stays
    BY <1>5, <2>1, <2>2, <2>3, Zenon DEF DraftStep
  <2> QED BY <1>2, <2>4
<1>6. CASE \E s \in Submissions : Retry(s)
  BY <1>2, <1>6 DEF Retry, RepeatSubmit, RepeatRequest
<1>7. CASE \E s \in Submissions, e \in 1 .. MaxRevision, now \in 0 .. MaxTime : CorrectionStep(s, e, now)
  BY <1>2, <1>7, CorrectionRequests DEF GuestCorrect, AdminCorrect, AddRevision
<1>8. CASE \E s \in Submissions, e \in 1 .. MaxRevision : AdministrationStep(s, e)
  BY <1>2, <1>8, AdministrationRequests DEF ChangeSubmissionStatus, LinkStay, AddRevision
<1> QED BY <1>3, <1>4, <1>5, <1>6, <1>7, <1>8 DEF Next

\* A private link never opens again once its invitation is replaced or revoked, or its
\* reservation is revised, whatever happens afterwards (assertEnabled(), resolveLinkedStay()).
THEOREM InvitationsStayClosedForGood == Spec => InvitationsStayClosed
<1> DEFINE Closed == \A s \in Submissions : Private(s) /\ Lost(s) => ~Accessible(s)'
<1>1. ASSUME SInv, [Next]_vars PROVE Closed
  <2> SUFFICES ASSUME NEW s \in Submissions, Private(s), Lost(s), Accessible(s)' PROVE FALSE
    OBVIOUS
  <2> DEFINE x == subs[s].stay
  <2>1. /\ x \in Stays /\ StaySound(x) /\ subs[s].link <= stays[x].link
        /\ subs[s].link \in Nat /\ stays[x] \in Stay
    BY <1>1 DEF SInv, LinkSound, RowsTypeOK, Private, Started, Submission
  <2>2. StaysGrow /\ PrivateKept /\ SInv'
    BY <1>1, NextGrowsStays, NextKeepsPrivate, NextSInv
  <2>3. Private(s)' /\ subs'[s].stay = x /\ subs'[s].link = subs[s].link
    BY <2>2 DEF PrivateKept, Private
  <2>4. stays'[x].issuedFor = stays'[x].revision /\ stays'[x].link = subs[s].link
    BY <2>3 DEF Accessible, Invited
  <2>5. stays'[x] \in Stay
    BY <2>1, <2>2 DEF SInv, RowsTypeOK
  <2>6. stays[x].link \in Nat /\ stays[x].revision \in Nat /\ stays[x].issuedFor \in Nat /\ stays'[x].revision \in Nat
        /\ stays'[x].link \in Nat
    BY <2>1, <2>5 DEF Stay
  <2>7. /\ stays'[x].link >= stays[x].link /\ stays'[x].revision >= stays[x].revision
        /\ stays'[x].link = stays[x].link => stays'[x].issuedFor = stays[x].issuedFor
    BY <2>1, <2>2 DEF StaysGrow
  <2>8. stays[x].link = subs[s].link
    BY <2>1, <2>4, <2>6, <2>7
  <2>9. stays[x].revision # stays[x].issuedFor
    BY <2>8 DEF Lost
  <2> QED BY <2>1, <2>4, <2>6, <2>7, <2>8, <2>9 DEF StaySound
<1>2. SInv /\ [Next]_vars => [Closed]_vars
  BY <1>1
<1>3. [][Closed]_vars => InvitationsStayClosed
  BY DEF InvitationsStayClosed
<1> HIDE DEF Closed
<1> QED BY SubmissionsInvariant, <1>2, <1>3, PTL DEF Spec

--------------------------------------------------------------------------------
\* Checklists write issues, too: what recordIssues() leaves of each issue.
Untouched(j) == issues'[j] = issues[j] /\ events'[j] = events[j]
Opens(j, version, text) ==
    /\ ~Reported(j) /\ Reported(j)' /\ issues'[j].text = text
    /\ \A v \in 1 .. Len(events'[j]) : events'[j][v].type # "UPDATED" /\ events'[j][v].revision = version
Updates(j, version, text) ==
    /\ Reported(j) /\ Reported(j)' /\ issues'[j].text = text
    /\ Len(events'[j]) = Len(events[j]) + 1 /\ Grows(j)
    /\ events'[j][Len(events[j]) + 1].type = "UPDATED" /\ events'[j][Len(events[j]) + 1].revision = version
ItemRecorded(s, i, version, before, after) ==
    LET j == <<s, i>>
    IN \/ Untouched(j) /\ (before[i] = after[i] \/ (~Reported(j) /\ ~Abnormal(after, i)))
       \/ before[i] # after[i] /\ Abnormal(after, i) /\ Opens(j, version, after[i].text)
       \/ before[i] # after[i] /\ Updates(j, version, IF Abnormal(after, i) THEN after[i].text ELSE issues[j].text)

LEMMA ChecklistRequestTyped ==
    ASSUME IInv, NEW j \in IssueIds, NEW by \in Admins \cup {None}
    PROVE  /\ ChecklistRequest(j, by) \in IssueRequest /\ ChecklistRequest(j, by).by = by
           /\ ChecklistRequest(j, by).expected = IF Reported(j) THEN issues[j].version ELSE 0
<1>1. Reported(j) => issues[j].version \in Nat
  BY DEF IInv, IssuesTypeOK, Reported, Issue
<1>2. (IF Reported(j) THEN issues[j].version ELSE 0) \in Nat
  BY <1>1
<1> QED BY <1>2 DEF ChecklistRequest, IssueRequest

\* An issue that a checklist opens.
LEMMA OpenedIssue ==
    ASSUME IInv, NEW j \in ChecklistIds, ~Reported(j), NEW answer \in AbnormalAnswers, NEW version \in Nat \ {0},
           NEW by, NEW now \in Nat, issues'[j] = Opened(answer, now), events'[j] = OpeningEvents(j, answer, version, by, now)
    PROVE  /\ IssueStep(j) /\ Opens(j, version, answer.text)
           /\ issues'[j] \in Issue /\ events'[j] \in Seq(Event)
<1> DEFINE req == ChecklistRequest(j, None)
           first == NewIssue(answer.text, answer.urgent, now)
           row == Opened(answer, now)
           report == ReportEvent(first, version, req)
           repaired == [type |-> "REPAIR_REPORTED", from |-> "NEW", to |-> "NEW", revision |-> version,
                        req |-> req, snapshot |-> row]
           history == OpeningEvents(j, answer, version, by, now)
<1>1. j \in IssueIds /\ j \notin GuestKeys /\ None # j
  BY KeysAreApart, NoneIsNoIssue DEF IssueIds
<1>2. req \in IssueRequest /\ req.by = None
  BY <1>1, ChecklistRequestTyped
<1>3. /\ first \in Issue /\ first.version = 1 /\ first.text = answer.text /\ first.status = "NEW"
      /\ first.resolver = None /\ first.recurrenceOf = None
  <2>1. answer.text \in Texts /\ answer.urgent \in BOOLEAN
    BY DEF AbnormalAnswers
  <2> QED BY <2>1 DEF NewIssue, Issue, Statuses
<1>4. answer.repair \in BOOLEAN
  BY DEF AbnormalAnswers
<1>5. /\ row \in Issue /\ row.version = (IF answer.repair THEN 2 ELSE 1) /\ row.text = answer.text
      /\ row.status = "NEW" /\ row.resolver = None /\ row.recurrenceOf = None
      /\ ~answer.repair => row = first
  <2>1. row = [first EXCEPT !.version = IF answer.repair THEN 2 ELSE 1]
    BY DEF Opened
  <2> HIDE DEF row, first
  <2> QED BY <1>3, <1>4, <2>1 DEF Issue
<1>6. /\ report.snapshot = first /\ report.to = "NEW" /\ report.from = None /\ report.req = req
      /\ report.type = "REPORTED" /\ report.revision = version
  BY DEF ReportEvent
<1>7. /\ repaired.snapshot = row /\ repaired.to = "NEW" /\ repaired.from = "NEW" /\ repaired.req = req
      /\ repaired.type = "REPAIR_REPORTED" /\ repaired.revision = version
  OBVIOUS
<1>8. report \in Event /\ repaired \in Event
  <2> HIDE DEF first, req, row
  <2> QED BY <1>2, <1>3, <1>5 DEF ReportEvent, Event, EventTypes, Statuses
<1>9. history = <<report>> \o (IF answer.repair THEN <<repaired>> ELSE <<>>)
  BY DEF OpeningEvents
<1> HIDE DEF history, repaired, report, first, row, req
<1>10. /\ history \in Seq(Event) /\ Len(history) = (IF answer.repair THEN 2 ELSE 1) /\ history[1] = report
       /\ answer.repair => history[2] = repaired
  <2>1. CASE answer.repair
    <3>1. <<report>> \in Seq(Event) /\ <<repaired>> \in Seq(Event) /\ Len(<<report>>) = 1 /\ Len(<<repaired>>) = 1
      BY <1>8
    <3>2. history = <<report>> \o <<repaired>>
      BY <1>9, <2>1
    <3> QED BY <2>1, <3>1, <3>2, ConcatProperties
  <2>2. CASE ~answer.repair
    <3>1. <<report>> \in Seq(Event)
      BY <1>8
    <3>2. history = <<report>>
      BY <1>9, <2>2, <3>1, ConcatEmptySeq
    <3> QED BY <2>2, <3>1, <3>2
  <2> QED BY <2>1, <2>2
<1>11. \A v \in 1 .. Len(history) : v = 1 \/ (v = 2 /\ answer.repair)
  BY <1>10
<1>12. /\ Len(history) = row.version /\ row.version # 0 /\ history[row.version].snapshot = row
  BY <1>4, <1>5, <1>6, <1>7, <1>10
<1>13. \A v \in 1 .. Len(history) :
          LET e == history[v]
          IN /\ e.snapshot.version = v /\ e.to = e.snapshot.status
             /\ e.from = (IF v = 1 THEN None ELSE history[v - 1].to)
             /\ e.req.by = None /\ RowParses(j, e.snapshot)
             /\ e.type = "REPORTED" <=> v = 1
             /\ v = 1 => e.to = "NEW"
             /\ e.revision # 0 <=> j \in ChecklistIds
             /\ e.type # "UPDATED" /\ e.revision = version
  <2> SUFFICES ASSUME NEW v \in 1 .. Len(history)
               PROVE  LET e == history[v]
                      IN /\ e.snapshot.version = v /\ e.to = e.snapshot.status
                         /\ e.from = (IF v = 1 THEN None ELSE history[v - 1].to)
                         /\ e.req.by = None /\ RowParses(j, e.snapshot)
                         /\ e.type = "REPORTED" <=> v = 1
                         /\ v = 1 => e.to = "NEW"
                         /\ e.revision # 0 <=> j \in ChecklistIds
                         /\ e.type # "UPDATED" /\ e.revision = version
    OBVIOUS
  <2>1. CASE v = 1
    BY <1>1, <1>2, <1>3, <1>6, <1>10, <2>1 DEF RowParses
  <2>2. CASE v = 2 /\ answer.repair
    <3>1. history[v] = repaired /\ v # 1 /\ v - 1 = 1 /\ history[v - 1] = report
      BY <1>10, <2>2
    <3> QED BY <1>1, <1>2, <1>5, <1>6, <1>7, <2>2, <3>1 DEF RowParses
  <2> QED BY <1>11, <2>1, <2>2
<1>14. events'[j] = history /\ issues'[j] = row
  BY DEF history, row
<1>15. IssueStep(j)
  BY <1>1, <1>5, <1>10, <1>12, <1>13, <1>14, FirstEvents
<1>16. Opens(j, version, answer.text)
  <2>1. row # None
    BY <1>5, NoneIsNoIssue
  <2> QED BY <1>5, <1>13, <1>14, <2>1 DEF Opens, Reported
<1> QED BY <1>5, <1>10, <1>14, <1>15, <1>16

\* An issue that a checklist describes anew.
LEMMA UpdatedIssue ==
    ASSUME IInv, NEW s \in Submissions, NEW i \in Items, NEW version \in Nat, NEW by \in Admins \cup {None},
           NEW after \in Answers, NEW urgency \in BOOLEAN, Readable(<<s, i>>),
           issues'[<<s, i>>] = Reworded(issues[<<s, i>>], after, i, urgency),
           events'[<<s, i>>] = Append(events[<<s, i>>],
              UpdateEvent(<<s, i>>, "UPDATED", version, ChecklistRequest(<<s, i>>, by),
                          Reworded(Current(<<s, i>>), after, i, urgency)))
    PROVE  /\ IssueStep(<<s, i>>) /\ issues'[<<s, i>>] \in Issue /\ events'[<<s, i>>] \in Seq(Event)
           /\ Updates(<<s, i>>, version, IF Abnormal(after, i) THEN after[i].text ELSE issues[<<s, i>>].text)
<1> DEFINE j == <<s, i>>
           r == issues[j]
           text == IF Abnormal(after, i) THEN after[i].text ELSE r.text
           urgent == IF Abnormal(after, i) /\ urgency THEN after[i].urgent ELSE r.urgent
           row == Reworded(r, after, i, urgency)
           req == ChecklistRequest(j, by)
           e == UpdateEvent(j, "UPDATED", version, req, row)
<1>1. j \in ChecklistIds /\ j \in IssueIds
  BY ItemsHaveIssues DEF IssueIds
<1> HIDE DEF j
<1>2. r \in Issue /\ Reported(j) /\ Current(j) = r /\ RowParses(j, r) /\ Readable(j)
  BY <1>1, CurrentParses DEF Readable, Reported, IInv, IssuesTypeOK, j
<1>3. text \in Texts /\ urgent \in BOOLEAN /\ r.version + 1 \in Nat
  <2>1. Abnormal(after, i) => after[i] \in AbnormalAnswers
    BY DEF Abnormal, Answers
  <2> QED BY <1>2, <2>1 DEF AbnormalAnswers, Issue
<1>4. row = [r EXCEPT !.version = r.version + 1, !.text = text, !.urgent = urgent]
  BY <1>2 DEF Reworded, Issue
<1> HIDE DEF text, urgent, row, r
<1>5. /\ row \in Issue /\ row.version = r.version + 1 /\ row.text = text /\ row.status = r.status
      /\ row.resolver = r.resolver /\ row.recurrenceOf = r.recurrenceOf /\ row.reportedAt = r.reportedAt
  BY <1>2, <1>3, <1>4 DEF Issue
<1>6. req \in IssueRequest /\ req.by = by /\ req.expected = r.version
  BY <1>1, <1>2, ChecklistRequestTyped DEF r
<1> HIDE DEF req
<1>7. /\ e.snapshot = row /\ e.to = row.status /\ e.from = r.status /\ e.req = req
      /\ e.type = "UPDATED" /\ e.revision = version
  BY DEF UpdateEvent, r
<1>8. e \in Event
  BY <1>2, <1>5, <1>6 DEF UpdateEvent, Event, EventTypes, Issue, r
<1> HIDE DEF e
<1>9. issues'[j] = e.snapshot /\ events'[j] = Append(events[j], e)
  BY <1>2, <1>7 DEF j, r, row, e, req
<1>10. NextEvent(j, e)
  <2>1. r.recurrenceOf # None => /\ Reported(r.recurrenceOf) /\ r.recurrenceOf \in IssueIds
                                 /\ issues[r.recurrenceOf].reportedAt < r.reportedAt
    BY <1>1, <1>2 DEF IInv, RowIsSound, LinkGoesBack, Issue, r
  <2>2. RowParses(j, row)
    BY <1>2, <1>5 DEF RowParses
  <2> QED BY <1>1, <1>5, <1>6, <1>7, <2>1, <2>2 DEF NextEvent, r
<1>11. /\ IssueStep(j) /\ events'[j] \in Seq(Event)
       /\ Len(events'[j]) = Len(events[j]) + 1 /\ events'[j][Len(events[j]) + 1] = e
  BY <1>1, <1>2, <1>8, <1>9, <1>10, AppendedEvent
<1>12. Updates(j, version, text)
  <2>1. row # None
    BY <1>5, NoneIsNoIssue
  <2>2. Grows(j)
    BY <1>11 DEF IssueStep
  <2> QED BY <1>2, <1>5, <1>7, <1>9, <1>11, <2>1, <2>2 DEF Updates, Reported
<1> QED BY <1>5, <1>7, <1>9, <1>11, <1>12 DEF j, text, r

\* recordIssues() keeps the invariant of issues and leaves each item as ItemRecorded says.
LEMMA IssuesRecorded ==
    ASSUME IInv, NEW s \in Submissions, NEW version \in Nat \ {0}, NEW by \in Admins \cup {None}, NEW before,
           NEW after \in Answers, NEW urgency \in BOOLEAN, NEW now \in Nat,
           RecordIssues(s, version, by, before, after, urgency, now)
    PROVE  /\ IInv'
           /\ \A i \in Items : ItemRecorded(s, i, version, before, after)
           /\ \A j \in IssueIds : (\A i \in Items : j # <<s, i>>) => Untouched(j)
<1> DEFINE changed == {i \in Items : before[i] # after[i]}
           fresh == {<<s, i>> : i \in {i \in changed : ~Reported(<<s, i>>) /\ Abnormal(after, i)}}
           known == {<<s, i>> : i \in {i \in changed : Reported(<<s, i>>)}}
           Told(row, j) == Reworded(row, after, j[2], urgency)
           Row(j) == IF j \in fresh THEN Opened(after[j[2]], now)
                     ELSE IF j \in known THEN Told(issues[j], j) ELSE issues[j]
           History(j) ==
             IF j \in fresh THEN OpeningEvents(j, after[j[2]], version, by, now)
             ELSE IF j \in known
             THEN Append(events[j], UpdateEvent(j, "UPDATED", version, ChecklistRequest(j, by), Told(Current(j), j)))
             ELSE events[j]
<1>1. /\ \A j \in known : Readable(j)
      /\ issues' = [j \in IssueIds |-> Row(j)] /\ events' = [j \in IssueIds |-> History(j)]
      /\ UNCHANGED acks
      /\ (UseFallback \/ UNCHANGED categories)
  BY DEF RecordIssues
<1>2. /\ issues \in [IssueIds -> Issue \cup {None}] /\ events \in [IssueIds -> Seq(Event)]
      /\ categories \in [Categories -> Category \cup {None}]
  BY DEF IInv, IssuesTypeOK
<1>3. \A i \in Items : <<s, i>> \in ChecklistIds /\ <<s, i>> \in IssueIds /\ <<s, i>>[2] = i
  BY ItemsHaveIssues DEF IssueIds
<1>4. \A i \in Items : (<<s, i>> \in fresh <=> i \in changed /\ ~Reported(<<s, i>>) /\ Abnormal(after, i))
                       /\ (<<s, i>> \in known <=> i \in changed /\ Reported(<<s, i>>))
  OBVIOUS
<1>5. \A j \in IssueIds : issues'[j] = Row(j) /\ events'[j] = History(j)
  BY <1>1
<1>6. \A j \in IssueIds : j \notin fresh /\ j \notin known => Untouched(j)
  BY <1>5 DEF Untouched
<1>7. ASSUME NEW i \in Items, <<s, i>> \in fresh
      PROVE  /\ IssueStep(<<s, i>>) /\ issues'[<<s, i>>] \in Issue /\ events'[<<s, i>>] \in Seq(Event)
             /\ Opens(<<s, i>>, version, after[i].text)
  <2>1. ~Reported(<<s, i>>) /\ after[i] \in AbnormalAnswers
    BY <1>4, <1>7 DEF Abnormal, Answers
  <2>2. /\ issues'[<<s, i>>] = Opened(after[i], now)
        /\ events'[<<s, i>>] = OpeningEvents(<<s, i>>, after[i], version, by, now)
    BY <1>3, <1>5, <1>7
  <2> HIDE DEF fresh, known, Row, History
  <2> QED BY <1>3, <2>1, <2>2, OpenedIssue
<1>8. ASSUME NEW i \in Items, <<s, i>> \in known
      PROVE  /\ IssueStep(<<s, i>>) /\ issues'[<<s, i>>] \in Issue /\ events'[<<s, i>>] \in Seq(Event)
             /\ Updates(<<s, i>>, version, IF Abnormal(after, i) THEN after[i].text ELSE issues[<<s, i>>].text)
  <2>1. Readable(<<s, i>>) /\ <<s, i>> \notin fresh
    BY <1>1, <1>4, <1>8
  <2>2. /\ issues'[<<s, i>>] = Reworded(issues[<<s, i>>], after, i, urgency)
        /\ events'[<<s, i>>] = Append(events[<<s, i>>],
              UpdateEvent(<<s, i>>, "UPDATED", version, ChecklistRequest(<<s, i>>, by),
                          Reworded(Current(<<s, i>>), after, i, urgency)))
    BY <1>3, <1>5, <1>8, <2>1
  <2> HIDE DEF fresh, known, Row, History
  <2> QED BY <2>1, <2>2, UpdatedIssue
<1>9. \A i \in Items : i \in changed <=> before[i] # after[i]
  OBVIOUS
<1>10. /\ \A j \in fresh : \E i \in Items : j = <<s, i>>
       /\ \A j \in known : \E i \in Items : j = <<s, i>>
  OBVIOUS
<1> HIDE DEF fresh, known, changed, Row, History
<1>11. ASSUME NEW i \in Items PROVE ItemRecorded(s, i, version, before, after)
  <2>1. CASE <<s, i>> \in fresh
    BY <1>4, <1>7, <1>9, <2>1 DEF ItemRecorded
  <2>2. CASE <<s, i>> \in known
    BY <1>4, <1>8, <1>9, <2>2 DEF ItemRecorded
  <2>3. CASE <<s, i>> \notin fresh /\ <<s, i>> \notin known
    BY <1>3, <1>4, <1>6, <1>9, <2>3 DEF ItemRecorded
  <2> QED BY <2>1, <2>2, <2>3
<1>12. \A j \in IssueIds : (\A i \in Items : j # <<s, i>>) => Untouched(j)
  BY <1>6, <1>10
<1>13. ASSUME NEW j \in IssueIds
       PROVE  /\ IssueStep(j) /\ issues'[j] \in Issue \cup {None} /\ events'[j] \in Seq(Event)
  <2>1. CASE j \in fresh \/ j \in known
    BY <1>7, <1>8, <1>10, <2>1
  <2>2. CASE j \notin fresh /\ j \notin known
    <3>1. issues'[j] = issues[j] /\ events'[j] = events[j]
      BY <1>6, <2>2 DEF Untouched
    <3> QED BY <1>2, <3>1, SameIssue
  <2> QED BY <2>1, <2>2
<1>14. categories' \in [Categories -> Category \cup {None}]
  <2>1. [name |-> Fallback, active |-> TRUE, updatedAt |-> 0] \in Category
    BY FallbackIsName DEF Category
  <2> QED BY <1>1, <1>2, <2>1 DEF UseFallback
<1>15. IssuesTypeOK'
  <2>1. issues' \in [IssueIds -> Issue \cup {None}] /\ events' \in [IssueIds -> Seq(Event)]
    BY <1>1, <1>5, <1>13
  <2> QED BY <1>1, <1>14, <2>1 DEF IInv, IssuesTypeOK
<1>16. IInv'
  BY <1>1, <1>13, <1>15, StepKeeps
<1> QED BY <1>11, <1>12, <1>16

--------------------------------------------------------------------------------
\* A step as histories see it: a revision is added and its answers go to the issues, or they are
\* those of the revision before; or histories stay as they are.
NewRevision(s, r) ==
    /\ revisions'[s] = Append(revisions[s], r)
    /\ \A d \in Submissions \ {s} : revisions'[d] = revisions[d]
AnswersBefore(s) == IF revisions[s] = <<>> THEN Unanswered ELSE Latest(s).answers
AnswersRecorded(s, after) ==
    \E by \in Admins \cup {None}, urgency \in BOOLEAN, now \in Nat :
        RecordIssues(s, Len(revisions[s]) + 1, by, AnswersBefore(s), after, urgency, now)
SameAnswers(s, after) == UNCHANGED issueVars /\ revisions[s] # <<>> /\ after = Latest(s).answers
HistoryStep ==
    \/ \E s \in Submissions, r \in Revision :
          NewRevision(s, r) /\ (AnswersRecorded(s, r.answers) \/ SameAnswers(s, r.answers))
    \/ UNCHANGED revisions /\ (UNCHANGED issueVars \/ IssuesNext)

\* What the row of a checklist with revisions says of its history.
LEMMA LaterRevision ==
    ASSUME SInv, NEW s \in Submissions, NEW req, UpToRevision(s, req)
    PROVE  /\ req.expected = Len(revisions[s]) /\ revisions[s] # <<>> /\ AnswersBefore(s) = Latest(s).answers
           /\ revisions \in [Submissions -> Seq(Revision)]
BY DEF UpToRevision, Intact, SInv, RowsTypeOK, AnswersBefore

LEMMA AddedRevision ==
    ASSUME SInv, NEW s \in Submissions, NEW req, NEW r, UpToRevision(s, req), AddRevision(s, req, r)
    PROVE  NewRevision(s, r) /\ r = revisions'[s][Len(revisions[s]) + 1]
<1>1. revisions[s] \in Seq(Revision) /\ revisions' = [revisions EXCEPT ![s] = Append(@, r)]
  BY LaterRevision DEF AddRevision
<1>2. revisions'[s] = Append(revisions[s], r)
  BY <1>1, LaterRevision
<1> QED BY <1>1, <1>2, LaterRevision DEF NewRevision

LEMMA SubmitAnswers ==
    ASSUME SInv, NEW s \in Submissions, NEW seen \in views[s], NEW photos \in SUBSET Photos(subs[s].answers),
           NEW now \in 0 .. MaxClock, SubmitChecklist(s, seen, photos, now)
    PROVE  HistoryStep
<1> DEFINE req == SubmitRequest(seen, photos)
           r == [action |-> "SUBMITTED", by |-> None, status |-> "SUBMITTED", answers |-> subs[s].answers,
                 photos |-> photos, stay |-> subs[s].stay, match |-> PrivateMatch(s), marks |-> {req},
                 req |-> req]
<1>1. /\ revisions[s] = <<>> /\ revisions \in [Submissions -> Seq(Revision)]
      /\ revisions' \in [Submissions -> Seq(Revision)]
  <2>1. SInv'
    BY SubmitStep
  <2>2. RecordSound(s) /\ Is(s, "DRAFT")
    BY DEF SInv, SubmitChecklist
  <2>3. revisions[s] = <<>>
    BY <2>2 DEF RecordSound
  <2> QED BY <2>1, <2>3 DEF SInv, RowsTypeOK
<1>2. revisions' = [revisions EXCEPT ![s] = <<r>>]
  BY DEF SubmitChecklist
<1>3. r.answers = subs[s].answers
  OBVIOUS
<1> HIDE DEF r
<1>4. r \in Revision
  <2>1. <<r>> \in Seq(Revision)
    BY <1>1, <1>2
  <2> QED BY <2>1, ElementOfSeq
<1>5. NewRevision(s, r)
  BY <1>1, <1>2 DEF NewRevision
<1>6. RecordIssues(s, 1, None, Unanswered, subs[s].answers, TRUE, now)
  BY DEF SubmitChecklist
<1>7. AnswersRecorded(s, r.answers)
  <2>1. Len(revisions[s]) + 1 = 1 /\ AnswersBefore(s) = Unanswered /\ now \in Nat
    BY <1>1, SubmissionBoundsAreNat DEF AnswersBefore
  <2> QED BY <1>3, <1>6, <2>1 DEF AnswersRecorded
<1> QED BY <1>4, <1>5, <1>7 DEF HistoryStep

LEMMA GuestAnswersAgain ==
    ASSUME SInv, NEW s \in Submissions, NEW req \in SubmissionRequest, req.by = None, NEW now \in Nat,
           GuestCorrect(s, req, now)
    PROVE  HistoryStep
<1> DEFINE photos == Retained(Latest(s).photos, req.answers)
           r == [Latest(s) EXCEPT !.action = "CORRECTED", !.by = None, !.answers = req.answers,
                                  !.photos = photos, !.marks = {req}, !.req = req]
<1>1. UpToRevision(s, req) /\ Latest(s) \in Revision /\ req.answers \in Answers
  BY LatestTyped DEF GuestCorrect, SubmissionRequest
<1>2. AddRevision(s, req, r) /\ r.answers = req.answers
  BY <1>1 DEF GuestCorrect, Revision
<1>3. RecordIssues(s, req.expected + 1, None, Latest(s).answers, req.answers, TRUE, now)
  BY DEF GuestCorrect
<1>4. r \in Revision
  <2>1. photos \in SUBSET (Items \X {"DEFECT", "REPAIR"})
    BY <1>1 DEF Retained, Revision
  <2> HIDE DEF photos
  <2> QED BY <1>1, <2>1 DEF Revision
<1> HIDE DEF r
<1>5. NewRevision(s, r)
  BY <1>1, <1>2, AddedRevision
<1>6. AnswersRecorded(s, r.answers)
  BY <1>1, <1>2, <1>3, LaterRevision DEF AnswersRecorded
<1> QED BY <1>4, <1>5, <1>6 DEF HistoryStep

LEMMA AdminAnswers ==
    ASSUME SInv, NEW s \in Submissions, NEW req \in SubmissionRequest, req.by \in Admins, NEW now \in Nat,
           AdminCorrect(s, req, now)
    PROVE  HistoryStep
<1> DEFINE answers == WithRepairs(s, req.answers)
           photos == Retained(Latest(s).photos, answers)
           r == [Latest(s) EXCEPT !.action = "CORRECTED", !.by = req.by, !.answers = answers,
                                  !.photos = photos, !.marks = Kept(s, req) \cup {req}, !.req = req]
<1>1. UpToRevision(s, req) /\ Latest(s) \in Revision /\ answers \in Answers
  <2>1. UpToRevision(s, req) /\ req.answers \in Answers
    BY DEF AdminCorrect, SubmissionRequest
  <2>2. Latest(s) \in Revision /\ Latest(s).answers \in Answers
    BY <2>1, LatestTyped DEF Revision
  <2> QED BY <2>1, <2>2, RepairsTyped
<1>2. /\ RecordIssues(s, req.expected + 1, req.by, Latest(s).answers, answers, FALSE, now)
      /\ AddRevision(s, req, r)
  BY DEF AdminCorrect
<1> HIDE DEF answers
<1>3. r \in Revision /\ r.answers = answers
  <2>1. photos \in SUBSET (Items \X {"DEFECT", "REPAIR"}) /\ Kept(s, req) \cup {req} \in SUBSET SubmissionRequest
    BY <1>1 DEF Retained, Revision, Kept
  <2> HIDE DEF photos
  <2> QED BY <1>1, <2>1 DEF Revision
<1> HIDE DEF r
<1>4. NewRevision(s, r)
  BY <1>1, <1>2, AddedRevision
<1>5. AnswersRecorded(s, r.answers)
  BY <1>1, <1>2, <1>3, LaterRevision DEF AnswersRecorded
<1> QED BY <1>3, <1>4, <1>5 DEF HistoryStep

LEMMA StatusAnswers ==
    ASSUME SInv, NEW s \in Submissions, NEW req \in SubmissionRequest, req.by \in Admins,
           ChangeSubmissionStatus(s, req)
    PROVE  HistoryStep
<1> DEFINE status == IF req.kind = "CANCELLED" THEN "CANCELLED" ELSE "SUBMITTED"
           r == [Latest(s) EXCEPT !.action = req.kind, !.by = req.by, !.status = status,
                                  !.marks = Kept(s, req) \cup {req}, !.req = req]
<1>1. /\ UpToRevision(s, req) /\ Latest(s) \in Revision /\ req.kind \in {"CANCELLED", "RESTORED"}
      /\ AddRevision(s, req, r) /\ UNCHANGED issueVars
  BY LatestTyped DEF ChangeSubmissionStatus
<1>2. r \in Revision /\ r.answers = Latest(s).answers
  <2>1. Kept(s, req) \cup {req} \in SUBSET SubmissionRequest /\ status \in {"SUBMITTED", "CANCELLED"}
    BY <1>1 DEF Kept, Revision
  <2> HIDE DEF status
  <2> QED BY <1>1, <2>1 DEF Revision
<1> HIDE DEF r
<1>3. NewRevision(s, r)
  BY <1>1, AddedRevision
<1>4. SameAnswers(s, r.answers)
  BY <1>1, <1>2, LaterRevision DEF SameAnswers
<1> QED BY <1>2, <1>3, <1>4 DEF HistoryStep

LEMMA LinkAnswers ==
    ASSUME SInv, NEW s \in Submissions, NEW req \in SubmissionRequest, req.by \in Admins, LinkStay(s, req)
    PROVE  HistoryStep
<1> DEFINE r == LinkRevision(s, req)
<1>1. /\ UpToRevision(s, req) /\ Latest(s) \in Revision /\ AddRevision(s, req, r) /\ UNCHANGED issueVars
  BY LatestTyped DEF LinkStay
<1>2. r \in Revision /\ r.answers = Latest(s).answers
  <2>1. {req} \in SUBSET SubmissionRequest /\ MatchOf(req) \in StayMatch \cup {None}
    BY DEF MatchOf, StayMatch, SubmissionRequest
  <2>2. req.stay \in Stays \cup {None}
    BY DEF SubmissionRequest
  <2> QED BY <1>1, <2>1, <2>2 DEF LinkRevision, Revision
<1> HIDE DEF r
<1>3. NewRevision(s, r)
  BY <1>1, AddedRevision
<1>4. SameAnswers(s, r.answers)
  BY <1>1, <1>2, LaterRevision DEF SameAnswers
<1> QED BY <1>2, <1>3, <1>4 DEF HistoryStep

LEMMA NextHistory == ASSUME SInv, [Next]_vars PROVE HistoryStep
<1>1. ASSUME NEW s \in Submissions, NEW now \in 0 .. MaxClock, DraftStep(s, now) PROVE HistoryStep
  <2>1. ASSUME UNCHANGED <<issueVars, revisions>> PROVE HistoryStep
    BY <2>1 DEF HistoryStep
  <2> QED BY <1>1, <2>1, SubmitAnswers DEF DraftStep, StartDraft, SaveDraft
<1>2. ASSUME NEW s \in Submissions, Retry(s) PROVE HistoryStep
  BY <1>2 DEF Retry, RepeatSubmit, RepeatRequest, HistoryStep
<1>3. ASSUME NEW s \in Submissions, NEW e \in 1 .. MaxRevision, NEW now \in 0 .. MaxTime, CorrectionStep(s, e, now)
      PROVE  HistoryStep
  <2>1. now \in Nat
    BY IssueBoundsAreNat
  <2> QED BY <1>3, <2>1, CorrectionRequests, GuestAnswersAgain, AdminAnswers
<1>4. ASSUME NEW s \in Submissions, NEW e \in 1 .. MaxRevision, AdministrationStep(s, e) PROVE HistoryStep
  BY <1>4, AdministrationRequests, StatusAnswers, LinkAnswers
<1>5. ASSUME NEW x \in Stays, StayStep(x) PROVE HistoryStep
  BY <1>5 DEF StayStep, IssueLink, RevokeLink, ReviseStay, Elapse, HistoryStep
<1>6. CASE (IssuesNext /\ UNCHANGED subVars) \/ UNCHANGED vars
  BY <1>6 DEF vars, subVars, HistoryStep
<1> QED BY <1>1, <1>2, <1>3, <1>4, <1>5, <1>6 DEF Next

\* Checklists keep what is true of issues: IInv is an invariant of both together.
LEMMA NextIInv == ASSUME SInv, IInv, [Next]_vars PROVE IInv'
<1>1. CASE UNCHANGED issueVars
  BY <1>1, AnswerKeeps DEF issueVars, IInv, IssuesTypeOK
<1>2. CASE IssuesNext
  BY <1>2, AdminKeeps, GuestKeeps, CategoryKeeps DEF IssuesNext
<1>3. ASSUME NEW s \in Submissions, NEW r \in Revision, AnswersRecorded(s, r.answers)
      PROVE  IInv'
  <2>1. PICK by \in Admins \cup {None}, urgency \in BOOLEAN, now \in Nat :
           RecordIssues(s, Len(revisions[s]) + 1, by, AnswersBefore(s), r.answers, urgency, now)
    BY <1>3 DEF AnswersRecorded
  <2>2. r.answers \in Answers /\ Len(revisions[s]) + 1 \in Nat \ {0}
    BY DEF Revision, SInv, RowsTypeOK
  <2> QED BY <2>1, <2>2, IssuesRecorded
<1>4. HistoryStep
  BY NextHistory
<1> QED BY <1>1, <1>2, <1>3, <1>4 DEF HistoryStep, SameAnswers

LEMMA BothInvariants == Spec => [](SInv /\ IInv)
<1>1. Init => SInv /\ IInv
  BY InitSInv, InitIInv DEF Init
<1>2. SInv /\ IInv /\ [Next]_vars => (SInv /\ IInv)'
  BY NextSInv, NextIInv
<1> QED BY <1>1, <1>2, PTL DEF Spec

\* Issues hold together when guests, administrators and checklists write them: histories match,
\* answers are true, links close no circle, and what is offered is accepted
\* (submission-issues.ts:128, admin-issues.service.ts:281).
THEOREM ChecklistIssuesHoldUp ==
    Spec => [](HistoryMatches /\ RepliesAreTrue /\ NoRecurrenceCycle /\ OfferedIsAccepted)
<1>1. IInv => HistoryMatches /\ RepliesAreTrue
  BY DEF IInv, HistoryMatches, HistoryOf
<1>2. IInv => NoRecurrenceCycle /\ OfferedIsAccepted
  BY NoCircle, OffersHold
<1> QED BY BothInvariants, <1>1, <1>2, PTL

--------------------------------------------------------------------------------
\* The conjunct of IssuesTrackAnswers for one item, and where the events of its issue come from.
Was(s, i, v) == Abnormal(revisions[s][v].answers, i)
WasAbnormal(s, i) == \E v \in 1 .. Len(revisions[s]) : Was(s, i, v)
ChangesOf(s, i) ==
    {v \in 2 .. Len(revisions[s]) :
        /\ revisions[s][v].answers[i] # revisions[s][v - 1].answers[i]
        /\ \E w \in 1 .. v - 1 : Was(s, i, w)}
UpdatesOf(j) == {events[j][n].revision : n \in {n \in DOMAIN events[j] : events[j][n].type = "UPDATED"}} \ {0}
Describes(s, i) ==
    \A v \in 1 .. Len(revisions[s]) :
        Was(s, i, v) /\ (\A w \in v + 1 .. Len(revisions[s]) : ~Was(s, i, w)) =>
            issues[<<s, i>>].text = revisions[s][v].answers[i].text
SourcesKnown(s, i) ==
    \A n \in 1 .. Len(events[<<s, i>>]) : events[<<s, i>>][n].revision <= Len(revisions[s])
Tracks(s, i) ==
    /\ Reported(<<s, i>>) <=> WasAbnormal(s, i)
    /\ ChangesOf(s, i) = UpdatesOf(<<s, i>>)
    /\ Describes(s, i)
    /\ SourcesKnown(s, i)
TInv == \A s \in Submissions, i \in Items : Tracks(s, i)

\* Administrators add events that come from no revision, and leave the description.
Aside(j) ==
    /\ Reported(j) /\ Reported(j)' /\ issues'[j].text = issues[j].text
    /\ \E e \in Event : events'[j] = Append(events[j], e) /\ e.revision = 0

LEMMA ItemsOfIssues ==
    ASSUME IInv, NEW s \in Submissions, NEW i \in Items
    PROVE  /\ <<s, i>> \in IssueIds /\ <<s, i>> \in ChecklistIds /\ <<s, i>> \notin GuestKeys
           /\ events[<<s, i>>] \in Seq(Event)
           /\ ~Reported(<<s, i>>) => events[<<s, i>>] = <<>>
<1>1. <<s, i>> \in ChecklistIds /\ <<s, i>> \in IssueIds
  BY ItemsHaveIssues DEF IssueIds
<1> QED BY <1>1, KeysAreApart DEF IInv, IssuesTypeOK, HistoryOf

LEMMA RecordIsAside ==
    ASSUME IInv, IInv', NEW i \in IssueIds, NEW type, NEW req, NEW row, NEW snapshot,
           Record(i, type, req, row, snapshot), Reported(i), row.text = issues[i].text, row # None, NEW j \in IssueIds
    PROVE  Untouched(j) \/ Aside(j)
<1>1. /\ issues \in [IssueIds -> Issue \cup {None}] /\ events \in [IssueIds -> Seq(Event)]
      /\ events' \in [IssueIds -> Seq(Event)]
  BY DEF IInv, IssuesTypeOK
<1> DEFINE e == UpdateEvent(i, type, 0, req, snapshot)
<1>2. issues' = [issues EXCEPT ![i] = row] /\ events' = [events EXCEPT ![i] = Append(@, e)]
  BY DEF Record
<1>3. e.revision = 0
  BY DEF UpdateEvent
<1> HIDE DEF e
<1>4. CASE j # i
  BY <1>1, <1>2, <1>4 DEF Untouched
<1>5. CASE j = i
  <2>1. issues'[i] = row /\ events'[i] = Append(events[i], e)
    BY <1>1, <1>2
  <2>2. e \in Event
    <3>1. Append(events[i], e) \in Seq(Event) /\ events[i] \in Seq(Event)
      BY <1>1, <2>1
    <3>2. Len(events[i]) + 1 \in 1 .. Len(Append(events[i], e)) /\ Append(events[i], e)[Len(events[i]) + 1] = e
      BY <3>1
    <3> QED BY <3>1, <3>2, ElementOfSeq
  <2> QED BY <1>3, <1>5, <2>1, <2>2 DEF Aside, Reported
<1> QED BY <1>4, <1>5

LEMMA IssuesAside ==
    ASSUME IInv, IssuesNext, NEW j \in IssueIds
    PROVE  Untouched(j) \/ Aside(j) \/ (j \in GuestKeys /\ ~Reported(j))
<1>1. IInv'
  BY AdminKeeps, GuestKeeps, CategoryKeeps DEF IssuesNext
<1>2. ASSUME UNCHANGED <<issues, events>> PROVE Untouched(j)
  BY <1>2 DEF Untouched
<1>3. ASSUME NEW i \in IssueIds, NEW type, NEW req, NEW row, NEW snapshot, Record(i, type, req, row, snapshot),
             Reported(i), row.text = issues[i].text, row # None
      PROVE  Untouched(j) \/ Aside(j)
  BY <1>1, <1>3, RecordIsAside
<1>4. ASSUME NEW i \in IssueIds, NEW a \in Admins, NEW e \in 1 .. MaxVersion, AdminStep(i, a, e)
      PROVE  Untouched(j) \/ Aside(j)
  <2> DEFINE r == issues[i]
  <2>1. ASSUME Reported(i), NEW to, NEW admin, NEW on, NEW target
        PROVE  /\ NextVersion(r).text = r.text /\ WithStatus(r, to, admin).text = r.text
               /\ Toggled(r).text = r.text /\ Linked(r, target).text = r.text /\ Cancelled(r, on).text = r.text
    <3>1. r \in Issue
      BY <2>1 DEF IInv, IssuesTypeOK, Reported
    <3> QED BY <3>1 DEF NextVersion, WithStatus, Toggled, Linked, Cancelled, Issue
  <2>2. ASSUME NEW type, NEW req, NEW row, NEW snapshot, Record(i, type, req, row, snapshot)
        PROVE  row # None
    <3>1. issues' = [issues EXCEPT ![i] = row] /\ events' = [events EXCEPT ![i] = Append(@, UpdateEvent(i, type, 0, req, snapshot))]
      BY <2>2 DEF Record
    <3>2. /\ issues'[i] = row /\ events'[i] = Append(events[i], UpdateEvent(i, type, 0, req, snapshot))
          /\ events[i] \in Seq(Event) /\ HistoryOf(i)'
      BY <1>1, <3>1 DEF IInv, IssuesTypeOK
    <3>3. events'[i] # <<>>
      BY <3>2
    <3> QED BY <3>2, <3>3 DEF HistoryOf, Reported
  <2> HIDE DEF r
  <2>3. ASSUME NEW req, AddNote(i, req) PROVE Untouched(j) \/ Aside(j)
    BY <1>3, <2>1, <2>2, <2>3 DEF AddNote, Mutable, UpToDate, r
  <2>4. ASSUME NEW req, NEW to, ChangeStatus(i, req, to) PROVE Untouched(j) \/ Aside(j)
    BY <1>3, <2>1, <2>2, <2>4 DEF ChangeStatus, Mutable, UpToDate, r
  <2>5. ASSUME NEW req, ChangeUrgency(i, req) PROVE Untouched(j) \/ Aside(j)
    BY <1>3, <2>1, <2>2, <2>5 DEF ChangeUrgency, Mutable, UpToDate, r
  <2>6. ASSUME NEW req, NEW target, ChangeRecurrence(i, req, target) PROVE Untouched(j) \/ Aside(j)
    BY <1>3, <2>1, <2>2, <2>6 DEF ChangeRecurrence, Mutable, UpToDate, r
  <2>7. ASSUME NEW req, ChangeCancellation(i, req) PROVE Untouched(j) \/ Aside(j)
    BY <1>3, <2>1, <2>2, <2>7 DEF ChangeCancellation, UpToDate, r
  <2>8. ASSUME NEW req, RepeatCancellation(i, req) PROVE Untouched(j)
    BY <1>2, <2>8 DEF RepeatCancellation
  <2> QED BY <1>4, <2>3, <2>4, <2>5, <2>6, <2>7, <2>8 DEF AdminStep
<1>5. ASSUME NEW key \in GuestKeys, NEW content \in Contents, GuestStep(key, content)
      PROVE  Untouched(j) \/ (j = key /\ ~Reported(j))
  <2>1. issues \in [IssueIds -> Issue \cup {None}] /\ events \in [IssueIds -> Seq(Event)]
    BY DEF IInv, IssuesTypeOK
  <2> QED BY <1>2, <1>5, <2>1 DEF GuestStep, ReportIssue, RepeatReport, Untouched
<1>6. ASSUME NEW c \in Categories, CategoryStep(c) PROVE Untouched(j)
  BY <1>2, <1>6 DEF CategoryStep, CreateCategory, UpdateCategory
<1> QED BY <1>4, <1>5, <1>6 DEF IssuesNext

\* What is said of an item depends on its history and on its issue.
LEMMA TracksKept ==
    ASSUME NEW s \in Submissions, NEW i \in Items, Tracks(s, i), revisions'[s] = revisions[s], Untouched(<<s, i>>)
    PROVE  Tracks(s, i)'
<1>1. WasAbnormal(s, i)' = WasAbnormal(s, i) /\ ChangesOf(s, i)' = ChangesOf(s, i)
  BY DEF WasAbnormal, ChangesOf, Was
<1>2. UpdatesOf(<<s, i>>)' = UpdatesOf(<<s, i>>) /\ (Reported(<<s, i>>)' <=> Reported(<<s, i>>))
  BY DEF UpdatesOf, Untouched, Reported
<1>3. Describes(s, i)' /\ SourcesKnown(s, i)'
  <2>1. Describes(s, i) /\ SourcesKnown(s, i)
    BY DEF Tracks
  <2> QED BY <2>1 DEF Describes, SourcesKnown, Was, Untouched
<1> QED BY <1>1, <1>2, <1>3 DEF Tracks

LEMMA TracksAside ==
    ASSUME IInv, NEW s \in Submissions, NEW i \in Items, Tracks(s, i), revisions'[s] = revisions[s], Aside(<<s, i>>),
           revisions[s] \in Seq(Revision)
    PROVE  Tracks(s, i)'
<1> DEFINE j == <<s, i>>
<1>1. PICK e \in Event : events'[j] = Append(events[j], e) /\ e.revision = 0
  BY DEF Aside
<1>2. events[j] \in Seq(Event)
  BY ItemsOfIssues
<1> HIDE DEF j
<1>3. /\ Len(events'[j]) = Len(events[j]) + 1 /\ events'[j][Len(events[j]) + 1] = e
      /\ \A n \in 1 .. Len(events[j]) : events'[j][n] = events[j][n]
      /\ DOMAIN events[j] = 1 .. Len(events[j]) /\ DOMAIN events'[j] = 1 .. Len(events[j]) + 1
      /\ Len(events[j]) \in Nat
  BY <1>1, <1>2
<1>4. UpdatesOf(j)' = UpdatesOf(j)
  <2>1. \A x : x \in UpdatesOf(j)' <=>
           x # 0 /\ \E n \in 1 .. Len(events[j]) + 1 : events'[j][n].type = "UPDATED" /\ events'[j][n].revision = x
    BY <1>3 DEF UpdatesOf
  <2>2. \A x : x \in UpdatesOf(j) <=>
           x # 0 /\ \E n \in 1 .. Len(events[j]) : events[j][n].type = "UPDATED" /\ events[j][n].revision = x
    BY <1>3 DEF UpdatesOf
  <2>3. \A n \in 1 .. Len(events[j]) + 1 : n \in 1 .. Len(events[j]) \/ n = Len(events[j]) + 1
    BY <1>3
  <2>4. \A n \in 1 .. Len(events[j]) : n \in 1 .. Len(events[j]) + 1
    BY <1>3
  <2>5. \A x : x \in UpdatesOf(j)' <=> x \in UpdatesOf(j)
    BY <1>1, <1>3, <2>1, <2>2, <2>3, <2>4
  <2> QED BY <2>5
<1>5. ChangesOf(s, i)' = ChangesOf(s, i) /\ (WasAbnormal(s, i)' <=> WasAbnormal(s, i))
  BY DEF ChangesOf, WasAbnormal, Was
<1>6. SourcesKnown(s, i)'
  <2>1. \A n \in 1 .. Len(events'[j]) : n \in 1 .. Len(events[j]) \/ n = Len(events[j]) + 1
    BY <1>3
  <2>2. Len(revisions[s]) \in Nat
    OBVIOUS
  <2>3. \A n \in 1 .. Len(events[j]) : events[j][n].revision <= Len(revisions[s])
    BY DEF Tracks, SourcesKnown, j
  <2>4. \A n \in 1 .. Len(events'[j]) : events'[j][n].revision <= Len(revisions[s])
    BY <1>1, <1>3, <2>1, <2>2, <2>3
  <2> QED BY <2>4 DEF SourcesKnown, j
<1>7. Describes(s, i)'
  BY DEF Describes, Was, Tracks, Aside, j
<1> QED BY <1>4, <1>5, <1>6, <1>7 DEF Tracks, Aside, j

\* A revision whose answers were recorded.
LEMMA TracksRecorded ==
    ASSUME IInv, IInv', NEW s \in Submissions, NEW i \in Items, Tracks(s, i), NEW r \in Revision,
           revisions[s] \in Seq(Revision), NewRevision(s, r),
           ItemRecorded(s, i, Len(revisions[s]) + 1, AnswersBefore(s), r.answers)
    PROVE  Tracks(s, i)'
<1> DEFINE h == revisions[s]
           n == Len(h)
           j == <<s, i>>
           before == AnswersBefore(s)
           after == r.answers
<1>1. /\ n \in Nat /\ revisions'[s] = Append(h, r) /\ Len(revisions'[s]) = n + 1 /\ revisions'[s][n + 1] = r
      /\ \A v \in 1 .. n : revisions'[s][v] = h[v]
  BY DEF NewRevision
<1>2. n # 0 => before = h[n].answers
  BY <1>1 DEF AnswersBefore, Latest, Last
<1>3. n = 0 => before[i] = None
  BY DEF AnswersBefore, Unanswered
<1>4. /\ Reported(j) <=> \E v \in 1 .. n : Was(s, i, v)
      /\ ChangesOf(s, i) = UpdatesOf(j) /\ Describes(s, i) /\ SourcesKnown(s, i)
  BY DEF Tracks, WasAbnormal
<1>5. /\ events[j] \in Seq(Event) /\ j \in IssueIds /\ (~Reported(j) => events[j] = <<>>)
      /\ events'[j] \in Seq(Event)
  BY ItemsOfIssues DEF IInv, IssuesTypeOK
<1>6. ItemRecorded(s, i, n + 1, before, after)
  OBVIOUS
<1> HIDE DEF h, n, before, after
<1>7. /\ \A v \in 1 .. n : Was(s, i, v)' <=> Was(s, i, v)
      /\ \A v \in 1 .. n + 1 : v = n + 1 => (Was(s, i, v)' <=> Abnormal(after, i))
  BY <1>1 DEF Was, Abnormal, h, after
<1>8. Abnormal(before, i) => n # 0 /\ Was(s, i, n)
  BY <1>2, <1>3 DEF Was, Abnormal, h
<1>9. n # 0 /\ Was(s, i, n) => Abnormal(before, i)
  BY <1>2 DEF Was, Abnormal, h
<1>10. before[i] = after[i] => (Abnormal(before, i) <=> Abnormal(after, i))
  BY DEF Abnormal
<1>11. \A v \in 1 .. n + 1 : v \in 1 .. n \/ v = n + 1
  BY <1>1
<1>12. n + 1 \in 1 .. n + 1 /\ (\A v \in 1 .. n : v \in 1 .. n + 1) /\ (n # 0 => n \in 1 .. n)
  BY <1>1
<1> DEFINE Known(m) == \A k \in 1 .. Len(events[j]) : events[j][k].revision <= m
<1>13. Known(n + 1)
  <2> SUFFICES ASSUME NEW k \in 1 .. Len(events[j]) PROVE events[j][k].revision <= n + 1
    OBVIOUS
  <2>1. events[j][k] \in Event
    BY <1>5, ElementOfSeq
  <2>2. events[j][k].revision \in Nat /\ events[j][k].revision <= n
    BY <1>4, <2>1 DEF SourcesKnown, Event, n, h
  <2> QED BY <1>1, <2>2
<1> HIDE DEF Known
<1>14. WasAbnormal(s, i)' <=> Reported(j) \/ Abnormal(after, i)
  <2>1. WasAbnormal(s, i)' <=> \E v \in 1 .. n + 1 : Was(s, i, v)'
    BY <1>1 DEF WasAbnormal
  <2> QED BY <1>4, <1>7, <1>11, <1>12, <2>1
<1>15. WasAbnormal(s, i)' <=> Reported(j)'
  <2>1. Abnormal(before, i) => Reported(j)
    BY <1>4, <1>8, <1>12
  <2> QED BY <1>6, <1>10, <1>14, <2>1 DEF ItemRecorded, Untouched, Opens, Updates, Reported
<1>16. \A x : x \in ChangesOf(s, i)' <=> x \in ChangesOf(s, i) \/ (x = n + 1 /\ after[i] # before[i] /\ Reported(j))
  <2>1. \A x : x \in ChangesOf(s, i)' <=>
           x \in 2 .. n + 1 /\ revisions'[s][x].answers[i] # revisions'[s][x - 1].answers[i]
           /\ \E w \in 1 .. x - 1 : Was(s, i, w)'
    BY <1>1 DEF ChangesOf
  <2>2. \A x : x \in ChangesOf(s, i) <=>
           x \in 2 .. n /\ h[x].answers[i] # h[x - 1].answers[i] /\ \E w \in 1 .. x - 1 : Was(s, i, w)
    BY DEF ChangesOf, h, n
  <2>3. ASSUME NEW x \in 2 .. n
        PROVE  /\ revisions'[s][x] = h[x] /\ revisions'[s][x - 1] = h[x - 1] /\ x \in 2 .. n + 1 /\ x # n + 1
               /\ \A w \in 1 .. x - 1 : Was(s, i, w)' <=> Was(s, i, w)
    <3>1. x \in 1 .. n /\ x - 1 \in 1 .. n /\ x \in 2 .. n + 1 /\ x # n + 1 /\ \A w \in 1 .. x - 1 : w \in 1 .. n
      BY <1>1
    <3> QED BY <1>1, <1>7, <3>1
  <2>4. \A x : x \in 2 .. n + 1 /\ x # n + 1 => x \in 2 .. n
    BY <1>1
  <2>5. ASSUME n # 0
        PROVE  /\ n + 1 \in 2 .. n + 1 /\ (n + 1) - 1 = n /\ revisions'[s][n] = h[n]
    BY <1>1, <1>12, <2>5
  <2>6. n = 0 => ~Reported(j) /\ n + 1 \notin 2 .. n + 1
    BY <1>1, <1>4
  <2>7. n + 1 \in ChangesOf(s, i)' <=> after[i] # before[i] /\ Reported(j)
    <3>1. CASE n = 0
      BY <2>1, <2>6, <3>1
    <3>2. CASE n # 0
      <4>1. /\ n + 1 \in 2 .. n + 1 /\ (n + 1) - 1 = n /\ revisions'[s][n] = h[n] /\ before = h[n].answers
            /\ revisions'[s][n + 1].answers = after
        BY <1>1, <1>2, <2>5, <3>2 DEF after
      <4>2. (\E w \in 1 .. n : Was(s, i, w)') <=> Reported(j)
        BY <1>4, <1>7
      <4>3. n + 1 \in ChangesOf(s, i)' <=>
               n + 1 \in 2 .. n + 1 /\ revisions'[s][n + 1].answers[i] # revisions'[s][(n + 1) - 1].answers[i]
               /\ \E w \in 1 .. (n + 1) - 1 : Was(s, i, w)'
        BY <2>1
      <4> QED BY <4>1, <4>2, <4>3
    <3> QED BY <3>1, <3>2
  <2>8. n + 1 \notin ChangesOf(s, i)
    <3>1. n + 1 \notin 2 .. n
      BY <1>1
    <3> QED BY <2>2, <3>1
  <2>9. ASSUME NEW x, x # n + 1 PROVE x \in ChangesOf(s, i)' <=> x \in ChangesOf(s, i)
    BY <2>1, <2>2, <2>3, <2>4, <2>9
  <2> QED BY <2>7, <2>8, <2>9
<1>17. \A x : x \in UpdatesOf(j) <=>
           x # 0 /\ \E k \in 1 .. Len(events[j]) : events[j][k].type = "UPDATED" /\ events[j][k].revision = x
  <2>1. DOMAIN events[j] = 1 .. Len(events[j])
    BY <1>5
  <2> QED BY <2>1 DEF UpdatesOf
<1>18. CASE Untouched(j) /\ (before[i] = after[i] \/ (~Reported(j) /\ ~Abnormal(after, i)))
  <2>1. ChangesOf(s, i)' = UpdatesOf(j)'
    <3>1. UpdatesOf(j)' = UpdatesOf(j)
      BY <1>18 DEF UpdatesOf, Untouched
    <3>2. \A x : x \in ChangesOf(s, i)' <=> x \in ChangesOf(s, i)
      BY <1>16, <1>18
    <3> QED BY <1>4, <3>1, <3>2
  <2>2. SourcesKnown(s, i)'
    <3>1. events'[j] = events[j]
      BY <1>18 DEF Untouched
    <3> QED BY <1>1, <1>13, <3>1 DEF SourcesKnown, Known
  <2>3. Describes(s, i)'
    <3> SUFFICES ASSUME NEW v \in 1 .. n + 1, Was(s, i, v)', \A w \in v + 1 .. n + 1 : ~Was(s, i, w)'
                 PROVE  issues[j].text = revisions'[s][v].answers[i].text
      BY <1>1, <1>18 DEF Describes, Untouched, j
    <3>1. CASE v \in 1 .. n
      <4>1. \A w \in v + 1 .. n : w \in v + 1 .. n + 1 /\ w \in 1 .. n
        BY <1>1, <3>1
      <4>2. Was(s, i, v) /\ (\A w \in v + 1 .. n : ~Was(s, i, w))
        BY <1>7, <3>1, <4>1
      <4> QED BY <1>1, <1>4, <3>1, <4>2 DEF Describes, n, h, j
    <3>2. CASE v = n + 1
      <4>1. Abnormal(after, i) /\ before[i] = after[i]
        BY <1>7, <1>18, <3>2
      <4>2. n # 0 /\ Was(s, i, n) /\ n \in 1 .. n
        BY <1>8, <1>10, <1>12, <4>1
      <4>3. \A w \in n + 1 .. n : FALSE
        BY <1>1
      <4>4. issues[j].text = h[n].answers[i].text
        BY <1>4, <4>2, <4>3 DEF Describes, n, h, j
      <4>5. revisions'[s][v].answers = after /\ before = h[n].answers
        BY <1>1, <1>2, <3>2, <4>2 DEF after
      <4> QED BY <4>1, <4>4, <4>5
    <3> QED BY <1>11, <3>1, <3>2
  <2> QED BY <1>15, <2>1, <2>2, <2>3 DEF Tracks, j
<1>19. CASE before[i] # after[i] /\ Abnormal(after, i) /\ Opens(j, n + 1, after[i].text)
  <2>1. /\ ~Reported(j) /\ issues'[j].text = after[i].text
        /\ \A v \in 1 .. Len(events'[j]) : events'[j][v].type # "UPDATED" /\ events'[j][v].revision = n + 1
    BY <1>19 DEF Opens
  <2>2. \A x : x \notin UpdatesOf(j)
    <3>1. \A k \in 1 .. Len(events[j]) : FALSE
      BY <1>5, <2>1
    <3> QED BY <1>17, <3>1
  <2>3. ChangesOf(s, i)' = UpdatesOf(j)'
    <3>1. \A x : x \notin ChangesOf(s, i)'
      BY <1>4, <1>16, <2>1, <2>2
    <3>2. \A x : x \notin UpdatesOf(j)'
      <4>1. DOMAIN events'[j] = 1 .. Len(events'[j])
        BY <1>5
      <4> QED BY <2>1, <4>1 DEF UpdatesOf
    <3> QED BY <3>1, <3>2
  <2>4. SourcesKnown(s, i)'
    <3>1. n + 1 <= n + 1
      BY <1>1
    <3> QED BY <1>1, <2>1, <3>1 DEF SourcesKnown
  <2>5. Describes(s, i)'
    <3> SUFFICES ASSUME NEW v \in 1 .. n + 1, Was(s, i, v)', \A w \in v + 1 .. n + 1 : ~Was(s, i, w)'
                 PROVE  after[i].text = revisions'[s][v].answers[i].text
      BY <1>1, <2>1 DEF Describes, j
    <3>1. v = n + 1
      BY <1>4, <1>7, <1>11, <2>1
    <3> QED BY <1>1, <3>1 DEF after
  <2> QED BY <1>15, <2>3, <2>4, <2>5 DEF Tracks, j
<1>20. CASE before[i] # after[i] /\ Updates(j, n + 1, IF Abnormal(after, i) THEN after[i].text ELSE issues[j].text)
  <2>1. /\ Reported(j) /\ issues'[j].text = IF Abnormal(after, i) THEN after[i].text ELSE issues[j].text
        /\ Len(events'[j]) = Len(events[j]) + 1
        /\ events'[j][Len(events[j]) + 1].type = "UPDATED" /\ events'[j][Len(events[j]) + 1].revision = n + 1
    BY <1>20 DEF Updates
  <2>2. /\ DOMAIN events'[j] = 1 .. Len(events[j]) + 1 /\ Len(events[j]) \in Nat
        /\ \A k \in 1 .. Len(events[j]) : events'[j][k] = events[j][k]
    <3>1. Len(events[j]) \in Nat /\ DOMAIN events'[j] = 1 .. Len(events'[j])
      BY <1>5
    <3> QED BY <1>20, <2>1, <3>1 DEF Updates, Grows
  <2>3. /\ \A k \in 1 .. Len(events[j]) + 1 : k \in 1 .. Len(events[j]) \/ k = Len(events[j]) + 1
        /\ \A k \in 1 .. Len(events[j]) : k \in 1 .. Len(events[j]) + 1
        /\ Len(events[j]) + 1 \in 1 .. Len(events[j]) + 1
    BY <2>2
  <2>4. \A x : x \in UpdatesOf(j)' <=> x \in UpdatesOf(j) \/ x = n + 1
    <3>1. \A x : x \in UpdatesOf(j)' <=>
             x # 0 /\ \E k \in 1 .. Len(events[j]) + 1 : events'[j][k].type = "UPDATED" /\ events'[j][k].revision = x
      BY <2>2 DEF UpdatesOf
    <3>2. n + 1 # 0
      BY <1>1
    <3> QED BY <1>17, <2>1, <2>2, <2>3, <3>1, <3>2
  <2>5. ChangesOf(s, i)' = UpdatesOf(j)'
    <3>1. \A x : x \in ChangesOf(s, i)' <=> x \in UpdatesOf(j)'
      BY <1>4, <1>16, <1>20, <2>1, <2>4
    <3> QED BY <3>1
  <2>6. SourcesKnown(s, i)'
    <3>1. n + 1 <= n + 1
      BY <1>1
    <3>2. \A k \in 1 .. Len(events[j]) + 1 : events'[j][k].revision <= n + 1
      BY <1>13, <2>1, <2>2, <2>3, <3>1 DEF Known
    <3> QED BY <1>1, <2>1, <3>2 DEF SourcesKnown
  <2>7. Describes(s, i)'
    <3> SUFFICES ASSUME NEW v \in 1 .. n + 1, Was(s, i, v)', \A w \in v + 1 .. n + 1 : ~Was(s, i, w)'
                 PROVE  issues'[j].text = revisions'[s][v].answers[i].text
      BY <1>1 DEF Describes, j
    <3>1. CASE v \in 1 .. n
      <4>1. /\ \A w \in v + 1 .. n : w \in v + 1 .. n + 1 /\ w \in 1 .. n
            /\ n + 1 \in v + 1 .. n + 1
        BY <1>1, <3>1
      <4>2. Was(s, i, v) /\ (\A w \in v + 1 .. n : ~Was(s, i, w)) /\ ~Abnormal(after, i)
        BY <1>7, <3>1, <4>1
      <4>3. issues[j].text = h[v].answers[i].text
        BY <1>4, <3>1, <4>2 DEF Describes, n, h, j
      <4> QED BY <1>1, <2>1, <3>1, <4>2, <4>3
    <3>2. CASE v = n + 1
      BY <1>1, <1>7, <2>1, <3>2 DEF after
    <3> QED BY <1>11, <3>1, <3>2
  <2> QED BY <1>15, <2>5, <2>6, <2>7 DEF Tracks, j
<1> QED BY <1>6, <1>18, <1>19, <1>20 DEF ItemRecorded, j

LEMMA NextTInv == ASSUME SInv, IInv, TInv, [Next]_vars PROVE TInv'
<1> SUFFICES ASSUME NEW s \in Submissions, NEW i \in Items PROVE Tracks(s, i)'
  BY DEF TInv
<1>1. Tracks(s, i) /\ revisions[s] \in Seq(Revision) /\ IInv'
  BY NextIInv DEF TInv, SInv, RowsTypeOK
<1>2. CASE UNCHANGED revisions /\ UNCHANGED issueVars
  BY <1>1, <1>2, TracksKept DEF issueVars, Untouched
<1>3. CASE UNCHANGED revisions /\ IssuesNext
  <2>1. Untouched(<<s, i>>) \/ Aside(<<s, i>>)
    BY <1>3, ItemsOfIssues, IssuesAside
  <2> QED BY <1>1, <1>3, <2>1, TracksKept, TracksAside
<1>4. ASSUME NEW d \in Submissions, NEW r \in Revision, NewRevision(d, r), AnswersRecorded(d, r.answers)
      PROVE  Tracks(s, i)'
  <2>1. PICK by \in Admins \cup {None}, urgency \in BOOLEAN, now \in Nat :
           RecordIssues(d, Len(revisions[d]) + 1, by, AnswersBefore(d), r.answers, urgency, now)
    BY <1>4 DEF AnswersRecorded
  <2>2. r.answers \in Answers /\ Len(revisions[d]) + 1 \in Nat \ {0} /\ revisions[d] \in Seq(Revision)
    <3>1. revisions[d] \in Seq(Revision)
      BY DEF SInv, RowsTypeOK
    <3> QED BY <3>1 DEF Revision
  <2>3. /\ \A k \in Items : ItemRecorded(d, k, Len(revisions[d]) + 1, AnswersBefore(d), r.answers)
        /\ \A j \in IssueIds : (\A k \in Items : j # <<d, k>>) => Untouched(j)
    BY <2>1, <2>2, IssuesRecorded
  <2>4. CASE s = d
    BY <1>1, <1>4, <2>2, <2>3, <2>4, TracksRecorded
  <2>5. CASE s # d
    <3>1. <<s, i>> \in IssueIds /\ \A k \in Items : <<s, i>> # <<d, k>>
      BY <2>5, ItemsOfIssues
    <3>2. revisions'[s] = revisions[s]
      BY <1>4, <2>5 DEF NewRevision
    <3> QED BY <1>1, <2>3, <3>1, <3>2, TracksKept
  <2> QED BY <2>4, <2>5
<1>5. ASSUME NEW d \in Submissions, NEW r \in Revision, NewRevision(d, r), SameAnswers(d, r.answers)
      PROVE  Tracks(s, i)'
  <2>1. Untouched(<<s, i>>)
    BY <1>5 DEF SameAnswers, issueVars, Untouched
  <2>2. CASE s = d
    <3>1. AnswersBefore(s) = r.answers
      BY <1>5, <2>2 DEF SameAnswers, AnswersBefore
    <3>2. ItemRecorded(s, i, Len(revisions[s]) + 1, AnswersBefore(s), r.answers)
      BY <2>1, <3>1 DEF ItemRecorded
    <3> QED BY <1>1, <1>5, <2>2, <3>2, TracksRecorded
  <2>3. CASE s # d
    BY <1>1, <1>5, <2>1, <2>3, TracksKept DEF NewRevision
  <2> QED BY <2>2, <2>3
<1>6. HistoryStep
  BY NextHistory
<1> QED BY <1>2, <1>3, <1>4, <1>5, <1>6 DEF HistoryStep

LEMMA InitTInv == Init => TInv
<1> SUFFICES ASSUME Init, NEW s \in Submissions, NEW i \in Items PROVE Tracks(s, i)
  BY DEF TInv
<1> DEFINE j == <<s, i>>
<1>1. j \in IssueIds
  BY ItemsHaveIssues DEF IssueIds
<1>2. revisions[s] = <<>> /\ events[j] = <<>> /\ issues[j] = None
  BY <1>1 DEF Init, IssuesInit
<1> HIDE DEF j
<1>3. ~Reported(j) /\ ~WasAbnormal(s, i) /\ Describes(s, i)
  BY <1>2 DEF Reported, WasAbnormal, Describes
<1>4. ChangesOf(s, i) = {} /\ UpdatesOf(j) = {}
  <2>1. Len(<<>>) = 0 /\ DOMAIN events[j] = {} /\ \A v \in 2 .. 0 : FALSE
    BY <1>2
  <2> QED BY <1>2, <2>1 DEF ChangesOf, UpdatesOf
<1>5. SourcesKnown(s, i)
  BY <1>2 DEF SourcesKnown, j
<1> QED BY <1>3, <1>4, <1>5 DEF Tracks, j

--------------------------------------------------------------------------------
\* No step takes a revision or an event back, or writes it anew.
RevisionsGrow(s) ==
    \A v \in 1 .. Len(revisions[s]) : v \in 1 .. Len(revisions'[s]) /\ revisions'[s][v] = revisions[s][v]
NothingRewritten == (\A s \in Submissions : RevisionsGrow(s)) /\ (\A j \in IssueIds : Grows(j))

LEMMA AppendedRevisions ==
    ASSUME SInv, NEW d \in Submissions, NEW r \in Revision, NewRevision(d, r), NEW s \in Submissions
    PROVE  RevisionsGrow(s)
<1>1. revisions[s] \in Seq(Revision)
  BY DEF SInv, RowsTypeOK
<1>2. CASE s = d
  <2>1. /\ revisions'[s] = Append(revisions[s], r) /\ Len(revisions'[s]) = Len(revisions[s]) + 1
        /\ Len(revisions[s]) \in Nat
    BY <1>1, <1>2 DEF NewRevision
  <2> QED BY <1>1, <2>1 DEF RevisionsGrow
<1>3. CASE s # d
  BY <1>3 DEF NewRevision, RevisionsGrow
<1> QED BY <1>2, <1>3

LEMMA NextRewritesNothing == ASSUME SInv, IInv, [Next]_vars PROVE NothingRewritten
<1>1. ASSUME NEW j \in IssueIds, Untouched(j) \/ Aside(j) \/ ~Reported(j) PROVE Grows(j)
  <2>1. events[j] \in Seq(Event) /\ (~Reported(j) => events[j] = <<>>)
    BY DEF IInv, IssuesTypeOK, HistoryOf
  <2>2. CASE Untouched(j)
    BY <2>2 DEF Untouched, Grows
  <2>3. CASE Aside(j)
    <3>1. PICK e \in Event : events'[j] = Append(events[j], e)
      BY <2>3 DEF Aside
    <3>2. Len(events'[j]) = Len(events[j]) + 1 /\ Len(events[j]) \in Nat
      BY <2>1, <3>1
    <3> QED BY <2>1, <3>1, <3>2 DEF Grows
  <2>4. CASE ~Reported(j)
    BY <2>1, <2>4 DEF Grows
  <2> QED BY <1>1, <2>2, <2>3, <2>4
<1>2. CASE UNCHANGED revisions /\ (UNCHANGED issueVars \/ IssuesNext)
  <2>1. \A s \in Submissions : RevisionsGrow(s)
    BY <1>2 DEF RevisionsGrow
  <2>2. UNCHANGED issueVars => \A j \in IssueIds : Untouched(j)
    BY DEF issueVars, Untouched
  <2> QED BY <1>1, <1>2, <2>1, <2>2, IssuesAside DEF NothingRewritten
<1>3. ASSUME NEW d \in Submissions, NEW r \in Revision, NewRevision(d, r), AnswersRecorded(d, r.answers)
      PROVE  NothingRewritten
  <2>1. PICK by \in Admins \cup {None}, urgency \in BOOLEAN, now \in Nat :
           RecordIssues(d, Len(revisions[d]) + 1, by, AnswersBefore(d), r.answers, urgency, now)
    BY <1>3 DEF AnswersRecorded
  <2>2. r.answers \in Answers /\ Len(revisions[d]) + 1 \in Nat \ {0}
    BY DEF Revision, SInv, RowsTypeOK
  <2>3. /\ \A k \in Items : ItemRecorded(d, k, Len(revisions[d]) + 1, AnswersBefore(d), r.answers)
        /\ \A j \in IssueIds : (\A k \in Items : j # <<d, k>>) => Untouched(j)
    BY <2>1, <2>2, IssuesRecorded
  <2>4. ASSUME NEW k \in Items PROVE Grows(<<d, k>>)
    <3>1. <<d, k>> \in IssueIds
      BY ItemsOfIssues
    <3> QED BY <1>1, <2>3, <3>1 DEF ItemRecorded, Opens, Updates
  <2>5. \A j \in IssueIds : Grows(j)
    BY <1>1, <2>3, <2>4
  <2> QED BY <1>3, <2>5, AppendedRevisions DEF NothingRewritten
<1>4. ASSUME NEW d \in Submissions, NEW r \in Revision, NewRevision(d, r), SameAnswers(d, r.answers)
      PROVE  NothingRewritten
  <2>1. \A j \in IssueIds : Untouched(j)
    BY <1>4 DEF SameAnswers, issueVars, Untouched
  <2> QED BY <1>1, <1>4, <2>1, AppendedRevisions DEF NothingRewritten
<1>5. HistoryStep
  BY NextHistory
<1> QED BY <1>2, <1>3, <1>4, <1>5 DEF HistoryStep

\* The record is only added to: no operation on a checklist, and none on an issue, changes a
\* revision or an event that is there, although a checklist writes the histories of many issues
\* at once (addRevision(), recordIssues(), admin-issues.service.ts:281).
THEOREM HistoriesAreNeverRewritten == Spec => [][NothingRewritten]_vars
<1>1. SInv /\ IInv /\ [Next]_vars => [NothingRewritten]_vars
  BY NextRewritesNothing
<1> QED BY BothInvariants, <1>1, PTL DEF Spec

--------------------------------------------------------------------------------
\* Rows, issues and how they belong together, of one state.
AllInv == SInv /\ IInv /\ TInv

LEMMA AllInvariants == Spec => []AllInv
<1>1. Init => AllInv
  BY InitSInv, InitIInv, InitTInv DEF Init, AllInv
<1>2. AllInv /\ [Next]_vars => AllInv'
  BY NextSInv, NextIInv, NextTInv DEF AllInv
<1> QED BY <1>1, <1>2, PTL DEF Spec

\* An item has an issue once it was abnormal, every change of its answer since then is one event
\* that names the revision, and the issue describes the latest abnormal answer, for any number of
\* corrections, administrators and changes of the issue between them (recordIssues()).
THEOREM IssuesFollowAnswers == Spec => []IssuesTrackAnswers
<1>1. TInv => IssuesTrackAnswers
  BY DEF TInv, Tracks, WasAbnormal, Was, ChangesOf, UpdatesOf, Describes, IssuesTrackAnswers
<1> QED BY AllInvariants, <1>1, PTL DEF AllInv

--------------------------------------------------------------------------------
\* What readers find of a checklist that was submitted.
LEMMA StoredRecords ==
    ASSUME SInv, NEW s \in Submissions, Started(s), ~Is(s, "DRAFT")
    PROVE  /\ Stored(s) /\ HeadMatches(s) /\ Latest(s).stay = subs[s].stay
           /\ subs[s].revision \in Nat /\ Len(revisions[s]) = subs[s].revision
           /\ DOMAIN revisions[s] = 1 .. subs[s].revision /\ subs[s].revision \in 1 .. subs[s].revision
           /\ Latest(s) = revisions[s][subs[s].revision]
           /\ \A v \in 1 .. subs[s].revision : Parses(s, v)
           /\ subs[s].type # "MAINTENANCE" => Attributed(s)
<1>1. /\ subs[s] \in Submission /\ revisions[s] \in Seq(Revision) /\ RecordSound(s) /\ LinkSound(s) /\ Intact(s)
  BY DEF SInv, RowsTypeOK, Started, RecordSound
<1>2. Stored(s)
  BY <1>1 DEF Stored, Is, Submission
<1>3. HeadMatches(s) /\ Latest(s).stay = subs[s].stay /\ Latest(s) = revisions[s][subs[s].revision]
  BY <1>1 DEF HeadMatches, Intact, Latest, Last
<1>4. /\ subs[s].revision \in Nat /\ Len(revisions[s]) = subs[s].revision /\ subs[s].revision > 0
      /\ DOMAIN revisions[s] = 1 .. subs[s].revision
  BY <1>1 DEF Intact, Submission
<1>5. subs[s].type # "MAINTENANCE" => OfGuest(s)
  BY <1>1, TypesAreTypes DEF OfGuest, GuestTypes, Submission
<1>6. ASSUME NEW v \in 1 .. subs[s].revision PROVE Parses(s, v)
  <2>1. /\ RevisionSound(revisions[s], v) /\ Complete(revisions[s][v].answers)
        /\ OfGuest(s) => revisions[s][v].answers \in GuestAnswers
    BY <1>1, <1>4 DEF RecordSound, AnswersSound
  <2> QED BY <1>5, <2>1 DEF Parses, Prepared, RevisionSound
<1>7. Private(s) => subs[s].stay # None
  BY <1>1, NoneIsNoSubmission DEF LinkSound
<1> QED BY <1>2, <1>3, <1>4, <1>5, <1>6, <1>7 DEF Attributed

\* And of an issue that was reported.
LEMMA ReportedRecords ==
    ASSUME SInv, IInv, TInv, NEW i \in IssueIds, Reported(i)
    PROVE  /\ CurrentShows(i) /\ IssueReportShows(i) /\ issues[i].version \in 1 .. issues[i].version
           /\ DOMAIN events[i] = 1 .. issues[i].version /\ issues[i].version \in Nat
           /\ \A v \in 1 .. issues[i].version : EventShows(i, v) /\ (v = 1 => events[i][v].type = "REPORTED")
<1>1. /\ Readable(i) /\ issues[i] \in Issue /\ events[i] \in Seq(Event) /\ HistoryOf(i) /\ EventsAreSound(i)
      /\ issues[i].version # 0
  BY DEF IInv, IssuesTypeOK, HistoryOf, Reported, RowIsSound
<1> DEFINE n == issues[i].version
<1>2. n \in Nat /\ Len(events[i]) = n /\ n \in 1 .. n /\ 1 \in 1 .. n /\ DOMAIN events[i] = 1 .. n
  BY <1>1 DEF Readable, Issue
<1>3. ASSUME NEW v \in 1 .. n
      PROVE  /\ EventShows(i, v) /\ IssueParses(i, v) /\ SourceShows(i, v)
             /\ events[i][v].to = events[i][v].snapshot.status
             /\ events[i][v].type = "REPORTED" <=> v = 1
             /\ events[i][v].from = None <=> v = 1
             /\ v = 1 => events[i][v].to = "NEW"
  <2> DEFINE e == events[i][v]
  <2>1. /\ e.snapshot.version = v /\ e.to = e.snapshot.status
        /\ e.from = (IF v = 1 THEN None ELSE events[i][v - 1].to)
    BY <1>1, <1>2 DEF HistoryOf
  <2>2. /\ RowParses(i, e.snapshot) /\ (e.type = "REPORTED" <=> v = 1) /\ (v = 1 => e.to = "NEW")
        /\ e.revision # 0 => i \in ChecklistIds
        /\ i \in ChecklistIds /\ e.type \in {"REPORTED", "REPAIR_REPORTED"} => e.revision # 0
    BY <1>1, <1>2 DEF EventsAreSound, EventIsSound
  <2>3. e \in Event
    BY <1>1, <1>2, ElementOfSeq
  <2>4. e.from = None <=> v = 1
    <3>1. v # 1 => v - 1 \in 1 .. Len(events[i])
      BY <1>2
    <3>2. v # 1 => events[i][v - 1] \in Event
      BY <1>1, <3>1, ElementOfSeq
    <3>3. None \notin Statuses
      BY NoneIsNoIssue
    <3> QED BY <2>1, <3>2, <3>3 DEF Event
  <2>5. IssueParses(i, v)
    BY <2>1, <2>2 DEF IssueParses, RowParses
  <2>6. e.revision # 0 => e.revision \in DOMAIN revisions[i[1]]
    <3> SUFFICES ASSUME e.revision # 0 PROVE e.revision \in DOMAIN revisions[i[1]]
      OBVIOUS
    <3>1. PICK s \in Submissions, k \in Items : i = <<s, k>>
      BY <2>2, ItemsHaveIssues
    <3>2. SourcesKnown(s, k) /\ revisions[s] \in Seq(Revision)
      BY DEF TInv, Tracks, SInv, RowsTypeOK
    <3>3. e.revision \in Nat /\ e.revision <= Len(revisions[s])
      BY <1>2, <2>3, <3>1, <3>2 DEF SourcesKnown, Event
    <3>4. DOMAIN revisions[s] = 1 .. Len(revisions[s]) /\ Len(revisions[s]) \in Nat
      BY <3>2
    <3>5. e.revision \in DOMAIN revisions[s]
      BY <3>3, <3>4
    <3> QED BY <3>1, <3>5
  <2>7. SourceShows(i, v)
    BY <2>2, <2>6 DEF SourceShows, FromChecklist
  <2>8. v <= n
    BY <1>2
  <2> QED BY <2>1, <2>2, <2>4, <2>5, <2>7, <2>8 DEF EventShows
<1>4. CurrentShows(i)
  BY <1>1, <1>2, <1>3 DEF CurrentShows
<1>5. IssueReportShows(i)
  <2>1. Last(events[i]) = events[i][n]
    BY <1>2 DEF Last
  <2> HIDE DEF n
  <2>2. /\ SourceShows(i, n) /\ events[i][n].to = events[i][n].snapshot.status
        /\ (n = 1) = (events[i][n].type = "REPORTED") /\ (n = 1) = (events[i][n].from = None)
        /\ n = 1 => events[i][n].to = "NEW"
    BY <1>2, <1>3
  <2> QED BY <1>4, <2>1, <2>2 DEF IssueReportShows, n
<1> QED BY <1>2, <1>3, <1>4, <1>5

\* As many versions are read as are stored: they are the same ones.
LEMMA SameVersions == SInv /\ IInv => VersionsRead = VersionsStored
<1> SUFFICES ASSUME SInv, IInv PROVE VersionsRead = VersionsStored
  OBVIOUS
<1>1. UNION {{s} \X (1 .. subs[s].revision) : s \in {s \in Submissions : Stored(s)}}
      = UNION {{s} \X DOMAIN revisions[s] : s \in Submissions}
  <2>1. ASSUME NEW s \in Submissions, Stored(s) PROVE DOMAIN revisions[s] = 1 .. subs[s].revision
    BY <2>1, StoredRecords DEF Stored, Is
  <2>2. ASSUME NEW s \in Submissions, ~Stored(s) PROVE DOMAIN revisions[s] = {}
    <3>1. ~Started(s) \/ Is(s, "DRAFT")
      BY <2>2, StoredRecords
    <3>2. revisions[s] = <<>>
      BY <3>1 DEF SInv, RecordSound
    <3> QED BY <3>2
  <2> QED BY <2>1, <2>2
<1>2. UNION {{i} \X (1 .. issues[i].version) : i \in {i \in IssueIds : Reported(i)}}
      = UNION {{i} \X DOMAIN events[i] : i \in IssueIds}
  <2>1. ASSUME NEW i \in IssueIds, Reported(i) PROVE DOMAIN events[i] = 1 .. issues[i].version
    <3>1. Readable(i) /\ events[i] \in Seq(Event)
      BY <2>1 DEF IInv, HistoryOf, IssuesTypeOK
    <3> QED BY <3>1 DEF Readable
  <2>2. ASSUME NEW i \in IssueIds, ~Reported(i) PROVE DOMAIN events[i] = {}
    <3>1. events[i] = <<>>
      BY <2>2 DEF IInv, HistoryOf
    <3> QED BY <3>1
  <2> QED BY <2>1, <2>2
<1> QED BY <1>1, <1>2 DEF VersionsRead, VersionsStored

LEMMA NoneRefused == AllInv => NothingIsRefused
<1> SUFFICES ASSUME SInv, IInv, TInv PROVE NothingIsRefused
  BY DEF AllInv
<1>1. ASSUME NEW s \in Submissions, Stored(s)
      PROVE  /\ ListShows(s) /\ DetailShows(s) /\ HistoryShows(s) /\ GuestSees(s) /\ ReportShows(s) /\ ArchiveShows(s)
             /\ OfGuest(s) /\ ~Private(s) /\ Is(s, "SUBMITTED") => StayRecordShows(s)
  <2>1. Started(s) /\ ~Is(s, "DRAFT")
    BY <1>1 DEF Stored, Is
  <2>2. /\ HeadMatches(s) /\ Latest(s).stay = subs[s].stay
        /\ subs[s].revision \in Nat /\ Len(revisions[s]) = subs[s].revision
        /\ DOMAIN revisions[s] = 1 .. subs[s].revision /\ subs[s].revision \in 1 .. subs[s].revision
        /\ Latest(s) = revisions[s][subs[s].revision]
        /\ \A v \in 1 .. subs[s].revision : Parses(s, v)
        /\ subs[s].type # "MAINTENANCE" => Attributed(s)
    BY <2>1, StoredRecords
  <2>3. \A v \in 1 .. subs[s].revision : RevisionShows(s, v)
    BY <2>2 DEF RevisionShows
  <2>4. ListShows(s) /\ DetailShows(s) /\ HistoryShows(s)
    BY <1>1, <2>2, <2>3 DEF ListShows, DetailShows, HistoryShows
  <2>5. GuestSees(s) /\ ReportShows(s)
    BY <2>2 DEF GuestSees, ReportShows
  <2>6. ArchiveShows(s)
    BY <2>2 DEF ArchiveShows, HeadMatches
  <2> QED BY <2>2, <2>4, <2>5, <2>6 DEF StayRecordShows
<1>2. \A s \in Unlinked : StayRecordShows(s)
  BY <1>1 DEF Unlinked, Stored
<1>3. \A i \in IssueIds : Reported(i) => RecurrenceListShows(i) /\ IssueHistoryShows(i) /\ IssueArchiveShows(i)
  <2> SUFFICES ASSUME NEW i \in IssueIds, Reported(i)
               PROVE  RecurrenceListShows(i) /\ IssueHistoryShows(i) /\ IssueArchiveShows(i)
    OBVIOUS
  <2>1. /\ CurrentShows(i) /\ issues[i].version \in 1 .. issues[i].version
        /\ DOMAIN events[i] = 1 .. issues[i].version /\ issues[i].version \in Nat
        /\ \A v \in 1 .. issues[i].version : EventShows(i, v) /\ (v = 1 => events[i][v].type = "REPORTED")
    BY ReportedRecords
  <2>2. 1 \in 1 .. issues[i].version
    BY <2>1
  <2>3. IssueDetailShows(i) /\ IssueHistoryShows(i) /\ IssueArchiveShows(i)
    BY <2>1, <2>2 DEF IssueDetailShows, IssueHistoryShows, IssueArchiveShows, EventShows
  <2>4. \A j \in Candidates(i) : CurrentShows(j)
    BY ReportedRecords DEF Candidates
  <2> QED BY <2>3, <2>4 DEF RecurrenceListShows
<1>4. IssueListShows
  BY ReportedRecords DEF IssueListShows
<1>5. ReportOpens /\ ArchiveOpens
  BY <1>1, <1>3, ReportedRecords DEF ReportOpens, ArchiveOpens, Stored
<1>6. VersionsRead = VersionsStored
  BY SameVersions
<1> QED BY <1>1, <1>2, <1>3, <1>4, <1>5, <1>6 DEF NothingIsRefused

\* No list, detail, history, report or archive refuses a record that guests and administrators
\* left, in whatever order they wrote (preservation-report-reader.service.ts,
\* admin-issue-record.ts).
THEOREM ReadersRefuseNothing == Spec => []NothingIsRefused
<1> QED BY AllInvariants, NoneRefused, PTL

--------------------------------------------------------------------------------
\* What the calendar reads of a checklist that is linked to x.
LEMMA LinkedRecords ==
    ASSUME SInv, NEW x \in Stays, NEW type \in GuestTypes, NEW s \in LinkedTo(x, type)
    PROVE  /\ s \in Submissions /\ Latest(s).match # None
           /\ ReviewReasons(s, x) = (IF ~Private(s) /\ ~stays[x].fits THEN {"VISIT_DATE_MISMATCH"} ELSE {})
                                    \cup (IF ChangedSince(s, x) THEN {"STAY_CHANGED"} ELSE {})
           /\ ~Private(s) /\ ~stays[x].fits => ChangedSince(s, x)
           /\ Private(s) /\ Accessible(s) => ~ChangedSince(s, x)
<1>1. /\ s \in Submissions /\ Started(s) /\ ~Is(s, "DRAFT") /\ subs[s].stay = x /\ subs[s].type = type
      /\ type # "MAINTENANCE" /\ x # None
  BY NoneIsNoSubmission DEF LinkedTo, Is, GuestTypes
<1>2. LinkSound(s)
  BY <1>1 DEF SInv
<1>3. Latest(s).match # None /\ Latest(s).match.stay = x
  BY <1>1, <1>2 DEF LinkSound
<1>4. ~Contradicts(s, x)
  BY <1>1, <1>3, StoredRecords DEF Contradicts
<1>5. ~Private(s) /\ ~stays[x].fits => ChangedSince(s, x)
  BY <1>1, <1>2, <1>3 DEF LinkSound, ChangedSince
<1>6. Private(s) /\ Accessible(s) => ~ChangedSince(s, x)
  BY <1>1, <1>2, <1>3 DEF LinkSound, ChangedSince, Accessible, Invited
<1> QED BY <1>1, <1>3, <1>4, <1>5, <1>6 DEF ReviewReasons

LEMMA TwoAreMore ==
    ASSUME NEW S, IsFiniteSet(S), NEW a \in S, NEW b \in S, a # b
    PROVE  Cardinality(S) > 1
<1>1. IsFiniteSet({a}) /\ Cardinality({a}) = 1
  BY FS_Singleton
<1>2. Cardinality({a} \cup {b}) = 2
  BY <1>1, FS_AddElement
<1>3. {a} \cup {b} \in SUBSET S
  OBVIOUS
<1>4. Cardinality({a} \cup {b}) <= Cardinality(S) /\ Cardinality(S) \in Nat
  BY <1>3, FS_Subset, FS_CardinalityType
<1> QED BY <1>2, <1>4

\* A reservation shows the remarks of the one checklist that is linked to it.
LEMMA CalendarOfOne ==
    ASSUME NEW x, NEW type, NEW s \in LinkedTo(x, type)
    PROVE  Calendar(x, type) = {"DUPLICATE_SUBMISSIONS"} \/ Calendar(x, type) = ReviewReasons(s, x)
<1>1. CASE Cardinality(LinkedTo(x, type)) > 1
  BY <1>1 DEF Calendar
<1>2. CASE ~(Cardinality(LinkedTo(x, type)) > 1)
  <2>1. IsFiniteSet(LinkedTo(x, type))
    BY TablesAreFinite, FS_Subset DEF LinkedTo
  <2>2. \A d \in LinkedTo(x, type) : d = s
    BY <1>2, <2>1, TwoAreMore
  <2>3. LinkedTo(x, type) = {s}
    BY <2>2
  <2>4. Calendar(x, type) = UNION {ReviewReasons(d, x) : d \in LinkedTo(x, type)}
    BY <1>2 DEF Calendar
  <2>5. UNION {ReviewReasons(d, x) : d \in {s}} = ReviewReasons(s, x)
    OBVIOUS
  <2> QED BY <2>3, <2>4, <2>5
<1> QED BY <1>1, <1>2

LEMMA CalendarOfNone ==
    ASSUME NEW x, NEW type, LinkedTo(x, type) = {}
    PROVE  Calendar(x, type) = {}
<1>1. Cardinality({}) = 0
  BY FS_EmptySet
<1> QED BY <1>1 DEF Calendar

\* As many reservations are called submitted as have a checklist, each one of its own.
LEMMA DashboardCounts ==
    ASSUME NEW type
    PROVE  Dashboard(type, "SUBMITTED") <= Cardinality({s \in Submissions : Is(s, "SUBMITTED") /\ subs[s].type = type})
<1> DEFINE A == {x \in CalendarStays : stays[x].fits /\ ChecklistStatus(x, type) = "SUBMITTED"}
           B == {s \in Submissions : Is(s, "SUBMITTED") /\ subs[s].type = type}
           f == [x \in A |-> CHOOSE s \in LinkedTo(x, type) : TRUE]
<1>1. ASSUME NEW x \in A PROVE f[x] \in LinkedTo(x, type)
  <2>1. LinkedTo(x, type) # {}
    BY DEF ChecklistStatus
  <2> QED BY <2>1
<1>2. \A x \in A : f[x] \in B /\ subs[f[x]].stay = x
  BY <1>1 DEF LinkedTo
<1>3. f \in [A -> B]
  <2>1. f = [x \in A |-> f[x]]
    OBVIOUS
  <2> HIDE DEF f, A, B
  <2> QED BY <1>2, <2>1
<1>4. DOMAIN f = A
  OBVIOUS
<1> HIDE DEF f, A, B
<1>5. f \in Injection(A, B)
  BY <1>2, <1>3, <1>4 DEF Injection, IsInjective
<1>6. IsFiniteSet(B)
  BY TablesAreFinite, FS_Subset DEF B
<1>7. Cardinality(A) <= Cardinality(B)
  BY <1>5, <1>6, FS_Injection
<1> QED BY <1>7 DEF Dashboard, A, B

LEMMA TrueCalendar == SInv => CalendarIsTrue
<1> SUFFICES ASSUME SInv PROVE CalendarIsTrue
  OBVIOUS
<1>1. ASSUME NEW x \in CalendarStays, NEW type \in GuestTypes
      PROVE  LET linked == LinkedTo(x, type)
                 shown == Calendar(x, type)
             IN /\ shown \cap {"INVALID_SUBMISSION_RECORD", "MISSING_MATCH_CONTEXT"} = {}
                /\ "VISIT_DATE_MISMATCH" \in shown => "STAY_CHANGED" \in shown
                /\ linked # {} /\ shown = {} => \A s \in linked : ~Private(s) => stays[x].fits
                /\ \A s \in linked : Private(s) /\ Accessible(s) => "STAY_CHANGED" \notin shown
  <2>1. x \in Stays
    BY DEF CalendarStays
  <2> DEFINE linked == LinkedTo(x, type)
             shown == Calendar(x, type)
  <2>2. ASSUME NEW s \in linked
        PROVE  /\ shown \cap {"INVALID_SUBMISSION_RECORD", "MISSING_MATCH_CONTEXT"} = {}
               /\ "VISIT_DATE_MISMATCH" \in shown => "STAY_CHANGED" \in shown
               /\ shown = {} /\ ~Private(s) => stays[x].fits
               /\ Private(s) /\ Accessible(s) => "STAY_CHANGED" \notin shown
    <3>1. shown = {"DUPLICATE_SUBMISSIONS"} \/ shown = ReviewReasons(s, x)
      BY CalendarOfOne
    <3>2. /\ ReviewReasons(s, x) = (IF ~Private(s) /\ ~stays[x].fits THEN {"VISIT_DATE_MISMATCH"} ELSE {})
                                   \cup (IF ChangedSince(s, x) THEN {"STAY_CHANGED"} ELSE {})
          /\ ~Private(s) /\ ~stays[x].fits => ChangedSince(s, x)
          /\ Private(s) /\ Accessible(s) => ~ChangedSince(s, x)
      BY <2>1, LinkedRecords
    <3> HIDE DEF shown, linked
    <3>3. CASE shown = {"DUPLICATE_SUBMISSIONS"}
      BY <3>3
    <3>4. CASE shown = ReviewReasons(s, x)
      BY <3>2, <3>4
    <3> QED BY <3>1, <3>3, <3>4
  <2>3. linked = {} => shown = {}
    BY CalendarOfNone
  <2> HIDE DEF linked, shown
  <2>4. /\ shown \cap {"INVALID_SUBMISSION_RECORD", "MISSING_MATCH_CONTEXT"} = {}
        /\ "VISIT_DATE_MISMATCH" \in shown => "STAY_CHANGED" \in shown
    <3>1. CASE linked = {}
      BY <2>3, <3>1
    <3>2. CASE linked # {}
      <4>1. PICK s \in linked : TRUE
        BY <3>2
      <4> QED BY <2>2, <4>1
    <3> QED BY <3>1, <3>2
  <2> QED BY <2>2, <2>4 DEF linked, shown
<1>2. ASSUME NEW s \in Unlinked, NEW x \in StayCandidates \ AlreadyLinked(s)
      PROVE  x \in CalendarStays /\ ChecklistStatus(x, subs[s].type) = "NOT_SUBMITTED"
  <2>1. s \in Submissions /\ subs[s].stay = None /\ x \in Stays /\ stays[x].active /\ x # None
    BY NoneIsNoSubmission DEF Unlinked, StayCandidates
  <2>2. LinkedTo(x, subs[s].type) = {}
    <3> SUFFICES ASSUME NEW d \in LinkedTo(x, subs[s].type) PROVE FALSE
      OBVIOUS
    <3>1. d \in Submissions \ {s} /\ Is(d, "SUBMITTED") /\ subs[d].stay = x /\ subs[d].type = subs[s].type
      BY <2>1 DEF LinkedTo
    <3>2. x \in AlreadyLinked(s)
      BY <3>1 DEF AlreadyLinked
    <3> QED BY <3>2
  <2> QED BY <2>1, <2>2 DEF CalendarStays, ChecklistStatus
<1> QED BY <1>1, <1>2, DashboardCounts DEF CalendarIsTrue

\* A checklist the calendar shows without a remark is for a reservation that is still on its day,
\* a guest who can still open theirs has not fallen behind it, and none is called submitted that
\* has no checklist of its own (admin-calendar.service.ts, admin-dashboard.service.ts).
THEOREM CalendarStaysTrue == Spec => []CalendarIsTrue
<1> QED BY SubmissionsInvariant, TrueCalendar, PTL
================================================================================
