# Retreat API: specifications and proofs

TLA+ modules of the retreat API (NestJS, Prisma, PostgreSQL, S3, SOLAPI), TLC
configurations that check them on small instances, and TLAPS proofs for all instances.
Paths below are relative to `src/`, the repository; components live in
`src/components/` of it.

`PROJECT.json` maps every definition to the lines it models and lists the runs, the faulty
variants ("mutants") that each property refutes, the hazards, the theorems and the findings.

1. [The system](#1-the-system)
2. [Plan](#2-plan)
3. [Modules, runs and proofs](#3-modules-runs-and-proofs)
4. [Where code and documents disagree](#4-where-code-and-documents-disagree)
5. [What is only model-checked](#5-what-is-only-model-checked)
6. [Not modelled](#6-not-modelled)

## 1. The system

An administration site books company retreat houses, cleaning staff work through tasks that
they open by QR code, guests fill in checklists and report complaints over links and QR
codes, and notices go out by SMS. All state is in PostgreSQL, except for photo bytes and
workbooks in S3 and what the SMS provider knows. Servers are stateless; several may run.

Three conventions shape the code and the models:

* `runSerializableTransaction()` (`database/serializable-transaction.ts`) runs a transaction
  at most three times and answers `CONCURRENT_UPDATE` if it still conflicts. A committed
  transaction is therefore **one action** here, and one that gives up changes nothing.
* Whatever a client read before is stale when it is used: rows carry a version, revision or
  `updatedAt` that the client sends back. What is read in one transaction and used in another
  is modelled as two actions with the value kept in between.
* Answers are lost and requests are sent again. Where the code recognizes a repetition, the
  modules keep the set of requests that were answered with success (`acks`, `replies`,
  `receipts`), and a property relates that set to what is stored, however much later.

### Inventory

| Component | State it keeps | Operations | Hard part | What makes it correct | Module |
|---|---|---|---|---|---|
| `messaging` | `MessageDispatch` rows; SOLAPI's messages | preview, send, sendAutomatic, refresh | provider calls outside transactions, lost answers, crashes, refreshes that overtake each other | one notice per event, one request per key, truthful rows, no regression, every SENDING ends | `MessageDispatch` |
| `message-automation` | state row with lease, targets, jobs | tick: recover, observe, dispatch, refresh, release | several runners, expired leases, key rotation, crash between attempt and record | sent as scheduled, current events, recorded attempts, every change noticed | `MessageAutomation` |
| `attachments`, `guest-issue-photos` | `Attachment` rows, S3 objects | reserve, put, finalize, recover, remove, claim | S3 is not transactional; puts arrive late | evidence keeps its bytes, nothing is left behind, limits hold | `PhotoUploads` |
| `upload-cleanup` | deletion marks on `Attachment` | scan, claim, delete, acknowledge | races with uploads and submissions; interrupted runs | confirmed deletions are real; everything abandoned is deleted | `PhotoUploads` |
| `stays` | `Stay`, `StayRevision` | create, update, cancel, restore | overlap across rows; stale pages | no double booking; tasks follow | `Bookings` |
| `cleaning-tasks` | `CleaningTask` | create, update, cancel, sync with stays, reconcile | created and changed by reservations, administrators and staff | a task follows its stay until it is completed or deliberately cancelled | `Bookings` |
| `staff-cleaning-tasks`, `cleaning-task-access` | task and draft together | start, hand over, show the code, complete | assignee, QR, code and neighbours change meanwhile | one open draft per task; what was confirmed is what is true | `CleaningWork` |
| `admin-stay-access`, `admin-property-access` | door codes, settings | save | three versions; neighbours | a stale code is flagged | `CleaningWork` |
| `guest-stays` | none | page, reveal | read in one transaction, revealed in another | no guest sees a code that was not announced | `GuestCodes` |
| `admin-users` | users, properties, work links | deactivate, activate | a link must not come back with its author | no work link survives | `CleaningWork`, `Maintenance` |
| `submission-drafts`, `submissions` | `ChecklistSubmission`, revisions | start, save, submit | retries after lost answers, two tabs | submitted once, as shown; a repetition gets the receipt | `Submissions` |
| `admin-submissions`, `guest-submissions` | revisions | correct, cancel, restore | replays after later revisions; two sides at once | consecutive revisions; photos and issues kept | `Submissions` |
| `admin-submission-stays` | the link of a checklist | link, unlink | two checklists, moving reservations | links are deliberate | `Submissions` |
| `admin-stay-links`, `stay-access` | an invitation | issue, revoke, resolve | bound to a revision of the reservation | an old link opens nothing | `Submissions` |
| `admin-issues`, `guest-issues`, `admin-issue-categories` | `Issue`, events, categories | report, note, status, urgency, recurrence, cancel, restore | versions, repetitions, chains of recurrences | row and history agree; no circle | `Issues` |
| reports, calendar, dashboard, lists, details, histories | none | read | each refuses records that contradict themselves, and its page with them | whatever was written can be read; what is shown is true | `Readers` |
| `checklist-templates`, the backfill command | templates and their archive | create, change, backfill | a release without an archive is still running | the archive is a true history | `Templates` |
| maintenance checklists and their list | drafts, links, assignments | start, save, submit, correct, deactivate, list | list and link read other tables | the list says what the link does | `Maintenance` |
| `admin-stay-imports` | batches, their rows, a workbook in S3 | upload, review, confirm | S3 beside a transaction; reservations change in between | confirmed once, as shown, without overlaps; the file is kept | `StayImports` |
| vehicles, guides, accounts, photo slots, health | see section 6 | | | | none |

### Interactions

* A stay's write transaction creates, moves or cancels its cleaning task
  (`syncCleaningTaskForStay`); an import writes several stays with their tasks at once;
  `message-automation` later notices either by comparing fingerprints, without being called.
* Starting a task creates or resumes a draft; submitting the draft completes the task, reads
  the door code's versions of the next stay and makes the draft's photos evidence.
* Submitting or correcting a checklist opens, and rewords, issues of its items, which
  administrators handle at the same time; an issue's event names the revision it came from.
* A draft that began with an invitation is good only while the invitation and the revision
  of its reservation are; the calendar compares links with reservations that moved since.
* `upload-cleanup` shares nothing with uploads but the `Attachment` rows: a generation
  (`storageCleanupAttemptedAt`) that either advances invalidates the other's knowledge.
* `message-automation` sends through `messaging`, whose deduplication keys it shares with
  administrators.

## 2. Plan

The modules were written in the order in which the behaviour matters, each with its run and
then its proofs:

1. `MessageDispatch` with the abstract `NoticeClaims`: claims, provider, refreshes. *Done.*
2. `MessageAutomation`, which uses what (1) promises of an attempt. *Done.*
3. `PhotoUploads` with the cleanup. *Done.*
4. The cleaning work: `Bookings`, reservations with their tasks, as the abstract specification
   of `CleaningWork`, and `GuestCodes` on top of it. *Done.*
5. `Issues`, then `Submissions`, which composes it, then `Readers` over both. *Done.*
6. `Templates` and `Maintenance`. *Done.*
7. `StayImports`, which composes `Bookings`. *Done.*

Every safety and action property that a run checks is the statement of a theorem. What would
come next: the abstract specification of what `MessageAutomation` uses of `MessageDispatch`
(its `attempts`) as a refinement, and vehicles and guides should something ever read them.

How the modules are composed:

```
Bookings --- CleaningWork --- GuestCodes          Issues --- Submissions --- Readers
   \--- StayImports                               Templates --- Maintenance
NoticeClaims <== MessageDispatch                  MessageAutomation   PhotoUploads
Bookings     <== CleaningWork
```

A line is EXTENDS: the module on the right has all actions of the one on its left as steps of
its own. A double arrow is a refinement that is checked and proved. `MC...` modules hold the
symmetry and the bounds of a run, `...Proofs` modules the theorems of the module they are
named after (`CleaningWorkProofs` also those of `GuestCodes`, `MaintenanceProofs` also those
of `Templates`, `SubmissionsProofs` those of `Issues` and `Readers`).

## 3. Modules, runs and proofs

Every run states the safety that its module is about as invariants or action properties;
types are proved, so runs do not spend time on them. Bounds are constants (`Max...`) that the
guards or a state constraint name. Deadlock is not checked where identifiers are used up.

### MessageDispatch, NoticeClaims

`messaging/messaging.service.ts`, `messaging/solapi.provider.ts`.

`row` is the `MessageDispatch` table by request key, `call` the executions of `dispatch()`
(one pc per await between which others run), `refresh` those of `refresh()`, `context` what a
notice is about by now, `provider` and `submissions` what SOLAPI did. `Lookup`, `Claim`,
`Preflight`, `Send` and `Record`, with the ways each of them may end, are the pieces of
`dispatch()` in order; `RefreshRead`, `RefreshExpire`, `RefreshLookup`, `RefreshStore` those of
`refresh()`. An execution may crash anywhere, the provider delivers or not, the subject changes.
A message's text and recipient are a `detail`.

`NoticeClaims` says what the service promises: an event is claimed, at most one message is
submitted under a claim, and a claim is given up only when its message will never arrive.
`Claims` in `MessageDispatch` maps the table and the provider to it; the theorem `Refinement`
proves `Spec => KeepsClaims`.

| Run | Bounds | Shows |
|---|---|---|
| `dispatch_claims` | 2 executions, 2 keys, 1 notice, 1 refresh, 1 change | `OneNoticePerEvent`, `OneSubmissionPerKey`, `CheckedBeforeSend` |
| `dispatch_refreshes` | 1 execution, 2 refreshes of its row, fair | `TruthfulRows`, `NoRegression`, `SendingEnds` |
| `dispatch_original` | 2 executions, 2 keys | the finding of section 4 |

Two executions suffice for the races because the claim is the only thing they compete for;
with the sender, two refreshes make three writers of one row.

Fairness: an execution that lives goes on, a client or administrator keeps refreshing (`SF` on
the refresh because the provider's answer may fail, but not always), and time passes.

Proved for all notices, keys, executions and refreshes: `TypeCorrect`, `OneNotice`,
`OneSubmission`, `Truthful`, `Regression`, `SentAsConfirmed`, `Refinement`. The inductive
invariant `IInv` adds to the type that claimed rows of one event are unique, that an execution
past its claim owns its row alone, that what it or a refresh carries in its local variables
about the message is true, and that an unchanged row is what a refresh saw. `TruthfulRows`
alone is not inductive: the value that is written is read from the provider a step before.
`SentAsConfirmed` needs `ClaimsAreConfirmed` besides: the row of an execution before its
request still says what the execution was started for.

### MessageAutomation

`message-automation/`. Every step of `tick()` of every runner is an action, from `ReadState`
and `TakeLease` over `RecoverOne`, `ObserveRead`/`ObserveCommit`, `PickJob`, `Check`, `Claim`,
`Send`, `Record` and `Poll` to `Release`, with `Throw` (a database failure), `Crash`, `Expire`
(the lease under a paused runner), `Rotate` (a deployment with another key), `Create` and `Edit`
of stays and tasks. `attempts` is what `MessageDispatch` shows: one row per job, whose status
never regresses.

A stay ends when time passes, not by an edit, and the code looks at that end with a time it read
before: the tick's for its observations (`message-automation.service.ts:162`), the job's for the
comparison before the preview (`message-automation.runner.ts:122`, used at 247). The runner keeps
that time in `date`, and `Closed(x, t)` is the code's test under it. The claim (`Sendable`, for
`assertReady` over `message-context.service.ts`) compares the version, the preview, the status
and whether the subject is eligible, and does not look at the end of the stay again. So a stay
may end between the moment its job is picked and the claim, and the notice still leaves; the
model has these behaviours.

| Run | Bounds | Shows |
|---|---|---|
| `automation_pauses` | 2 runners, a stay with a reminder, 1 change of the stay or the key, 1 expired lease (not with a changed key), time 0..1, jobs not late within it; requests whose result is not recorded | `SentAsScheduled`: a reminder is only requested when due under the schedule as it stands, nothing about a subject that is not eligible, and nothing about a stay that was over when its job was picked |
| `automation_settles` | 1 runner, a task, 1 change, 1 crash or failure, 2 results, fair | `TruthfulJobs`, `QueuedEventsAreCurrent`, `AttemptsAreRecorded`, `LateJobsEnd`, `ChangesAreNoticed` |

One subject at a time: subjects share nothing but the lease and the order of the pages. One
change is what it takes to make a page stale, one pause to have two runners at work, two times
to have a stay end after its job was picked, and a window longer than that (`Lateness = 1`) so
that the end of the stay is what refuses a job, not its lateness. What a request returns is of no
consequence to what is requested, so `automation_pauses` has no results; `automation_settles` has.

Fairness: a runner's timer fires for ever (`setInterval`), time passes, a lease that nobody
renews expires. What jobs say is checked with one runner: when a runner is paused for longer
than its lease, two of them observe and record at once and the later write wins, so that for a
moment a job may say less than is known. What leaves is checked with two.

Proved for all runners, subjects, schedules and bounds: `AutomationTypesAreCorrect` and
`RemindersAreSentAsScheduled` without restriction, that is with any number of paused runners,
crashes and rotated keys; `LeasesKeepRunnersApart`, `JobsAreTruthful` and
`QueuedEventsStayCurrent` while no lease has expired under a runner that went on
(`pauses = 0`; after that they are false, as said above).

`AInv` is the type with what relates a runner's memory to the rows by its place: pages hold
subjects that exist, queues hold jobs that exist and were due, a reminder's job is due when the
schedule it was printed from says (`DueAsPrinted`). The part that `SentAsScheduled` needs is
`Compared`: between the comparison of a job with its subject and the claim, either the subject
still has the job's version and then the schedule the job was printed for (`Matches`), or it was
revised and the claim, which reads it again, refuses; and that schedule ends after the `date` at
which the job was picked. It holds for a paused runner as for any other, since a change of a
subject's schedule always raises its version. That the subject is eligible and has the status
the notice is for is read by the claim itself.

`CInv` says of a runner whose lease never expired under it that the rows are as it read them
(`AsRead`): the target it compares with, the jobs of its queue, the attempts it is about to
record. It needs that only one runner is at work, which the lease gives, and it is what makes
`TruthfulJobs` inductive: a recorded status was read a step before it is written. `Calm` is
`pauses = 0 => CInv`.

### PhotoUploads

`attachments/`, `guest-issue-photos/`, `photo-processing/recover-photo-upload.ts`,
`upload-cleanup/`, `storage/`, and what submitting and starting a task does to photos.

`photo` is the `Attachment` table, `objects` the bucket, `late` the puts that their client
gave up but that may still arrive, `upload` where each `uploadPhoto()` is, `removing` the
S3 deletes that `removePhoto()` still owes, `cleaner` the runs of the operator's command.
Times are what they are compared with: "fresh", "expired", and "old" after the cleanup's hour
of grace. A generation is only ever compared for equality with the one a run has claimed, so
a run keeps the flag `unchanged` instead.

| Run | Bounds | Shows |
|---|---|---|
| `photos_races` | 1 photo of a guest's draft, a task's draft or a complaint, 1 cleanup that is run again and again, fair | `EvidenceIsStored`, `ConfirmedDeletions`, `NoPhotoLeftBehind`, `PhotosSettle` |

Photos only meet in the limit of a draft, which is proved (`LimitIsKept`), and in its
submission, which treats them alike; so one photo shows the races, and the theorems extend
them to any number of photos, drafts and parallel cleanups.

Fairness: uploads finish or die; time passes; the operator runs the command again and again
and it does not always fail at the same place. The last is an assumption about the operator:
nothing in the code schedules the command.

Proved for all photos, drafts, runs and limits: `TypeCorrect`, `Stored`, `LimitIsKept`,
`NothingLeftBehind`, `DeletionsStayTrue`. `IInv` adds that an upload which is about to finalize
has stored its bytes and one that is about to delete has already given its row up, that a photo
which is about to be deleted by anyone is DELETED or FAILED for good, and that such a photo
never becomes READY again. The lemma `RowsMove` says how far any step may move a row, from
which the limit (`FewPhotos`: only a reservation adds one, and it counts) and the submission
follow. `DeletionsInv` adds the runs that are about to acknowledge a deletion: the bytes of
their photo only come back through an upload that still has to deal with them.

### Bookings

`stays/stays.service.ts`, `cleaning-tasks/`, `properties/property-operations.ts`.

`stay` is the `Stay` table of one property, `task` its `CleaningTask` table (a departure's
task has the name of its stay), `open` the property's `isActive`, `now` the time. Every write
of a reservation is one action with the synchronization of its task, `Synced`, as in
`writeCurrent()`. A write carries the revision its author saw and is refused when there is a
newer one; so the actions read the current row, and stale clients are those that do nothing.

The module is also the abstract specification of the staff's work: `StartTask` and
`CompleteTask` say only when a task may start and end, and nothing of how. It is run as a part
of `cleaning_turnover` and `stay_imports`.

Proved for all reservations, tasks and dates: `HouseIsNeverDoubleBooked`,
`TasksFollowTheirStays`, `InactivePropertiesAreEmpty`, `FinalWorkIsImmutable`. The inductive
invariant `IInv` is the type (with non-empty periods) and the first three, of which
`NoDoubleBooking` needs only itself, `InactiveIsEmpty` itself, and `TaskFollowsStay` that a
task of a departure always has a reservation. The lemma `SyncedTask` is the heart: what
`syncCleaningTaskForStay()` returns for *any* later revision follows that revision, or is
final. `WriteStep` reduces each write of a reservation to what its new row satisfies,
`OneTaskStep` each change of a task to what the new task satisfies.

### CleaningWork, GuestCodes

`staff-cleaning-tasks/`, `cleaning-task-access/`, the drafts of tasks in
`submission-drafts/`, `admin-users/staff-deactivation.service.ts`, door codes
(`admin-stay-access/`, `admin-property-access/`), the staff's QR code (`admin-property-qr/`),
assignments (`properties/`) and corrected submissions (`admin-submissions/`);
`guest-stays/guest-stay-codes.service.ts` in `GuestCodes`.

`CleaningWork` extends `Bookings` with `staff`, `active`, `qr` and `qrs`, `settings`, `code`,
`draft` and `links` (private links are numbered in the order they are issued), `shown` (what
the page of a draft shows: fingerprint and digits) and `completion` (the evidence in a
completed task, with the digits its page showed, which the code does not store). The hash over
the versions is the record of them, `VersionsOf`. `ShowCode` and `Submit` are two transactions,
between which anything may change; `Submit` refuses a page whose fingerprint is not the current
one. `GuestCodes` adds no state: `Metadata` is the page of a guest, `Reveal` what the second
request gets.

`WorkImplementsBookings` is the refinement: `Start` and `Submit` are `StartTask` and
`CompleteTask`, the rest stutters. `UnreviewedCodeIsCurrent` relates the digits that were on
the page at the completion with those that the room needs at any later time, unless
`cleaningTaskRequiresReview()` raises its flag. `RevealedAsAnnounced` says that no step makes
the fingerprint of a guest's page good for other digits.

| Run | Bounds | Shows |
|---|---|---|
| `cleaning_turnover` | 2 reservations in turn (existing or new) over 4 periods, one of them empty and one that overlaps, 1 extra task, 2 staff, 2 drafts, 2 codes, time 0..1, `FewChanges` | `TaskFollowsStay`, `OneOpenDraft`, `UnreviewedCodeIsCurrent`, `WorkImplementsBookings`, `LinksStayClosed`, `RevealedAsAnnounced` |

`FewChanges` bounds, by `MaxChanges`, how many things differ from the straight course of one
turnover (corrections, further codes, settings, QR codes and links, moved, extra and
cancelled tasks, revised checklists, staff that left): any two of them, in any order. Two is
what it takes to change something and to change it back. `MaxTime` is 1, the end of the first
period: the second one then lies ahead, or has just begun if it is the one from 1 to 3, and the
first one may be extended while its task is open.

Proved for all constants: `WorkTypesAreCorrect`, `WorkImplements`, `BookingsHoldAtWork`,
`TasksHaveOneDraft`, `LostLinksStayClosed`, `ReviewedOrCurrent`, `GuestsGetTheirCode`. `WInv`
adds to `IInv` that every draft is of an existing task, that it was not revised before its
submission, that links and QR codes are those that were issued, and that whoever lost a
property lost its QR code: this last part is what makes a lost link stay closed, since a draft
keeps the QR code it was opened with. `CodesInv` is for the digits: versions only grow and
whatever they number changes only with them, so what a page or a completion says under the
versions it holds (`Faithful`) stays true, whether or not those versions are still current.

### Issues

`admin-issues/`, `guest-issues/`, `admin-issue-categories/`.

`issues` is the `Issue` table, `events` the `IssueEvent` table as a sequence per issue,
`categories` the categories, `acks` the requests answered with success. An event keeps the
request it was made for, with what its sender had seen. Each operation is one transaction and
one action; row and snapshot are computed separately, from what each writer reads, as in the
code. `IsWalk` is the loop of `assertRecurrenceTarget()` as the function it computes. Texts,
reasons and contents are members of small sets.

| Run | Bounds | Shows |
|---|---|---|
| `issues_history` | 3 issues at 2 times, 1 administrator, depth 2, 3 further versions in all | `HistoryMatches`, `RepliesAreTrue`, `NoRecurrenceCycle`, `OfferedIsAccepted` |

Three issues at two times make circles of two and of three if links are checked one by one. A
chain that is too long takes more issues and is left to the theorem. Different administrators matter only to the identity of a repetition,
for which the requests' other fields suffice.

Proved for all issues, administrators and depths: `IssueTypesAreCorrect`, `HistoriesMatch`,
`AnswersAreTrue`, `LinksHaveNoCircle`, `OffersAreAccepted`. `IInv` says, per issue, that events
are numbered, start where the one before ended and end with the row, and that a link goes to
an issue reported strictly earlier (`LinkGoesBack`). A circle would need an issue earlier than
itself: the proof takes the earliest one of a set that is closed under links (`LeastNat`: a set
of numbers has a least one), and no induction over chains is needed. `EventsAreSound` is what
readers ask of an event later. Checklists write issues as well, and `ChecklistIssuesHoldUp`
says that all of this holds when they do.

### Submissions, Readers

`submission-drafts/`, `submissions/`, `guest-submissions/`, `admin-submissions/`,
`admin-submission-stays/`, `admin-stay-links/`, `stay-access/`; in `Readers` the lists, details
and histories of these and of issues, `admin-reports/`, `admin-calendar/` and
`admin-dashboard/`.

`subs` is the `ChecklistSubmission` table, `revisions` the `SubmissionRevision` table as a
sequence per checklist, `views` the states of a draft that its client was ever shown, `stays`
what invitations and links depend on of a reservation, `replies` the requests answered with
success. Requests come from any state that was shown, and again at any time (`RepeatSubmit`,
`RepeatRequest`). A snapshot keeps the marks by which a repetition is recognized: a guest's
correction and a link start them afresh, an administrator's correction and a change of status
keep the marks of other kinds. `RecordIssues` is the part of a submission or correction that
writes issues, in the same transaction; the actions of `Issues` go on beside.

`Readers` adds no state: each of its operators is what one reader demands of a record before
it shows it. None of them is called by a writer, so `NothingIsRefused` compares some twenty
pieces of code that must agree and nowhere refer to each other.

| Run | Bounds | Shows |
|---|---|---|
| `submissions_revisions` | 1 checklist of a guest or of staff, 1 required item, 2 texts, 5 requests in all | `ConfirmedAsAsked`, `IssuesTrackAnswers`, `NothingIsRefused` |
| `submissions_links` | 2 checklists of one type, 1 reservation, 2 invitations, 6 requests in all | `LinksAreDeliberate`, `CalendarIsTrue`, `InvitationsStayClosed` |

Checklists meet only over the reservation they are linked to, and items not at all, hence one
of each in the first run and two checklists without abnormal answers in the second. Five
requests are a start, a submission, two revisions and one act on the issue, or a cancellation
and its restoration with a correction between or after them.

Proved for all checklists, answers, reservations and bounds: `RecordsMatchRevisions`,
`AnswersAreForTheirRequest`, `LinksStayDeliberate`, `InvitationsStayClosedForGood`,
`ChecklistIssuesHoldUp`, `IssuesFollowAnswers`, `HistoriesAreNeverRewritten`,
`ReadersRefuseNothing`, `CalendarStaysTrue`. The invariant is in three parts, for checklists
(`SInv`), for issues (`IInv` above) and for what they have to do with each other (`TInv`).

`SInv`: `RecordSound`: the row is what its latest revision says, and whatever a client saw
of a draft under the `updatedAt` it was submitted with are the answers of revision one.
`RevisionSound`: every mark in a snapshot is that of its own request, of an older expected
revision, or of the submission; this is what makes a repetition find the right revision.
`StaySound` and `LinkSound`: an invitation that is still the one a checklist was begun with was
issued for the revision the checklist refers to. `Excused`: two checklists share a reservation
only if one came by invitation or was restored. `AnswersSound`: every revision answers all
that is required, and a guest's reports no repair.

`IInv` is kept by the actions of `Issues`, and by `RecordIssues`, which writes the histories of
many issues at once (`HistoryStep`, `NextHistory`). `SInv` does not depend on it: checklists
never read what an issue holds.

`TInv` is, per item (`Tracks`): it has an issue if and only if it was abnormal in some revision;
the revisions that changed its answer since it was first abnormal are those that its issue's
events name; the issue's text is that of the latest abnormal answer; and no event names a
revision that is still to come, which is what makes the new revision a new element of that set.
Administrators' steps add events that name none and leave the text (`Aside`).

What readers demand follows from the three without a further invariant. That they refuse nothing
takes all of them, because a report reads a checklist with its issues; the calendar takes `SInv`
only, with the clause of `LinkSound` that a chosen link without a later change was on the
checklist's day. The archive's count of the versions it read is compared with the stored ones
as sets, over a finite table.

### Templates, Maintenance

`checklist-templates/` with the backfill command; the maintenance checklists of
`submission-drafts/` and `submissions/`, `admin-maintenance/`, `libs/maintenance/`,
`admin-users/staff-deactivation.service.ts`, `properties/`, `admin-property-qr/`.

`template` and `archive` are the two tables, `legacy` whether a process of the release without
an archive still runs, `backfill` the operator's command: a first pass over all templates, then
one transaction for each, which may stop anywhere and be run again. `Maintenance` adds `staff`,
`active`, `issued` (properties with a QR code) and `sheet`, the drafts with the template they
captured. `Opens` is the private link, `Progress` the list: they read other tables, in code of
their own.

| Run | Bounds | Shows |
|---|---|---|
| `maintenance_access` | 2 properties, 2 definitions, 3 published versions; 2 staff, 1 checklist, 3 saves (`Small`: the backfill and the staff's work not at once) | `HistoryIsTrue`, `BackfillIsTrue`, `CompletedStaysCompleted`, `ListMatchesLinks`, `RevokedStaysClosed` |

The backfill touches nothing that the checklists read, hence `Small`; the proofs are without it.

Proved for all properties, staff and checklists: `MaintenanceTypeCorrect`, `HistoryStaysTrue`,
`BackfillArchivesAll`, `CompletedStays`, `ListAgreesWithLinks`, `RevokedLinksStayClosed`.
`RowIsSound` is what the list relies on without saying so: a draft has no revision, a submitted
row is what its latest one says, `updatedAt` included, which is why the deactivation must not
touch it. `ArchiveIsSound` says that the archived versions are an interval that begins with
version one or a baseline and ends at or before the current one; `VisitedIsArchived` that a
template the command has done with is archived, given that nothing old was running.

### StayImports

`admin-stay-imports/`, `storage/import-source-storage.service.ts`.

It extends `Bookings` with `source`, `stored` and `upload` (the attachment, the object, and how
far the request is), `batch`, `shown` (the rows of each version, as they were shown) and
`receipts`. The upload's steps may each fail, crash, or be answered by an error although they
happened. `Validated` is the validation of rows, which the first preview and later ones do with
different ideas of an unusable row; `Confirm` validates again and makes all rows reservations
with their tasks in one step.

| Run | Bounds | Shows |
|---|---|---|
| `stay_imports` | 1 batch of 2 rows out of 6 kinds, 3 reservations, 2 versions, 1 other change | `NoDoubleBooking`, `SourceIsKept`, `RegisteredAsShown` |

Two rows are what overlaps, a third reservation is what comes between preview and confirmation.

Proved for all batches, rosters and reservations: `RostersNeverDoubleBook`,
`BatchesKeepTheirFile`, `RostersAreRegisteredAsShown`. `ImportsInv` is the invariant of
`Bookings` with `UploadSound` (there is a batch only once its file is stored and READY, and the
request that saved it deletes it no more), `BatchSound` (the rows are those of the version that
was shown last, and reservations when it is confirmed), `RowsDiffer` and `ReceiptsSound`.
`BookingsProofs` writes one reservation at a time; `Registers` is the step that writes any
number of them, and is shown to keep that module's invariant as well.

### Assumptions of the proofs

Only the named ASSUMEs of the modules, which TLC evaluates in every run: bounds are natural
numbers, a day has a length, `None` is none of the values it stands in for, departures' tasks
and extra tasks are different, tasks' drafts are drafts, checklists' issues are named by
checklist and item and those of guests otherwise, reminders are no events, checklists are
finitely many, and what a roster may say is a row with a period. Sets of reservations, keys,
photos, issues, staff, runners and requests may be of any size.

## 4. Where code and documents disagree

* `dispatch_original`: a request that is repeated while the first one is being claimed is
  answered `MESSAGE_ALREADY_REQUESTED`, where `docs/messaging.md:144` promises that "the
  original request key always returns its original outcome" (`messaging.service.ts:257`).

Two more were met while modelling and have no run of their own:

* Two runners that read the state before either has the lease make two baseline passes after a
  key rotation (`message-automation.runner.ts:64`); a change between them goes unnoticed.
  `docs/message-automation.md:83` speaks of one pass. `MessageAutomation` has these steps, and no
  property is claimed against them: `ChangesAreNoticed` speaks of changes observed under one key.
* A photo of a draft that is submitted between its claim by the cleanup and a failing S3 delete
  is not tried again (`upload-cleanup-policy.ts:27`), where `docs/upload-cleanup.md:76` says
  that failures retain work. `PhotosSettle` therefore excepts photos of submitted checklists.

## 5. What is only model-checked

* Liveness: `SendingEnds`, `AttemptsAreRecorded`, `LateJobsEnd`, `ChangesAreNoticed`,
  `PhotosSettle`. It rests on fairness, which the prover cannot handle (ENABLED).
* Nothing else: each of the other properties of the runs is the statement of a theorem, two of
  them (`TruthfulJobs`, `QueuedEventsAreCurrent`) while no lease expired under its runner.

No module declares a RECURSIVE operator: walks and chains are functions with a defining
equation, and sums are the folds of the community modules, only in the bounds of runs. Nothing
is proved by induction over data.

## 6. Not modelled

Whole components: vehicles and property guides (one row each with an optimistic version,
changed by single transactions, and nothing else reads them); accounts and authentication (a
session carries a version that a password change raises; hashing and tokens are library calls);
photo processing (image conversion is a library call, the slots are a counter of one process,
given back by an interceptor); health, configuration, database access (the last is what makes a
transaction one action); the layout of workbooks and archives.

Inside the modelled components:

* texts of messages, masking, encryption and vaults, presigned URLs;
* keys of objects outside the expected prefix, which the cleanup refuses, and a put that
  arrives after its deletion was confirmed and its process died, which
  `docs/upload-cleanup.md` leaves to the operator;
* the expiry of private links of guests and of tasks' drafts: a client that does not come back
  (maintenance drafts do expire);
* the limit of 200 reservations in one reconciliation, properties that never had a QR code, the
  digits of a property's fixed code and of its entrance;
* the state token of a deactivation's preview (the preview is taken to be true), creating staff
  and properties, names;
* periods, filters and pages of lists, which choose among records; the calendar's days of
  reservations without a checklist; cleaning tasks in the maintenance list;
* the parsing of workbooks: any of the rows that the parser can produce.
