-------------------------------- MODULE Bookings --------------------------------
(***************************************************************************)
(* The reservations of one property and the cleaning tasks they cause.     *)
(* Every write of a reservation synchronizes the task of its departure in  *)
(* the same serializable transaction; administrators add, move and cancel  *)
(* tasks; staff start and complete them (StartTask and CompleteTask, whose *)
(* details are in CleaningWork).  Reservations of different properties     *)
(* share nothing.                                                          *)
(*                                                                         *)
(* A write is sent with the revision or version its author saw and is      *)
(* refused if there is a newer one, so a write that happens is based on    *)
(* the current row.  Names and phone numbers are a member of Guests.       *)
(***************************************************************************)
EXTENDS Naturals, FiniteSets

CONSTANTS Stays,        \* reservations
          Legacy,       \* those made before there were cleaning tasks
          Extra,        \* tasks that administrators add
          Submissions,  \* drafts of the staff's checklists
          Guests,
          Periods,      \* the pairs <<checkInAt, checkOutAt>> that are asked for
          MaxTime, Day, \* the last moment, and the length of a day
          MaxRevision,  \* bound: corrections of a reservation
          MaxVersion,   \* bound: changes of a task by people
          None

VARIABLES now,
          open,   \* isActive of the property
          stay,   \* the Stay table
          task    \* the CleaningTask table; a departure's task has the name of its stay

bookingVars == <<now, open, stay, task>>

Time == Nat
Tasks == Stays \cup Extra

ASSUME TasksAreSeparate == Stays \cap Extra = {}
ASSUME PeriodsAreTimes == Periods \subseteq Time \X Time
ASSUME BoundsAreNat == {MaxTime, MaxRevision, MaxVersion} \subseteq Nat /\ Day \in Nat \ {0}
ASSUME LegacyIsBooked == Legacy \subseteq Stays

\* turned: the revision of the last cancellation or restoration in StayRevision, or 0.
Stay == [status: {"ACTIVE", "CANCELLED"}, in: Time, out: Time, guest: Guests,
         revision: Nat, turned: Nat]
\* moved: manualDueAt; source: sourceStayRevision, 0 without a departing stay.
Task == [status: {"PLANNED", "IN_PROGRESS", "COMPLETED", "CANCELLED"}, dueAt: Time,
         moved: BOOLEAN, bySchedule: BOOLEAN, source: Nat, version: Nat,
         submission: Submissions \cup {None}]

ASSUME NoneIsNoRow == None \notin Stay \cup Task \cup Submissions

\* What the tables may hold at all: a period is not empty, a revision is counted from one.
StaysAreValid ==
    \A s \in Stays : stay[s] # None =>
        stay[s].in < stay[s].out /\ stay[s].turned <= stay[s].revision

BookingsTypeOK ==
    /\ now \in Time /\ open \in BOOLEAN
    /\ stay \in [Stays -> Stay \cup {None}]
    /\ task \in [Tasks -> Task \cup {None}]
    /\ StaysAreValid

--------------------------------------------------------------------------------
Booked(s) == stay[s] # None
Active(s) == Booked(s) /\ stay[s].status = "ACTIVE"
Exists(t) == task[t] # None

\* assertAvailable(): no active reservation but s overlaps the period.
Overlaps(s, in, out) == stay[s].in < out /\ stay[s].out > in
Available(s, in, out) == \A r \in Stays \ {s} : Active(r) => ~Overlaps(r, in, out)

\* validateRange().  Faulty variant: a period may be empty.
ValidOrEmpty(in, out) == in <= out
Valid(in, out) == in < out

\* What every write that brings a reservation to a period requires.
\* Faulty variant: the period is taken as still free.
BookableIfOpen(s, in, out) == open
Bookable(s, in, out) == open /\ Available(s, in, out)

\* The midnight before now.
Cutoff == now - (now % Day)

Editable(t) == Exists(t) /\ task[t].status \in {"PLANNED", "IN_PROGRESS"}

\* Administrators cancel for good; a task cancelled with its reservation comes back with it.
Deliberate(t) == task[t].status = "CANCELLED" /\ ~task[t].bySchedule

\* What the schedule leaves alone.
\* Faulty variant: any cancelled task comes back with its reservation.
FinalIfCompleted(t) == task[t].status = "COMPLETED"
Final(t) == task[t].status = "COMPLETED" \/ Deliberate(t)

NewTask(dueAt, moved, source) ==
    [status |-> "PLANNED", dueAt |-> dueAt, moved |-> moved, bySchedule |-> FALSE,
     source |-> source, version |-> 1, submission |-> None]

\* The status of a task whose reservation is now in row.
\* Faulty variant: work in progress is forgotten with the cancellation.
RestartedStatus(s, row) ==
    IF row.status = "CANCELLED" THEN "CANCELLED"
    ELSE IF ~task[s].bySchedule THEN task[s].status ELSE "PLANNED"
ScheduledStatus(s, row) ==
    IF row.status = "CANCELLED" THEN "CANCELLED"
    ELSE IF ~task[s].bySchedule THEN task[s].status
    ELSE IF task[s].submission # None THEN "IN_PROGRESS" ELSE "PLANNED"

\* syncCleaningTaskForStay(): the task of s when its reservation becomes row.
Synced(s, row) ==
    LET status == ScheduledStatus(s, row)
        dueAt == IF task[s].moved THEN task[s].dueAt ELSE row.out
    IN  IF ~Exists(s)
        THEN IF row.status = "ACTIVE" /\ row.out >= Cutoff
             THEN NewTask(row.out, FALSE, row.revision) ELSE None
        ELSE IF \/ Final(s)
                \/ /\ task[s].source = row.revision
                   /\ task[s].status = status /\ task[s].dueAt = dueAt
        THEN task[s]
        ELSE [task[s] EXCEPT !.status = status, !.dueAt = dueAt, !.source = row.revision,
                             !.bySchedule = (row.status = "CANCELLED"), !.version = @ + 1]

WriteStay(s, row) ==
    /\ stay' = [stay EXCEPT ![s] = row]
    /\ task' = [task EXCEPT ![s] = Synced(s, row)]
    /\ UNCHANGED <<now, open>>

--------------------------------------------------------------------------------
CreateStay(s, in, out, g) ==
    /\ ~Booked(s)
    /\ Valid(in, out) /\ Bookable(s, in, out)
    /\ WriteStay(s, [status |-> "ACTIVE", in |-> in, out |-> out, guest |-> g,
                     revision |-> 1, turned |-> 0])

\* Only a change of the dates needs an active property and a free period.
\* Faulty variant: a new period needs only to be free.
UnchangedOrFree(s, in, out) == Available(s, in, out)
Unchanged(s, in, out) == in = stay[s].in /\ out = stay[s].out
UpdateStay(s, in, out, g) ==
    /\ Active(s) /\ stay[s].revision < MaxRevision
    /\ Valid(in, out) /\ (Unchanged(s, in, out) \/ Bookable(s, in, out))
    /\ WriteStay(s, [stay[s] EXCEPT !.in = in, !.out = out, !.guest = g, !.revision = @ + 1])

CancelStay(s) ==
    /\ Active(s) /\ stay[s].revision < MaxRevision
    /\ WriteStay(s, [stay[s] EXCEPT !.status = "CANCELLED", !.revision = @ + 1,
                                    !.turned = stay[s].revision + 1])

RestoreStay(s) ==
    /\ Booked(s) /\ ~Active(s) /\ stay[s].revision < MaxRevision
    /\ Valid(stay[s].in, stay[s].out) /\ Bookable(s, stay[s].in, stay[s].out)
    /\ WriteStay(s, [stay[s] EXCEPT !.status = "ACTIVE", !.revision = @ + 1,
                                    !.turned = stay[s].revision + 1])

\* syncPropertyCleaningTasks(): current bookings, and all whose task is not completed.
Reconciled(s) ==
    \/ Active(s) /\ stay[s].out >= Cutoff /\ open
    \/ Exists(s) /\ task[s].status # "COMPLETED"
SyncTasks ==
    /\ task' = [t \in Tasks |-> IF t \in Stays /\ Booked(t) /\ Reconciled(t)
                                THEN Synced(t, stay[t]) ELSE task[t]]
    /\ UNCHANGED <<now, open, stay>>

--------------------------------------------------------------------------------
\* The administrator's tasks; a request that is repeated with its key changes nothing.
CreateTask(t, dueAt) ==
    /\ ~Exists(t) /\ open
    /\ task' = [task EXCEPT ![t] = NewTask(dueAt, TRUE, 0)]
    /\ UNCHANGED <<now, open, stay>>

UpdateTask(t, dueAt) ==
    /\ Editable(t) /\ task[t].version < MaxVersion
    /\ t \in Stays => dueAt >= stay[t].out
    /\ task' = [task EXCEPT ![t].dueAt = dueAt, ![t].moved = TRUE, ![t].version = @ + 1]
    /\ UNCHANGED <<now, open, stay>>

CancelTask(t) ==
    /\ Editable(t) /\ task[t].version < MaxVersion
    /\ task' = [task EXCEPT ![t].status = "CANCELLED", ![t].bySchedule = FALSE,
                            ![t].version = @ + 1]
    /\ UNCHANGED <<now, open, stay>>

\* What staff do to the task: start or take over, and complete.
Occupied == \E s \in Stays : Active(s) /\ stay[s].in <= now /\ now < stay[s].out
Departed(t) == t \in Stays => Active(t) /\ stay[t].out <= now
Ready(t) == Editable(t) /\ open /\ task[t].dueAt <= now /\ Departed(t) /\ ~Occupied

StartTask(t, d) ==
    /\ Ready(t)
    /\ task' = [task EXCEPT ![t].status = "IN_PROGRESS", ![t].submission = d,
                            ![t].version = @ + 1]
    /\ UNCHANGED <<now, open, stay>>

CompleteTask(t) ==
    /\ Ready(t) /\ task[t].status = "IN_PROGRESS"
    /\ task' = [task EXCEPT ![t].status = "COMPLETED", ![t].version = @ + 1]
    /\ UNCHANGED <<now, open, stay>>

\* requirePropertyOperationChange(): a property with pending reservations stays active.
Pending(s) == Active(s) /\ stay[s].out > now
SwitchProperty ==
    /\ open => \A s \in Stays : ~Pending(s)
    /\ open' = ~open
    /\ UNCHANGED <<now, stay, task>>

Tick ==
    /\ now < MaxTime
    /\ now' = now + 1
    /\ UNCHANGED <<open, stay, task>>

--------------------------------------------------------------------------------
\* Reservations that predate the cleaning tasks have none.
BookingsInit ==
    /\ now = 0 /\ open = TRUE
    /\ stay \in [Stays -> {None} \cup
                   [status: {"ACTIVE"}, in: {p[1] : p \in Periods}, out: {p[2] : p \in Periods},
                    guest: Guests, revision: {1}, turned: {0}]]
    /\ \A s \in Stays : Booked(s) => /\ s \in Legacy /\ stay[s].in < stay[s].out
                                     /\ Available(s, stay[s].in, stay[s].out)
    /\ task = [t \in Tasks |-> None]

Booking ==
    \/ \E s \in Stays, p \in Periods, g \in Guests :
         CreateStay(s, p[1], p[2], g) \/ UpdateStay(s, p[1], p[2], g)
    \/ \E s \in Stays : CancelStay(s) \/ RestoreStay(s)
    \/ SyncTasks
    \/ \E t \in Extra, at \in 0..MaxTime : CreateTask(t, at)
    \/ \E t \in Tasks, at \in 0..MaxTime : UpdateTask(t, at)
    \/ \E t \in Tasks : CancelTask(t)
    \/ SwitchProperty
    \/ Tick

BookingsNext ==
    \/ Booking
    \/ \E t \in Tasks : CompleteTask(t) \/ \E d \in Submissions : StartTask(t, d)

BookingsSpec == BookingsInit /\ [][BookingsNext]_bookingVars

--------------------------------------------------------------------------------
\* No two parties have the house at the same time, whatever was moved, cancelled and
\* restored since (assertAvailable() in createStay(), updateStay() and restoreStay()).
NoDoubleBooking ==
    \A s, r \in Stays : s # r /\ Active(s) /\ Active(r) => ~Overlaps(s, stay[r].in, stay[r].out)

\* The task of a departure that was neither completed nor cancelled on purpose is as its
\* reservation says: it was synchronized with the current revision, is cancelled exactly if
\* the reservation is, is due at its check-out unless it was moved, and has been started
\* exactly if there is a draft for it (syncCleaningTaskForStay()).
TaskFollowsStay ==
    \A s \in Stays : Exists(s) /\ ~Final(s) =>
        /\ Booked(s) /\ task[s].source = stay[s].revision
        /\ task[s].status = "CANCELLED" <=> ~Active(s)
        /\ task[s].bySchedule <=> ~Active(s)
        /\ ~task[s].moved => task[s].dueAt = stay[s].out
        /\ Active(s) => (task[s].status = "IN_PROGRESS" <=> task[s].submission # None)

\* An inactive property has nobody in it and nobody on the way: neither a correction nor a
\* restoration brings a reservation there (requirePropertyOperationChange()).
InactiveIsEmpty == ~open => \A s \in Stays : ~Pending(s)

\* Completed and deliberately cancelled work is never touched again, not by the schedule
\* either ("Completed evidence and deliberate administrator cancellations are immutable").
FinalTasks ==
    [][\A t \in Tasks : Exists(t) /\ (task[t].status = "COMPLETED" \/ Deliberate(t)) =>
         task'[t] = task[t]]_bookingVars
================================================================================
