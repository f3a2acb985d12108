----------------------------- MODULE BookingsProofs -----------------------------
(***************************************************************************)
(* Theorems about Bookings for all reservations, tasks, periods and bounds. *)
(***************************************************************************)
EXTENDS Bookings, TLAPS

\* TaskFollowsStay of one reservation that is in row, and its task in t.
Follows(row, t) ==
    /\ t.source = row.revision
    /\ t.status = "CANCELLED" <=> row.status = "CANCELLED"
    /\ t.bySchedule <=> row.status = "CANCELLED"
    /\ ~t.moved => t.dueAt = row.out
    /\ row.status = "ACTIVE" => (t.status = "IN_PROGRESS" <=> t.submission # None)
FinalRow(t) == t.status = "COMPLETED" \/ (t.status = "CANCELLED" /\ ~t.bySchedule)
Tasked(s) == Exists(s) => Booked(s) /\ (FinalRow(task[s]) \/ Follows(stay[s], task[s]))

IInv ==
    /\ BookingsTypeOK
    /\ NoDoubleBooking
    /\ InactiveIsEmpty
    /\ \A s \in Stays : Tasked(s)

\* No task is ever deleted.
Remain == \A t \in Tasks : Exists(t) => task'[t] # None

--------------------------------------------------------------------------------
LEMMA Follow == ASSUME IInv PROVE TaskFollowsStay
<1> SUFFICES ASSUME NEW s \in Stays, Exists(s), ~Final(s)
             PROVE  /\ Booked(s) /\ task[s].source = stay[s].revision
                    /\ task[s].status = "CANCELLED" <=> ~Active(s)
                    /\ task[s].bySchedule <=> ~Active(s)
                    /\ ~task[s].moved => task[s].dueAt = stay[s].out
                    /\ Active(s) => (task[s].status = "IN_PROGRESS" <=> task[s].submission # None)
    BY DEF TaskFollowsStay
<1>1. Tasked(s) /\ ~FinalRow(task[s])
  BY DEF IInv, Final, FinalRow, Deliberate
<1>2. Booked(s) /\ Follows(stay[s], task[s])
  BY <1>1 DEF Tasked
<1>3. stay[s] \in Stay
  BY <1>2 DEF IInv, BookingsTypeOK, Booked
<1>4. Active(s) <=> stay[s].status # "CANCELLED"
  BY <1>2, <1>3 DEF Active, Stay
<1>5. Active(s) <=> stay[s].status = "ACTIVE"
  BY <1>2 DEF Active
<1> QED BY <1>2, <1>4, <1>5 DEF Follows

\* The synchronized task is a task that follows the reservation, or a final one.
LEMMA SyncedTask ==
    ASSUME IInv, NEW s \in Stays, NEW row \in Stay,
           Exists(s) => \/ row = stay[s]
                        \/ row.revision > stay[s].revision
    PROVE  /\ Synced(s, row) \in Task \cup {None}
           /\ Synced(s, row) # None =>
                FinalRow(Synced(s, row)) \/ Follows(row, Synced(s, row))
           /\ Exists(s) => Synced(s, row) # None
<1> DEFINE status == ScheduledStatus(s, row)
           dueAt == IF task[s].moved THEN task[s].dueAt ELSE row.out
           changed == [task[s] EXCEPT !.status = status, !.dueAt = dueAt,
                         !.source = row.revision, !.bySchedule = (row.status = "CANCELLED"),
                         !.version = @ + 1]
<1>1. CASE ~Exists(s)
  <2> DEFINE new == NewTask(row.out, FALSE, row.revision)
  <2>1. new \in Task /\ new # None
    <3>1. row.out \in Nat /\ row.revision \in Nat
      BY DEF Stay, Time
    <3>2. None \in Submissions \cup {None}
      OBVIOUS
    <3>3. new \in Task
      BY <3>1, <3>2 DEF NewTask, Task, Time
    <3> QED BY <3>3, NoneIsNoRow
  <2>2. row.status = "ACTIVE" => Follows(row, new)
    BY DEF Follows, NewTask
  <2>3. Synced(s, row) = IF row.status = "ACTIVE" /\ row.out >= Cutoff THEN new ELSE None
    BY <1>1 DEF Synced
  <2> QED BY <1>1, <2>1, <2>2, <2>3
<1>2. CASE Exists(s)
  <2>1. task[s] \in Task /\ stay[s] \in Stay /\ Tasked(s)
    <3>1. s \in Tasks /\ Tasked(s)
      BY DEF IInv, Tasks
    <3> QED BY <1>2, <3>1 DEF IInv, BookingsTypeOK, Exists, Tasked, Booked
  <2>2. task[s] # None
    BY <1>2 DEF Exists
  <2>3. CASE Final(s)
    BY <1>2, <2>1, <2>2, <2>3 DEF Synced, Final, FinalRow, Deliberate
  <2>4. CASE ~Final(s)
    <3>1. ~FinalRow(task[s]) /\ Follows(stay[s], task[s])
      BY <1>2, <2>1, <2>4 DEF Final, FinalRow, Deliberate, Tasked
    <3>2. status \in {"PLANNED", "IN_PROGRESS", "CANCELLED"}
      BY <2>1, <3>1 DEF ScheduledStatus, FinalRow, Task
    <3>3. changed \in Task
      <4>1. row.out \in Nat /\ row.revision \in Nat /\ dueAt \in Nat
        BY <2>1 DEF Stay, Task, Time
      <4>2. task[s].version + 1 \in Nat
        BY <2>1 DEF Task
      <4> DEFINE cancelled == row.status = "CANCELLED"
      <4>3. cancelled \in BOOLEAN
        OBVIOUS
      <4>4. changed = [task[s] EXCEPT !.status = status, !.dueAt = dueAt,
                         !.source = row.revision, !.bySchedule = cancelled,
                         !.version = task[s].version + 1]
        BY <2>1 DEF Task
      <4> HIDE DEF cancelled, status, dueAt, changed
      <4> QED BY <2>1, <3>2, <4>1, <4>2, <4>3, <4>4 DEF Task, Time
    <3>4. Follows(row, changed)
      <4>1. /\ changed.source = row.revision /\ changed.status = status
            /\ changed.bySchedule = (row.status = "CANCELLED")
            /\ changed.moved = task[s].moved /\ changed.dueAt = dueAt
            /\ changed.submission = task[s].submission
        BY <2>1 DEF Task
      <4>2. status = "CANCELLED" <=> row.status = "CANCELLED"
        BY <2>1, <3>1 DEF ScheduledStatus, Follows, FinalRow
      <4>3. row.status = "ACTIVE" => (status = "IN_PROGRESS" <=> task[s].submission # None)
        BY <2>1, <3>1 DEF ScheduledStatus, Follows, Stay
      <4> HIDE DEF status, changed
      <4> QED BY <4>1, <4>2, <4>3 DEF Follows
    <3>5. CASE task[s].source = row.revision /\ task[s].status = status /\ task[s].dueAt = dueAt
      <4>1. row = stay[s]
        BY <1>2, <2>1, <3>1, <3>5 DEF Follows, Stay
      <4> QED BY <1>2, <2>1, <2>2, <3>1, <3>5, <4>1 DEF Synced
    <3>6. CASE ~(task[s].source = row.revision /\ task[s].status = status /\ task[s].dueAt = dueAt)
      BY <1>2, <2>4, <3>3, <3>4, <3>6, NoneIsNoRow DEF Synced
    <3> QED BY <3>5, <3>6
  <2> QED BY <2>3, <2>4
<1> QED BY <1>1, <1>2

--------------------------------------------------------------------------------
\* What a written row must satisfy for the invariant to stay.
LEMMA WriteStep ==
    ASSUME IInv, NEW s \in Stays, NEW row \in Stay, WriteStay(s, row),
           row.in < row.out, row.turned <= row.revision,
           Booked(s) => row.revision > stay[s].revision,
           row.status = "ACTIVE" => /\ Available(s, row.in, row.out)
                                    /\ open \/ row.out <= now
    PROVE  IInv' /\ Remain
<1>1. /\ now \in Time /\ open \in BOOLEAN
      /\ stay \in [Stays -> Stay \cup {None}] /\ task \in [Tasks -> Task \cup {None}]
      /\ StaysAreValid /\ NoDoubleBooking /\ InactiveIsEmpty /\ \A r \in Stays : Tasked(r)
  BY DEF IInv, BookingsTypeOK
<1>2. /\ stay' = [stay EXCEPT ![s] = row] /\ task' = [task EXCEPT ![s] = Synced(s, row)]
      /\ now' = now /\ open' = open
  BY DEF WriteStay
<1>3. s \in Tasks /\ Stays \subseteq Tasks
  BY DEF Tasks
<1>4. /\ stay'[s] = row /\ task'[s] = Synced(s, row)
      /\ \A r \in Stays \ {s} : stay'[r] = stay[r] /\ task'[r] = task[r]
  BY <1>1, <1>2, <1>3
<1>5. row # None
  BY NoneIsNoRow
<1>6. /\ Synced(s, row) \in Task \cup {None}
      /\ Synced(s, row) # None => FinalRow(Synced(s, row)) \/ Follows(row, Synced(s, row))
      /\ Exists(s) => Synced(s, row) # None
  <2>1. Exists(s) => Booked(s)
    BY <1>1 DEF Tasked
  <2> QED BY <2>1, SyncedTask
<1>7. BookingsTypeOK'
  <2>1. StaysAreValid'
    BY <1>1, <1>4 DEF StaysAreValid
  <2> QED BY <1>1, <1>2, <1>6, <2>1 DEF BookingsTypeOK
<1>8. NoDoubleBooking'
  <2> SUFFICES ASSUME NEW q \in Stays, NEW r \in Stays, q # r, Active(q)', Active(r)'
               PROVE  ~(stay'[q].in < stay'[r].out /\ stay'[q].out > stay'[r].in)
    BY DEF NoDoubleBooking, Overlaps
  <2>1. \A u \in Stays \ {s} : Active(u)' => Active(u)
    BY <1>4 DEF Active, Booked
  <2>2. CASE q # s /\ r # s
    BY <1>1, <1>4, <2>1, <2>2 DEF NoDoubleBooking, Overlaps
  <2>3. CASE q = s
    <3>1. Active(r) /\ stay'[r] = stay[r] /\ stay[r] # None
      BY <1>4, <2>1, <2>3 DEF Active, Booked
    <3>2. Available(s, row.in, row.out)
      BY <1>4, <2>3 DEF Active
    <3>3. /\ stay[r].in \in Nat /\ stay[r].out \in Nat
          /\ row.in \in Nat /\ row.out \in Nat
      BY <1>1, <3>1 DEF Stay, Time
    <3> QED BY <1>4, <2>3, <3>1, <3>2, <3>3 DEF Available, Overlaps
  <2>4. CASE r = s
    <3>1. Active(q) /\ stay'[q] = stay[q] /\ stay[q] # None
      BY <1>4, <2>1, <2>4 DEF Active, Booked
    <3>2. Available(s, row.in, row.out)
      BY <1>4, <2>4 DEF Active
    <3> QED BY <1>4, <2>4, <3>1, <3>2 DEF Available, Overlaps
  <2> QED BY <2>2, <2>3, <2>4
<1>9. InactiveIsEmpty'
  <2> SUFFICES ASSUME ~open, NEW r \in Stays, Active(r)', stay'[r].out > now
               PROVE  FALSE
    BY <1>2 DEF InactiveIsEmpty, Pending
  <2>1. CASE r = s
    <3>1. row.out \in Nat /\ now \in Nat /\ row.out <= now
      BY <1>1, <1>4, <2>1 DEF Active, Stay, Time
    <3> QED BY <1>4, <2>1, <3>1
  <2>2. CASE r # s
    BY <1>1, <1>4, <2>2 DEF InactiveIsEmpty, Pending, Active, Booked
  <2> QED BY <2>1, <2>2
<1>10. ASSUME NEW r \in Stays PROVE Tasked(r)'
  <2>1. CASE r = s
    BY <1>4, <1>5, <1>6, <2>1 DEF Tasked, Exists, Booked
  <2>2. CASE r # s
    <3>1. Tasked(r) /\ stay'[r] = stay[r] /\ task'[r] = task[r]
      BY <1>1, <1>4, <2>2
    <3> QED BY <3>1 DEF Tasked, Exists, Booked
  <2> QED BY <2>1, <2>2
<1>11. Remain
  BY <1>1, <1>2, <1>3, <1>6 DEF Remain, Exists
<1> QED BY <1>7, <1>8, <1>9, <1>10, <1>11 DEF IInv

\* A step that writes no reservation keeps what is said of reservations.
LEMMA TaskStep ==
    ASSUME IInv, UNCHANGED <<now, open, stay>>, task' \in [Tasks -> Task \cup {None}],
           \A s \in Stays : task'[s] # None => Booked(s) /\ (FinalRow(task'[s]) \/ Follows(stay[s], task'[s])),
           Remain
    PROVE  IInv' /\ Remain
<1>1. BookingsTypeOK'
  BY DEF IInv, BookingsTypeOK, StaysAreValid
<1>2. NoDoubleBooking' /\ InactiveIsEmpty'
  BY DEF IInv, NoDoubleBooking, InactiveIsEmpty, Pending, Active, Booked, Overlaps
<1>3. \A s \in Stays : Tasked(s)'
  BY DEF Tasked, Exists, Booked
<1> QED BY <1>1, <1>2, <1>3 DEF IInv

\* One task changes, and if it is a departure's it is final afterwards or follows its stay.
LEMMA OneTaskStep ==
    ASSUME IInv, UNCHANGED <<now, open, stay>>, NEW t \in Tasks, NEW new \in Task,
           task' = [task EXCEPT ![t] = new],
           t \in Stays => Booked(t) /\ (FinalRow(new) \/ Follows(stay[t], new))
    PROVE  IInv' /\ Remain
<1>1. task \in [Tasks -> Task \cup {None}] /\ Stays \subseteq Tasks
  BY DEF IInv, BookingsTypeOK, Tasks
<1>2. task' \in [Tasks -> Task \cup {None}]
  BY <1>1
<1>3. ASSUME NEW s \in Stays, task'[s] # None
      PROVE  Booked(s) /\ (FinalRow(task'[s]) \/ Follows(stay[s], task'[s]))
  <2>1. CASE s = t
    BY <1>1, <2>1
  <2>2. CASE s # t
    <3>1. task'[s] = task[s] /\ Tasked(s)
      BY <1>1, <2>2 DEF IInv
    <3> QED BY <1>3, <3>1 DEF Tasked, Exists
  <2> QED BY <2>1, <2>2
<1>4. Remain
  <2>1. new # None
    BY NoneIsNoRow
  <2> QED BY <1>1, <2>1 DEF Remain, Exists
<1> QED BY <1>2, <1>3, <1>4, TaskStep

--------------------------------------------------------------------------------
LEMMA InitIInv == BookingsInit => IInv
<1> SUFFICES ASSUME BookingsInit PROVE IInv
  OBVIOUS
<1>1. \A p \in Periods : p[1] \in Nat /\ p[2] \in Nat
  BY PeriodsAreTimes DEF Time
<1>2. stay \in [Stays -> Stay \cup {None}]
  BY <1>1 DEF BookingsInit, Stay, Time
<1>3. ASSUME NEW s \in Stays, Booked(s)
      PROVE  /\ stay[s].in < stay[s].out /\ stay[s].turned = 0 /\ stay[s].revision = 1
             /\ Available(s, stay[s].in, stay[s].out)
  BY <1>3 DEF BookingsInit, Booked
<1>4. BookingsTypeOK
  <2>1. StaysAreValid
    BY <1>3 DEF StaysAreValid, Booked
  <2> QED BY <1>2, <2>1 DEF BookingsInit, BookingsTypeOK, Time
<1>5. NoDoubleBooking
  <2> SUFFICES ASSUME NEW s \in Stays, NEW r \in Stays, s # r, Active(s), Active(r)
               PROVE  ~Overlaps(s, stay[r].in, stay[r].out)
    BY DEF NoDoubleBooking
  <2> QED BY <1>3 DEF Available, Active
<1>6. InactiveIsEmpty /\ \A s \in Stays : Tasked(s)
  BY DEF BookingsInit, InactiveIsEmpty, Tasked, Exists, Tasks
<1> QED BY <1>4, <1>5, <1>6 DEF IInv

--------------------------------------------------------------------------------
LEMMA CreateStayStep ==
    ASSUME IInv, NEW s \in Stays, NEW p \in Periods, NEW g \in Guests, CreateStay(s, p[1], p[2], g)
    PROVE  IInv' /\ Remain
<1> DEFINE row == [status |-> "ACTIVE", in |-> p[1], out |-> p[2], guest |-> g,
                   revision |-> 1, turned |-> 0]
<1>1. p[1] \in Nat /\ p[2] \in Nat
  BY PeriodsAreTimes DEF Time
<1>2. row \in Stay /\ row.in < row.out /\ row.turned <= row.revision
  BY <1>1 DEF CreateStay, Valid, Stay, Time
<1>3. WriteStay(s, row) /\ ~Booked(s) /\ open /\ Available(s, row.in, row.out)
  BY DEF CreateStay, Bookable
<1> HIDE DEF row
<1> QED BY <1>2, <1>3, WriteStep

LEMMA UpdateStayStep ==
    ASSUME IInv, NEW s \in Stays, NEW p \in Periods, NEW g \in Guests, UpdateStay(s, p[1], p[2], g)
    PROVE  IInv' /\ Remain
<1> DEFINE row == [stay[s] EXCEPT !.in = p[1], !.out = p[2], !.guest = g, !.revision = @ + 1]
<1>1. /\ p[1] \in Nat /\ p[2] \in Nat /\ now \in Nat
      /\ stay[s] \in Stay /\ stay[s].status = "ACTIVE" /\ stay[s].turned <= stay[s].revision
  BY PeriodsAreTimes DEF Time, UpdateStay, Active, Booked, IInv, BookingsTypeOK, StaysAreValid
<1>2. /\ row \in Stay /\ row.in = p[1] /\ row.out = p[2]
      /\ row.revision = stay[s].revision + 1 /\ row.turned = stay[s].turned
  <2>1. stay[s].revision + 1 \in Nat
    BY <1>1 DEF Stay
  <2>2. row \in Stay
    BY <1>1, <2>1 DEF Stay, Time
  <2>3. /\ row.in = p[1] /\ row.out = p[2]
        /\ row.revision = stay[s].revision + 1 /\ row.turned = stay[s].turned
    BY <1>1 DEF Stay
  <2> QED BY <2>2, <2>3
<1>3. row.turned <= row.revision /\ row.revision > stay[s].revision
  BY <1>1, <1>2 DEF Stay
<1>4. WriteStay(s, row) /\ row.in < row.out
  BY <1>2 DEF UpdateStay, Valid
<1>5. Available(s, row.in, row.out) /\ (open \/ row.out <= now)
  <2>1. CASE Bookable(s, p[1], p[2])
    BY <1>2, <2>1 DEF Bookable
  <2>2. CASE Unchanged(s, p[1], p[2])
    <3>1. Available(s, stay[s].in, stay[s].out)
      <4> SUFFICES ASSUME NEW r \in Stays \ {s}, Active(r)
                   PROVE  ~Overlaps(r, stay[s].in, stay[s].out)
        BY DEF Available
      <4> QED BY DEF IInv, NoDoubleBooking, UpdateStay
    <3>2. open \/ ~(stay[s].out > now)
      BY DEF IInv, InactiveIsEmpty, Pending, UpdateStay, BookingsTypeOK
    <3>3. stay[s].out \in Nat
      BY <1>1 DEF Stay, Time
    <3> QED BY <1>1, <1>2, <2>2, <3>1, <3>2, <3>3 DEF Unchanged
  <2> QED BY <2>1, <2>2 DEF UpdateStay
<1> HIDE DEF row
<1> QED BY <1>2, <1>3, <1>4, <1>5, WriteStep

LEMMA CancelStayStep == ASSUME IInv, NEW s \in Stays, CancelStay(s) PROVE IInv' /\ Remain
<1> DEFINE row == [stay[s] EXCEPT !.status = "CANCELLED", !.revision = @ + 1,
                                  !.turned = stay[s].revision + 1]
<1>1. stay[s] \in Stay /\ stay[s].in < stay[s].out
  BY DEF CancelStay, Active, Booked, IInv, BookingsTypeOK, StaysAreValid
<1>2. /\ row \in Stay /\ row.in = stay[s].in /\ row.out = stay[s].out
      /\ row.revision = stay[s].revision + 1 /\ row.turned = stay[s].revision + 1
      /\ row.status = "CANCELLED"
  <2>1. stay[s].revision + 1 \in Nat
    BY <1>1 DEF Stay
  <2>2. row \in Stay
    BY <1>1, <2>1 DEF Stay, Time
  <2>3. /\ row.in = stay[s].in /\ row.out = stay[s].out
        /\ row.revision = stay[s].revision + 1 /\ row.turned = stay[s].revision + 1
        /\ row.status = "CANCELLED"
    BY <1>1 DEF Stay
  <2> QED BY <2>2, <2>3
<1>3. row.turned <= row.revision /\ row.revision > stay[s].revision /\ row.in < row.out
  BY <1>1, <1>2 DEF Stay
<1>4. WriteStay(s, row)
  BY DEF CancelStay
<1> HIDE DEF row
<1> QED BY <1>2, <1>3, <1>4, WriteStep

LEMMA RestoreStayStep == ASSUME IInv, NEW s \in Stays, RestoreStay(s) PROVE IInv' /\ Remain
<1> DEFINE row == [stay[s] EXCEPT !.status = "ACTIVE", !.revision = @ + 1,
                                  !.turned = stay[s].revision + 1]
<1>1. stay[s] \in Stay /\ stay[s].in < stay[s].out
  BY DEF RestoreStay, Booked, IInv, BookingsTypeOK, StaysAreValid
<1>2. /\ row \in Stay /\ row.in = stay[s].in /\ row.out = stay[s].out
      /\ row.revision = stay[s].revision + 1 /\ row.turned = stay[s].revision + 1
  <2>1. stay[s].revision + 1 \in Nat
    BY <1>1 DEF Stay
  <2>2. row \in Stay
    BY <1>1, <2>1 DEF Stay, Time
  <2>3. /\ row.in = stay[s].in /\ row.out = stay[s].out
        /\ row.revision = stay[s].revision + 1 /\ row.turned = stay[s].revision + 1
    BY <1>1 DEF Stay
  <2> QED BY <2>2, <2>3
<1>3. row.turned <= row.revision /\ row.revision > stay[s].revision /\ row.in < row.out
  BY <1>1, <1>2 DEF Stay
<1>4. WriteStay(s, row) /\ open /\ Available(s, row.in, row.out)
  BY <1>2 DEF RestoreStay, Bookable
<1> HIDE DEF row
<1> QED BY <1>2, <1>3, <1>4, WriteStep

LEMMA SyncTasksStep == ASSUME IInv, SyncTasks PROVE IInv' /\ Remain
<1>1. /\ stay \in [Stays -> Stay \cup {None}] /\ task \in [Tasks -> Task \cup {None}]
      /\ Stays \subseteq Tasks
  BY DEF IInv, BookingsTypeOK, Tasks
<1>2. \A s \in Stays : Booked(s) =>
        /\ Synced(s, stay[s]) \in Task \cup {None}
        /\ Synced(s, stay[s]) # None =>
             FinalRow(Synced(s, stay[s])) \/ Follows(stay[s], Synced(s, stay[s]))
        /\ Exists(s) => Synced(s, stay[s]) # None
  BY <1>1, SyncedTask DEF Booked
<1>3. \A t \in Tasks : task'[t] = IF t \in Stays /\ Booked(t) /\ Reconciled(t)
                                 THEN Synced(t, stay[t]) ELSE task[t]
  BY DEF SyncTasks
<1>4. task' \in [Tasks -> Task \cup {None}]
  BY <1>1, <1>2 DEF SyncTasks
<1>5. ASSUME NEW s \in Stays, task'[s] # None
      PROVE  Booked(s) /\ (FinalRow(task'[s]) \/ Follows(stay[s], task'[s]))
  <2>1. CASE Booked(s) /\ Reconciled(s)
    BY <1>1, <1>2, <1>3, <1>5, <2>1
  <2>2. CASE ~(Booked(s) /\ Reconciled(s))
    <3>1. task'[s] = task[s] /\ Tasked(s)
      BY <1>1, <1>3, <2>2 DEF IInv
    <3> QED BY <1>5, <3>1 DEF Tasked, Exists
  <2> QED BY <2>1, <2>2
<1>6. Remain
  BY <1>2, <1>3 DEF Remain, Exists
<1> QED BY <1>4, <1>5, <1>6, TaskStep DEF SyncTasks

--------------------------------------------------------------------------------
\* A task that is not over follows its reservation.
LEMMA EditableTask ==
    ASSUME IInv, NEW t \in Tasks, Editable(t)
    PROVE  /\ task[t] \in Task /\ ~Final(t)
           /\ t \in Stays => Booked(t) /\ Follows(stay[t], task[t])
<1>1. task[t] \in Task /\ ~FinalRow(task[t])
  BY DEF IInv, BookingsTypeOK, Editable, Exists, FinalRow
<1>2. t \in Stays => Tasked(t)
  BY DEF IInv
<1> QED BY <1>1, <1>2 DEF Tasked, Editable, Final, FinalRow, Deliberate

LEMMA CreateTaskStep ==
    ASSUME IInv, NEW t \in Extra, NEW at \in 0..MaxTime, CreateTask(t, at)
    PROVE  IInv' /\ Remain
<1>1. at \in Nat
  BY BoundsAreNat
<1>2. None \in Submissions \cup {None}
  OBVIOUS
<1>3. NewTask(at, TRUE, 0) \in Task
  BY <1>1, <1>2 DEF NewTask, Task, Time
<1>4. t \in Tasks /\ t \notin Stays
  BY TasksAreSeparate DEF Tasks
<1> QED BY <1>3, <1>4, OneTaskStep DEF CreateTask

LEMMA UpdateTaskStep ==
    ASSUME IInv, NEW t \in Tasks, NEW at \in 0..MaxTime, UpdateTask(t, at)
    PROVE  IInv' /\ Remain
<1> DEFINE new == [task[t] EXCEPT !.dueAt = at, !.moved = TRUE, !.version = @ + 1]
<1>1. task[t] \in Task /\ (t \in Stays => Booked(t) /\ Follows(stay[t], task[t]))
  BY EditableTask DEF UpdateTask
<1>2. at \in Nat
  BY BoundsAreNat
<1>3. /\ new \in Task /\ new.source = task[t].source /\ new.status = task[t].status
      /\ new.bySchedule = task[t].bySchedule /\ new.moved
      /\ new.submission = task[t].submission
  <2>1. task[t].version + 1 \in Nat
    BY <1>1 DEF Task
  <2>2. new \in Task
    BY <1>1, <1>2, <2>1 DEF Task, Time
  <2>3. /\ new.source = task[t].source /\ new.status = task[t].status
        /\ new.bySchedule = task[t].bySchedule /\ new.moved
        /\ new.submission = task[t].submission
    BY <1>1, <1>2 DEF Task
  <2> QED BY <2>2, <2>3
<1>4. task' = [task EXCEPT ![t] = new]
  BY <1>1 DEF UpdateTask, IInv, BookingsTypeOK
<1> HIDE DEF new
<1>5. t \in Stays => Follows(stay[t], new)
  BY <1>1, <1>3 DEF Follows
<1> QED BY <1>1, <1>3, <1>4, <1>5, OneTaskStep DEF UpdateTask

LEMMA CancelTaskStep == ASSUME IInv, NEW t \in Tasks, CancelTask(t) PROVE IInv' /\ Remain
<1> DEFINE new == [task[t] EXCEPT !.status = "CANCELLED", !.bySchedule = FALSE, !.version = @ + 1]
<1>1. task[t] \in Task /\ (t \in Stays => Booked(t))
  BY EditableTask DEF CancelTask
<1>2. new \in Task /\ FinalRow(new)
  <2>1. task[t].version + 1 \in Nat
    BY <1>1 DEF Task
  <2>2. new \in Task
    BY <1>1, <2>1 DEF Task
  <2>3. FinalRow(new)
    BY <1>1 DEF Task, FinalRow
  <2> QED BY <2>2, <2>3
<1>3. task' = [task EXCEPT ![t] = new]
  BY <1>1 DEF CancelTask, IInv, BookingsTypeOK
<1> HIDE DEF new
<1> QED BY <1>1, <1>2, <1>3, OneTaskStep DEF CancelTask

LEMMA StartTaskStep ==
    ASSUME IInv, NEW t \in Tasks, NEW d \in Submissions, StartTask(t, d)
    PROVE  IInv' /\ Remain
<1> DEFINE new == [task[t] EXCEPT !.status = "IN_PROGRESS", !.submission = d, !.version = @ + 1]
<1>1. task[t] \in Task /\ (t \in Stays => Booked(t) /\ Follows(stay[t], task[t]))
  BY EditableTask DEF StartTask, Ready
<1>2. d # None
  BY NoneIsNoRow
<1>3. /\ new \in Task /\ new.source = task[t].source /\ new.status = "IN_PROGRESS"
      /\ new.bySchedule = task[t].bySchedule /\ new.moved = task[t].moved
      /\ new.dueAt = task[t].dueAt /\ new.submission = d
  <2>1. task[t].version + 1 \in Nat
    BY <1>1 DEF Task
  <2>2. new \in Task
    BY <1>1, <2>1 DEF Task
  <2>3. /\ new.source = task[t].source /\ new.status = "IN_PROGRESS"
        /\ new.bySchedule = task[t].bySchedule /\ new.moved = task[t].moved
        /\ new.dueAt = task[t].dueAt /\ new.submission = d
    BY <1>1 DEF Task
  <2> QED BY <2>2, <2>3
<1>4. task' = [task EXCEPT ![t] = new]
  BY <1>1 DEF StartTask, IInv, BookingsTypeOK
<1> HIDE DEF new
<1>5. t \in Stays => stay[t].status = "ACTIVE"
  BY DEF StartTask, Ready, Departed, Active
<1>6. t \in Stays => Follows(stay[t], new)
  BY <1>1, <1>2, <1>3, <1>5 DEF Follows
<1> QED BY <1>1, <1>3, <1>4, <1>6, OneTaskStep DEF StartTask

LEMMA CompleteTaskStep == ASSUME IInv, NEW t \in Tasks, CompleteTask(t) PROVE IInv' /\ Remain
<1> DEFINE new == [task[t] EXCEPT !.status = "COMPLETED", !.version = @ + 1]
<1>1. task[t] \in Task /\ (t \in Stays => Booked(t))
  BY EditableTask DEF CompleteTask, Ready
<1>2. new \in Task /\ FinalRow(new)
  <2>1. task[t].version + 1 \in Nat
    BY <1>1 DEF Task
  <2>2. new \in Task
    BY <1>1, <2>1 DEF Task
  <2>3. FinalRow(new)
    BY <1>1 DEF Task, FinalRow
  <2> QED BY <2>2, <2>3
<1>3. task' = [task EXCEPT ![t] = new]
  BY <1>1 DEF CompleteTask, IInv, BookingsTypeOK
<1> HIDE DEF new
<1> QED BY <1>1, <1>2, <1>3, OneTaskStep DEF CompleteTask

LEMMA SwitchStep == ASSUME IInv, SwitchProperty PROVE IInv' /\ Remain
<1>1. BookingsTypeOK'
  BY DEF IInv, BookingsTypeOK, StaysAreValid, SwitchProperty
<1>2. NoDoubleBooking'
  BY DEF IInv, NoDoubleBooking, Active, Booked, Overlaps, SwitchProperty
<1>3. InactiveIsEmpty'
  BY DEF IInv, InactiveIsEmpty, BookingsTypeOK, Pending, Active, Booked, SwitchProperty
<1>4. \A s \in Stays : Tasked(s)'
  BY DEF IInv, Tasked, Exists, Booked, SwitchProperty
<1>5. Remain
  BY DEF Remain, Exists, SwitchProperty
<1> QED BY <1>1, <1>2, <1>3, <1>4, <1>5 DEF IInv

LEMMA TickStep == ASSUME IInv, Tick PROVE IInv' /\ Remain
<1>1. BookingsTypeOK'
  BY DEF IInv, BookingsTypeOK, StaysAreValid, Tick, Time
<1>2. NoDoubleBooking'
  BY DEF IInv, NoDoubleBooking, Active, Booked, Overlaps, Tick
<1>3. InactiveIsEmpty'
  <2> SUFFICES ASSUME ~open, NEW s \in Stays, Active(s), stay[s].out > now + 1
               PROVE  FALSE
    BY DEF Tick, InactiveIsEmpty, Pending, Active, Booked
  <2>1. stay[s].out \in Nat /\ now \in Nat
    BY DEF IInv, BookingsTypeOK, Active, Booked, Stay, Time
  <2> QED BY <2>1 DEF IInv, InactiveIsEmpty, Pending
<1>4. \A s \in Stays : Tasked(s)'
  BY DEF IInv, Tasked, Exists, Booked, Tick
<1>5. Remain
  BY DEF Remain, Exists, Tick
<1> QED BY <1>1, <1>2, <1>3, <1>4, <1>5 DEF IInv

--------------------------------------------------------------------------------
LEMMA NextIInv == ASSUME IInv, BookingsNext PROVE IInv' /\ Remain
<1>1. CASE \E s \in Stays, p \in Periods, g \in Guests : CreateStay(s, p[1], p[2], g)
  BY <1>1, CreateStayStep
<1>2. CASE \E s \in Stays, p \in Periods, g \in Guests : UpdateStay(s, p[1], p[2], g)
  BY <1>2, UpdateStayStep
<1>3. CASE \E s \in Stays : CancelStay(s)
  BY <1>3, CancelStayStep
<1>4. CASE \E s \in Stays : RestoreStay(s)
  BY <1>4, RestoreStayStep
<1>5. CASE SyncTasks
  BY <1>5, SyncTasksStep
<1>6. CASE \E t \in Extra, at \in 0..MaxTime : CreateTask(t, at)
  BY <1>6, CreateTaskStep
<1>7. CASE \E t \in Tasks, at \in 0..MaxTime : UpdateTask(t, at)
  BY <1>7, UpdateTaskStep
<1>8. CASE \E t \in Tasks : CancelTask(t)
  BY <1>8, CancelTaskStep
<1>9. CASE \E t \in Tasks, d \in Submissions : StartTask(t, d)
  BY <1>9, StartTaskStep
<1>10. CASE \E t \in Tasks : CompleteTask(t)
  BY <1>10, CompleteTaskStep
<1>11. CASE SwitchProperty
  BY <1>11, SwitchStep
<1>12. CASE Tick
  BY <1>12, TickStep
<1> QED
  BY <1>1, <1>2, <1>3, <1>4, <1>5, <1>6, <1>7, <1>8, <1>9, <1>10, <1>11, <1>12
  DEF BookingsNext, Booking

LEMMA StutterIInv == ASSUME IInv, UNCHANGED bookingVars PROVE IInv' /\ Remain
<1>1. BookingsTypeOK'
  BY DEF bookingVars, IInv, BookingsTypeOK, StaysAreValid
<1>2. NoDoubleBooking' /\ InactiveIsEmpty'
  BY DEF bookingVars, IInv, NoDoubleBooking, InactiveIsEmpty, Pending, Active, Booked, Overlaps
<1>3. \A s \in Stays : Tasked(s)'
  BY DEF bookingVars, IInv, Tasked, Exists, Booked
<1>4. Remain
  BY DEF bookingVars, Remain, Exists
<1> QED BY <1>1, <1>2, <1>3, <1>4 DEF IInv

\* The strengthening: a departure's task always belongs to a reservation, and is over or
\* follows it.
THEOREM Invariant == BookingsSpec => []IInv
<1>1. IInv /\ [BookingsNext]_bookingVars => IInv'
  BY NextIInv, StutterIInv
<1> QED BY InitIInv, <1>1, PTL DEF BookingsSpec

\* However reservations are made, moved, cancelled and restored, two that are active never
\* overlap (assertAvailable()).
THEOREM HouseIsNeverDoubleBooked == BookingsSpec => []NoDoubleBooking
<1>1. IInv => NoDoubleBooking
  BY DEF IInv
<1> QED BY Invariant, <1>1, PTL

\* The task of a departure that is not over agrees with the current revision of its
\* reservation, after any number of corrections, cancellations, restorations and
\* reconciliations, whoever started it (syncCleaningTaskForStay()).
THEOREM TasksFollowTheirStays == BookingsSpec => []TaskFollowsStay
<1>1. IInv => TaskFollowsStay
  BY Follow
<1> QED BY Invariant, <1>1, PTL

\* A property is taken out of operation only with no reservation pending, and none becomes
\* pending while it is (requirePropertyOperationChange(), requireActiveProperty()).
THEOREM InactivePropertiesAreEmpty == BookingsSpec => []InactiveIsEmpty
<1>1. IInv => InactiveIsEmpty
  BY DEF IInv
<1> QED BY Invariant, <1>1, PTL

--------------------------------------------------------------------------------
LEMMA FinalStep ==
    ASSUME IInv, BookingsNext, NEW t \in Tasks, Exists(t), Final(t)
    PROVE  task'[t] = task[t]
<1>1. task \in [Tasks -> Task \cup {None}]
  BY DEF IInv, BookingsTypeOK
<1>2. ~Editable(t)
  BY DEF Final, Deliberate, Editable
<1>3. ASSUME NEW s \in Stays, NEW row, WriteStay(s, row) PROVE task'[t] = task[t]
  <2>1. s = t => Synced(s, row) = task[t]
    BY DEF Synced
  <2> QED BY <1>1, <1>3, <2>1 DEF WriteStay
<1>4. CASE \E s \in Stays, p \in Periods, g \in Guests :
             CreateStay(s, p[1], p[2], g) \/ UpdateStay(s, p[1], p[2], g)
  BY <1>3, <1>4 DEF CreateStay, UpdateStay
<1>5. CASE \E s \in Stays : CancelStay(s) \/ RestoreStay(s)
  BY <1>3, <1>5 DEF CancelStay, RestoreStay
<1>6. CASE SyncTasks
  <2>1. Synced(t, stay[t]) = task[t]
    BY DEF Synced
  <2> QED BY <1>1, <1>6, <2>1 DEF SyncTasks
<1>7. CASE \E s \in Extra, at \in 0..MaxTime : CreateTask(s, at)
  BY <1>1, <1>7 DEF CreateTask
<1>8. CASE \E s \in Tasks, at \in 0..MaxTime : UpdateTask(s, at)
  BY <1>1, <1>2, <1>8 DEF UpdateTask
<1>9. CASE \E s \in Tasks : CancelTask(s)
  BY <1>1, <1>2, <1>9 DEF CancelTask
<1>10. CASE \E s \in Tasks : CompleteTask(s) \/ \E d \in Submissions : StartTask(s, d)
  BY <1>1, <1>2, <1>10 DEF CompleteTask, StartTask, Ready
<1>11. CASE SwitchProperty \/ Tick
  BY <1>11 DEF SwitchProperty, Tick
<1> QED
  BY <1>4, <1>5, <1>6, <1>7, <1>8, <1>9, <1>10, <1>11 DEF BookingsNext, Booking

\* Completed and deliberately cancelled work is never touched again.
THEOREM FinalWorkIsImmutable == BookingsSpec => FinalTasks
<1> DEFINE Kept == \A t \in Tasks : Exists(t) /\ (task[t].status = "COMPLETED" \/ Deliberate(t))
                                  => task'[t] = task[t]
<1>1. IInv /\ [BookingsNext]_bookingVars => [Kept]_bookingVars
  BY FinalStep DEF Final
<1>2. [][Kept]_bookingVars => FinalTasks
  BY DEF FinalTasks
<1> HIDE DEF Kept
<1> QED BY Invariant, <1>1, <1>2, PTL DEF BookingsSpec
================================================================================
