--------------------------- MODULE CleaningWorkProofs ---------------------------
(***************************************************************************)
(* Theorems about CleaningWork: it implements Bookings, and what becomes   *)
(* of drafts and their links.                                              *)
(***************************************************************************)
EXTENDS GuestCodes, BookingsProofs, WellFoundedInduction

WorkTypes ==
    /\ staff \in Staff \cup {None} /\ active \subseteq Staff
    /\ qrs \in Nat /\ qr \in {0, qrs} /\ links \in Nat
    /\ draft \in [Submissions -> Draft \cup {None}]

\* Every draft is of a task, of a link and a QR code that were issued, and is revised only
\* after its submission.
DraftIsSound(d) ==
    draft[d] # None =>
      /\ Exists(draft[d].task)
      /\ draft[d].status = "DRAFT" => ~draft[d].revised
      /\ draft[d].link <= links
      /\ 0 < draft[d].qr /\ draft[d].qr <= qrs

\* Whoever lost a property lost its QR code as well.
LostWithItsCode(d) == draft[d] # None /\ draft[d].link # 0 /\ Lost(d) => draft[d].qr # qr

WInv ==
    /\ IInv
    /\ WorkTypes
    /\ \A d \in Submissions : DraftIsSound(d)
    /\ OneOpenDraft
    /\ \A d \in Submissions : LostWithItsCode(d)

--------------------------------------------------------------------------------
LEMMA InitWInv == Init => WInv
<1> SUFFICES ASSUME Init PROVE WInv
  OBVIOUS
<1>1. IInv
  BY InitIInv DEF Init
<1>2. WorkTypes
  BY DEF Init, WorkTypes
<1>3. \A d \in Submissions : draft[d] = None
  BY DEF Init
<1>4. \A t \in Tasks : ~Exists(t)
  BY DEF Init, BookingsInit, Exists
<1>5. OneOpenDraft
  BY <1>3, <1>4 DEF OneOpenDraft
<1> QED BY <1>1, <1>2, <1>3, <1>5 DEF WInv, DraftIsSound, LostWithItsCode

\* What the schedule and the administrators of tasks leave alone.
Kept(t) ==
    /\ Exists(t) => /\ task'[t] # None /\ task'[t].submission = task[t].submission
                    /\ task'[t].status = "COMPLETED" <=> task[t].status = "COMPLETED"
    /\ ~Exists(t) /\ task'[t] # None => task'[t].submission = None /\ task'[t].status # "COMPLETED"

LEMMA SyncedKeeps ==
    ASSUME IInv, NEW s \in Stays, NEW row
    PROVE  /\ Exists(s) => /\ Synced(s, row).submission = task[s].submission
                           /\ Synced(s, row).status = "COMPLETED" <=> task[s].status = "COMPLETED"
           /\ ~Exists(s) /\ Synced(s, row) # None =>
                Synced(s, row).submission = None /\ Synced(s, row).status # "COMPLETED"
<1>1. CASE ~Exists(s)
  BY <1>1 DEF Synced, NewTask
<1>2. CASE Exists(s)
  <2>1. task[s] \in Task
    BY <1>2 DEF IInv, BookingsTypeOK, Exists, Tasks
  <2>2. CASE Synced(s, row) = task[s]
    BY <1>2, <2>2
  <2>3. CASE Synced(s, row) # task[s]
    <3> DEFINE status == ScheduledStatus(s, row)
               dueAt == IF task[s].moved THEN task[s].dueAt ELSE row.out
    <3>1. Synced(s, row) = [task[s] EXCEPT !.status = status, !.dueAt = dueAt,
             !.source = row.revision, !.bySchedule = (row.status = "CANCELLED"),
             !.version = @ + 1]
      BY <1>2, <2>3 DEF Synced
    <3>2. /\ Synced(s, row).submission = task[s].submission
          /\ Synced(s, row).status = status
      BY <2>1, <3>1 DEF Task
    <3>3. task[s].status # "COMPLETED"
      BY <1>2, <2>3 DEF Synced, Final
    <3>4. status # "COMPLETED"
      BY <3>3 DEF ScheduledStatus
    <3> QED BY <1>2, <3>2, <3>3, <3>4
  <2> QED BY <2>2, <2>3
<1> QED BY <1>1, <1>2

LEMMA BookingKeeps == ASSUME IInv, Booking, NEW t \in Tasks PROVE Kept(t)
<1>1. task \in [Tasks -> Task \cup {None}]
  BY DEF IInv, BookingsTypeOK
<1>2. IInv' /\ (Exists(t) => task'[t] # None)
  BY NextIInv DEF BookingsNext, Remain
<1>3. ASSUME NEW s \in Stays, NEW row, WriteStay(s, row) PROVE Kept(t)
  <2>1. task' = [task EXCEPT ![s] = Synced(s, row)]
    BY <1>3 DEF WriteStay
  <2>2. CASE s = t
    <3>1. task'[t] = Synced(t, row)
      BY <1>1, <2>1, <2>2
    <3> QED BY <1>2, <2>2, <3>1, SyncedKeeps DEF Kept
  <2>3. CASE s # t
    <3>1. task'[t] = task[t]
      BY <1>1, <2>1, <2>3
    <3> QED BY <3>1 DEF Kept, Exists
  <2> QED BY <2>2, <2>3
<1>4. CASE \E s \in Stays, p \in Periods, g \in Guests :
             CreateStay(s, p[1], p[2], g) \/ UpdateStay(s, p[1], p[2], g)
  BY <1>3, <1>4 DEF CreateStay, UpdateStay
<1>5. CASE \E s \in Stays : CancelStay(s) \/ RestoreStay(s)
  BY <1>3, <1>5 DEF CancelStay, RestoreStay
<1>6. CASE SyncTasks
  <2>1. CASE t \in Stays /\ Booked(t) /\ Reconciled(t)
    <3>1. task'[t] = Synced(t, stay[t])
      BY <1>6, <2>1 DEF SyncTasks
    <3> QED BY <1>2, <2>1, <3>1, SyncedKeeps DEF Kept
  <2>2. CASE ~(t \in Stays /\ Booked(t) /\ Reconciled(t))
    <3>1. task'[t] = task[t]
      BY <1>6, <2>2 DEF SyncTasks
    <3> QED BY <3>1 DEF Kept, Exists
  <2> QED BY <2>1, <2>2
<1>7. CASE \E x \in Extra, at \in 0..MaxTime : CreateTask(x, at)
  <2>1. PICK x \in Extra, at \in 0..MaxTime : CreateTask(x, at)
    BY <1>7
  <2>2. CASE x = t
    <3>1. ~Exists(t) /\ task'[t].submission = None /\ task'[t].status # "COMPLETED"
      BY <1>1, <2>1, <2>2 DEF CreateTask, NewTask
    <3> QED BY <3>1 DEF Kept
  <2>3. CASE x # t
    <3>1. task'[t] = task[t]
      BY <1>1, <2>1, <2>3 DEF CreateTask
    <3> QED BY <3>1 DEF Kept, Exists
  <2> QED BY <2>2, <2>3
<1>8. ASSUME NEW x \in Tasks, Editable(x), NEW new, task' = [task EXCEPT ![x] = new],
             new.submission = task[x].submission, new.status # "COMPLETED"
      PROVE  Kept(t)
  <2>1. CASE x = t
    <3>1. task'[t] = new
      BY <1>1, <1>8, <2>1
    <3> QED BY <1>2, <1>8, <2>1, <3>1 DEF Kept, Editable
  <2>2. CASE x # t
    <3>1. task'[t] = task[t]
      BY <1>1, <1>8, <2>2
    <3> QED BY <3>1 DEF Kept, Exists
  <2> QED BY <2>1, <2>2
<1>9. CASE \E x \in Tasks : CancelTask(x)
  <2>1. PICK x \in Tasks : CancelTask(x)
    BY <1>9
  <2> DEFINE new == [task[x] EXCEPT !.status = "CANCELLED", !.bySchedule = FALSE, !.version = @ + 1]
  <2>2. Editable(x) /\ task[x] \in Task
    BY <1>1, <2>1 DEF CancelTask, Editable, Exists
  <2>3. task' = [task EXCEPT ![x] = new]
    BY <1>1, <2>1 DEF CancelTask
  <2>4. new.submission = task[x].submission /\ new.status # "COMPLETED"
    BY <2>2 DEF Task
  <2> HIDE DEF new
  <2> QED BY <1>8, <2>2, <2>3, <2>4
<1>10. CASE \E x \in Tasks, at \in 0..MaxTime : UpdateTask(x, at)
  <2>1. PICK x \in Tasks, at \in 0..MaxTime : UpdateTask(x, at)
    BY <1>10
  <2> DEFINE new == [task[x] EXCEPT !.dueAt = at, !.moved = TRUE, !.version = @ + 1]
  <2>2. Editable(x) /\ task[x] \in Task
    BY <1>1, <2>1 DEF UpdateTask, Editable, Exists
  <2>3. task' = [task EXCEPT ![x] = new]
    BY <1>1, <2>1 DEF UpdateTask
  <2>4. new.submission = task[x].submission /\ new.status # "COMPLETED"
    BY <2>2 DEF Task, Editable
  <2> HIDE DEF new
  <2> QED BY <1>8, <2>2, <2>3, <2>4
<1>11. CASE SwitchProperty \/ Tick
  BY <1>11 DEF SwitchProperty, Tick, Kept, Exists
<1> QED BY <1>4, <1>5, <1>6, <1>7, <1>9, <1>10, <1>11 DEF Booking

--------------------------------------------------------------------------------
LEMMA StartIsStart ==
    ASSUME IInv, NEW t \in Tasks, NEW d \in Submissions, Start(t, d)
    PROVE  StartTask(t, d)
<1>1. Ready(t) /\ UNCHANGED <<now, open, stay>>
  BY DEF Start
<1>2. task \in [Tasks -> Task \cup {None}] /\ task[t] \in Task
  BY <1>1 DEF IInv, BookingsTypeOK, Ready, Editable, Exists
<1> DEFINE started == [task[t] EXCEPT !.status = "IN_PROGRESS", !.version = @ + 1, !.submission = d]
           asInBookings == [task[t] EXCEPT !.status = "IN_PROGRESS", !.submission = d, !.version = @ + 1]
<1>3. started = asInBookings
  BY <1>2 DEF Task
<1>4. task' = [task EXCEPT ![t] = started]
  BY <1>2 DEF Start
<1> HIDE DEF started
<1>5. task' = [task EXCEPT ![t].status = "IN_PROGRESS", ![t].submission = d, ![t].version = @ + 1]
  BY <1>2, <1>3, <1>4
<1> QED BY <1>1, <1>5 DEF StartTask

\* The task of a draft whose link opens exists and is the one that the draft is for.
LEMMA OpensATask ==
    ASSUME WInv, NEW d \in Submissions, Opens(d)
    PROVE  /\ draft[d] \in Draft /\ draft[d].task \in Tasks /\ Exists(draft[d].task)
           /\ task[draft[d].task] \in Task /\ task[draft[d].task].submission = d
           /\ draft[d].status = "DRAFT" => task[draft[d].task].status = "IN_PROGRESS"
<1>1. draft[d] \in Draft
  BY DEF WInv, WorkTypes, Opens
<1>2. draft[d].task \in Tasks
  BY <1>1 DEF Draft
<1>3. Exists(draft[d].task)
  BY DEF WInv, DraftIsSound, Opens
<1>4. task[draft[d].task] \in Task
  BY <1>2, <1>3 DEF WInv, IInv, BookingsTypeOK, Exists
<1> QED BY <1>1, <1>2, <1>3, <1>4 DEF Opens

LEMMA SubmitIsComplete ==
    ASSUME WInv, NEW d \in Submissions, Submit(d)
    PROVE  CompleteTask(draft[d].task)
<1> DEFINE t == draft[d].task
<1>1. Opens(d) /\ draft[d].status = "DRAFT" /\ ~Blocked(t)
  BY DEF Submit, Working
<1>2. /\ t \in Tasks /\ Exists(t) /\ task[t] \in Task /\ task[t].status = "IN_PROGRESS"
  BY <1>1, OpensATask
<1>3. /\ UNCHANGED <<now, open, stay>>
      /\ task' = [task EXCEPT ![t].status = "COMPLETED", ![t].version = @ + 1]
  BY DEF Submit
<1>4. open
  BY <1>1 DEF Opens
<1> HIDE DEF t
<1>5. now \in Nat /\ task[t].dueAt \in Nat
  BY <1>2 DEF WInv, IInv, BookingsTypeOK, Task, Time
<1>6. task[t].dueAt <= now
  BY <1>1, <1>5 DEF Blocked
<1>7. Departed(t)
  <2> SUFFICES ASSUME t \in Stays PROVE Active(t) /\ stay[t].out <= now
    BY DEF Departed
  <2>1. Active(t) /\ ~(stay[t].out > now)
    BY <1>1 DEF Blocked
  <2>2. stay[t].out \in Nat
    BY <2>1 DEF WInv, IInv, BookingsTypeOK, Active, Booked, Stay, Time
  <2> QED BY <1>5, <2>1, <2>2
<1>8. ~Occupied
  BY <1>1 DEF Blocked, InUse
<1>9. Ready(t)
  BY <1>2, <1>4, <1>6, <1>7, <1>8 DEF Ready, Editable
<1> QED BY <1>2, <1>3, <1>9 DEF CompleteTask, t

\* Every step is a step of Bookings or leaves its variables alone.
LEMMA Simulates == ASSUME WInv, [Next]_vars PROVE [BookingsNext]_bookingVars
<1>1. CASE Booking /\ UNCHANGED workVars
  BY <1>1 DEF BookingsNext
<1>2. CASE \E t \in Tasks, d \in Submissions : Start(t, d)
  <2>1. PICK t \in Tasks, d \in Submissions : Start(t, d)
    BY <1>2
  <2>2. StartTask(t, d)
    BY <2>1, StartIsStart DEF WInv
  <2> QED BY <2>2 DEF BookingsNext
<1>3. CASE \E d \in Submissions : Submit(d)
  <2>1. PICK d \in Submissions : Submit(d)
    BY <1>3
  <2>2. CompleteTask(draft[d].task) /\ draft[d].task \in Tasks
    BY <2>1, SubmitIsComplete, OpensATask DEF Submit, Working
  <2> QED BY <2>2 DEF BookingsNext
<1>4. CASE \/ \E u \in Staff \cup {None} : Assign(u)
           \/ RotateQr
           \/ \E u \in Staff, r \in Staff \cup {None} : Deactivate(u, r)
           \/ \E u \in Staff : Activate(u)
           \/ \E rotating \in BOOLEAN, c \in Codes \cup {None} : SaveSettings(rotating, c)
           \/ \E s \in Stays, c \in Codes : SaveCode(s, c)
           \/ \E d \in Submissions : ShowCode(d)
           \/ \E d \in Submissions, status \in {"SUBMITTED", "CANCELLED"} : Revise(d, status)
  <2>1. UNCHANGED bookingVars
    BY <1>4 DEF Assign, RotateQr, Deactivate, Activate, SaveSettings, SaveCode, ShowCode, Revise
  <2> QED BY <2>1
<1>5. CASE UNCHANGED vars
  BY <1>5 DEF vars
<1> QED BY <1>1, <1>2, <1>3, <1>4, <1>5 DEF Next

--------------------------------------------------------------------------------
\* What is said of drafts, after a step that starts and completes no task.
LEMMA DraftFrame ==
    ASSUME WInv, \A t \in Tasks : Kept(t), \A t \in Tasks : Exists(t) => task'[t] # None,
           \A d \in Submissions :
             /\ draft'[d] # None <=> draft[d] # None
             /\ draft[d] # None => /\ draft'[d].task = draft[d].task
                                   /\ draft'[d].status = "DRAFT" <=> draft[d].status = "DRAFT"
    PROVE  OneOpenDraft'
<1>1. ASSUME NEW d \in Submissions, draft'[d] # None, draft'[d].status = "DRAFT"
      PROVE  task'[draft'[d].task].submission = d
  <2>1. draft[d] # None /\ draft[d].status = "DRAFT" /\ draft'[d].task = draft[d].task
    BY <1>1
  <2>2. draft[d].task \in Tasks /\ Exists(draft[d].task) /\ task[draft[d].task].submission = d
    BY <2>1 DEF WInv, WorkTypes, Draft, DraftIsSound, OneOpenDraft
  <2> QED BY <2>1, <2>2 DEF Kept
<1>2. ASSUME NEW t \in Tasks, task'[t] # None, task'[t].submission # None
      PROVE  LET d == draft'[task'[t].submission]
             IN  d # None /\ d.task = t /\ (d.status = "DRAFT" <=> task'[t].status # "COMPLETED")
  <2>1. /\ Exists(t) /\ task'[t].submission = task[t].submission
        /\ task'[t].status = "COMPLETED" <=> task[t].status = "COMPLETED"
    BY <1>2 DEF Kept
  <2>2. task[t].submission \in Submissions
    BY <1>2, <2>1 DEF WInv, IInv, BookingsTypeOK, Exists, Task
  <2>3. LET d == draft[task[t].submission]
        IN  d # None /\ d.task = t /\ (d.status = "DRAFT" <=> task[t].status # "COMPLETED")
    BY <1>2, <2>1 DEF WInv, OneOpenDraft
  <2> QED BY <2>1, <2>2, <2>3
<1> QED BY <1>1, <1>2 DEF OneOpenDraft, Exists

LEMMA SameTasks == ASSUME task' = task, NEW t \in Tasks PROVE Kept(t)
  BY DEF Kept, Exists

LEMMA BookingWStep == ASSUME WInv, Booking, UNCHANGED workVars PROVE WInv'
<1>1. IInv' /\ Remain /\ \A t \in Tasks : Kept(t)
  BY NextIInv, BookingKeeps DEF WInv, BookingsNext
<1>2. WorkTypes'
  BY DEF WInv, WorkTypes, workVars
<1>3. ASSUME NEW d \in Submissions PROVE DraftIsSound(d)' /\ LostWithItsCode(d)'
  <2>1. draft[d] # None => draft[d].task \in Tasks
    BY DEF WInv, WorkTypes, Draft
  <2> QED BY <1>1, <2>1 DEF WInv, DraftIsSound, LostWithItsCode, Lost, workVars, Remain, Exists
<1>4. OneOpenDraft'
  BY <1>1, DraftFrame DEF workVars, Remain
<1> QED BY <1>1, <1>2, <1>3, <1>4 DEF WInv

\* Steps that change neither the tables of Bookings nor what drafts are for.
LEMMA AccessStep ==
    ASSUME WInv, UNCHANGED bookingVars, WorkTypes',
           \A d \in Submissions :
             /\ draft'[d] # None <=> draft[d] # None
             /\ draft[d] # None => /\ draft'[d].task = draft[d].task
                                   /\ draft'[d].status = "DRAFT" <=> draft[d].status = "DRAFT",
           \A d \in Submissions : DraftIsSound(d)' /\ LostWithItsCode(d)'
    PROVE  WInv'
<1>1. IInv'
  BY StutterIInv DEF WInv
<1>2. OneOpenDraft'
  BY SameTasks, DraftFrame DEF bookingVars, Exists
<1> QED BY <1>1, <1>2 DEF WInv

LEMMA AssignStep == ASSUME WInv, NEW u \in Staff \cup {None}, Assign(u) PROVE WInv'
<1>1. /\ staff' = u /\ qr' = QrOf(u)
      /\ UNCHANGED <<bookingVars, active, qrs, links, draft>>
  BY DEF Assign
<1>2. WorkTypes'
  BY <1>1 DEF WInv, WorkTypes, QrOf
<1>3. ASSUME NEW d \in Submissions PROVE DraftIsSound(d)'
  BY <1>1 DEF WInv, DraftIsSound, bookingVars, Exists
<1>4. ASSUME NEW d \in Submissions PROVE LostWithItsCode(d)'
  <2> SUFFICES ASSUME draft[d] # None, draft[d].link # 0, Lost(d)'
               PROVE  draft[d].qr # qr'
    BY <1>1 DEF LostWithItsCode
  <2>1. 0 < draft[d].qr
    BY DEF WInv, DraftIsSound
  <2>2. CASE u = staff
    BY <1>1, <2>2 DEF WInv, LostWithItsCode, Lost, QrOf
  <2>3. CASE u # staff
    BY <1>1, <2>1, <2>3 DEF QrOf
  <2> QED BY <2>2, <2>3
<1> QED BY <1>1, <1>2, <1>3, <1>4, AccessStep

LEMMA RotateQrStep == ASSUME WInv, RotateQr PROVE WInv'
<1>1. /\ qrs' = qrs + 1 /\ qr' = qrs + 1
      /\ UNCHANGED <<bookingVars, staff, active, links, draft>>
  BY DEF RotateQr
<1>2. WorkTypes'
  BY <1>1 DEF WInv, WorkTypes
<1>3. ASSUME NEW d \in Submissions, draft[d] # None
      PROVE  /\ draft[d].qr \in Nat /\ draft[d].qr <= qrs /\ qrs \in Nat
  BY <1>3 DEF WInv, WorkTypes, Draft, DraftIsSound
<1>4. ASSUME NEW d \in Submissions PROVE DraftIsSound(d)' /\ LostWithItsCode(d)'
  <2>1. draft[d] # None => draft[d].qr <= qrs + 1 /\ draft[d].qr # qrs + 1
    BY <1>3
  <2> QED BY <1>1, <2>1 DEF WInv, DraftIsSound, LostWithItsCode, bookingVars, Exists
<1> QED BY <1>1, <1>2, <1>4, AccessStep

LEMMA DeactivateStep ==
    ASSUME WInv, NEW u \in Staff, NEW r \in Staff \cup {None}, Deactivate(u, r)
    PROVE  WInv'
<1>1. /\ active' = active \ {u} /\ staff' = IF u = staff THEN r ELSE staff
      /\ qr' = IF u = staff THEN 0 ELSE qr
      /\ UNCHANGED <<bookingVars, qrs, links>>
  BY DEF Deactivate
<1>2. draft \in [Submissions -> Draft \cup {None}]
  BY DEF WInv, WorkTypes
<1>3. ASSUME NEW d \in Submissions
      PROVE  /\ draft[d] = None => draft'[d] = None
             /\ draft[d] # None =>
                  /\ draft'[d] \in Draft
                  /\ draft'[d].task = draft[d].task /\ draft'[d].author = draft[d].author
                  /\ draft'[d].status = draft[d].status /\ draft'[d].qr = draft[d].qr
                  /\ draft'[d].revised = draft[d].revised
                  /\ draft'[d].link = IF draft[d].author = u THEN 0 ELSE draft[d].link
  <2>1. draft'[d] = IF draft[d] # None /\ draft[d].author = u
                    THEN [draft[d] EXCEPT !.link = 0] ELSE draft[d]
    BY DEF Deactivate
  <2>2. draft[d] # None => draft[d] \in Draft
    BY <1>2
  <2> QED BY <2>1, <2>2 DEF Draft
<1>4. None \notin Draft
  BY NoneIsNoWork
<1>5. WorkTypes'
  <2>1. draft' \in [Submissions -> Draft \cup {None}]
    BY <1>3 DEF Deactivate
  <2> QED BY <1>1, <2>1 DEF WInv, WorkTypes
<1>6. ASSUME NEW d \in Submissions PROVE DraftIsSound(d)'
  <2>1. draft[d] # None => draft[d].link <= links /\ links \in Nat
    BY DEF WInv, WorkTypes, DraftIsSound
  <2>2. draft[d] # None => draft'[d].link <= links
    BY <1>3, <2>1
  <2> QED BY <1>1, <1>3, <2>2 DEF WInv, DraftIsSound, bookingVars, Exists
<1>7. ASSUME NEW d \in Submissions PROVE LostWithItsCode(d)'
  <2> SUFFICES ASSUME draft[d] # None, draft'[d].link # 0, Lost(d)'
               PROVE  draft[d].qr # qr'
    BY <1>3 DEF LostWithItsCode
  <2>1. draft[d].author # u /\ draft'[d].link = draft[d].link
    BY <1>3
  <2>2. 0 < draft[d].qr
    BY DEF WInv, DraftIsSound
  <2>3. CASE u = staff
    BY <1>1, <2>2, <2>3
  <2>4. CASE u # staff
    <3>1. staff' = staff /\ qr' = qr
      BY <1>1, <2>4
    <3>2. Lost(d)
      BY <1>1, <1>3, <2>4, <3>1 DEF Lost
    <3> QED BY <2>1, <3>1, <3>2 DEF WInv, LostWithItsCode
  <2> QED BY <2>3, <2>4
<1> QED BY <1>1, <1>3, <1>4, <1>5, <1>6, <1>7, AccessStep

LEMMA ActivateStep == ASSUME WInv, NEW u \in Staff, Activate(u) PROVE WInv'
<1>1. active' = active \cup {u} /\ UNCHANGED <<bookingVars, staff, qr, qrs, links, draft>>
  BY DEF Activate
<1>2. WorkTypes'
  BY <1>1 DEF WInv, WorkTypes
<1>3. ASSUME NEW d \in Submissions PROVE DraftIsSound(d)' /\ LostWithItsCode(d)'
  <2>1. Lost(d)' => Lost(d)
    BY <1>1 DEF Lost
  <2> QED BY <1>1, <2>1 DEF WInv, DraftIsSound, LostWithItsCode, bookingVars, Exists
<1> QED BY <1>1, <1>2, <1>3, AccessStep

\* Steps that concern codes and what is shown of them.
LEMMA CodeStep ==
    ASSUME WInv, UNCHANGED <<bookingVars, staff, active, qr, qrs, links, draft>>
    PROVE  WInv'
<1>1. WorkTypes'
  BY DEF WInv, WorkTypes
<1>2. ASSUME NEW d \in Submissions PROVE DraftIsSound(d)' /\ LostWithItsCode(d)'
  BY DEF WInv, DraftIsSound, LostWithItsCode, Lost, bookingVars, Exists
<1> QED BY <1>1, <1>2, AccessStep

--------------------------------------------------------------------------------
\* The three ways in which a task is started, as what becomes of each draft.
LEMMA StartedDrafts ==
    ASSUME WInv, NEW t \in Tasks, NEW d \in Submissions, Start(t, d)
    PROVE  /\ draft' \in [Submissions -> Draft \cup {None}]
           /\ draft'[d] # None /\ draft'[d].task = t /\ draft'[d].author = staff
           /\ draft'[d].status = "DRAFT" /\ ~draft'[d].revised
           /\ draft'[d].link = links + 1 /\ draft'[d].qr = qr
           /\ draft[d] # None => task[t].submission = d
           /\ \A e \in Submissions \ {d} :
                \/ draft'[e] = draft[e] /\ task[t].submission # e
                \/ /\ task[t].submission = e /\ draft[e] # None /\ draft'[e] # None
                   /\ draft'[e].task = t /\ draft'[e].status = "CANCELLED"
                   /\ draft'[e].link = 0 /\ draft'[e].qr = draft[e].qr
<1> DEFINE old == task[t].submission
           new == NewDraft(t)
<1>1. /\ staff \in Staff /\ links' = links + 1 /\ links \in Nat /\ qr \in Nat
      /\ draft \in [Submissions -> Draft \cup {None}] /\ None \notin Draft
  BY NoneIsNoWork DEF WInv, WorkTypes, Start
<1>2. /\ new \in Draft /\ new.task = t /\ new.author = staff /\ new.status = "DRAFT"
      /\ ~new.revised /\ new.link = links + 1 /\ new.qr = qr
  BY <1>1 DEF NewDraft, Draft
<1>3. old \in Submissions \cup {None}
  BY DEF WInv, IInv, BookingsTypeOK, Start, Ready, Editable, Exists, Task
<1>4. d # None
  BY NoneIsNoRow
<1> HIDE DEF new
<1>5. CASE old = None /\ Begin(t, d)
  <2>1. draft[d] = None /\ draft' = [draft EXCEPT ![d] = new]
    BY <1>5 DEF Begin, new
  <2>2. \A e \in Submissions : task[t].submission # e
    BY <1>5, NoneIsNoRow
  <2>3. new # None
    BY <1>1, <1>2
  <2> QED BY <1>1, <1>2, <2>1, <2>2, <2>3
<1>6. CASE old # None /\ draft[old].status = "DRAFT" /\ d = old /\ Resume(t, d)
  <2>1. draft[d] # None /\ draft[d].task = t /\ draft[d] \in Draft /\ ~draft[d].revised
    BY <1>1, <1>6 DEF WInv, OneOpenDraft, Start, Ready, Editable, DraftIsSound
  <2>2. draft' = [draft EXCEPT ![d] = [draft[d] EXCEPT !.link = links + 1, !.qr = qr]]
    BY <1>1, <1>6 DEF Resume
  <2> DEFINE resumed == [draft[d] EXCEPT !.link = links + 1, !.qr = qr]
  <2>3. links + 1 \in Nat
    BY <1>1
  <2>4. resumed \in Draft
    BY <1>1, <2>1, <2>3 DEF Draft
  <2>5. /\ resumed.task = t /\ resumed.author = staff /\ resumed.status = "DRAFT"
        /\ ~resumed.revised /\ resumed.link = links + 1 /\ resumed.qr = qr
    BY <1>6, <2>1 DEF Draft, Resume
  <2> HIDE DEF resumed
  <2>6. draft' = [draft EXCEPT ![d] = resumed]
    BY <2>2 DEF resumed
  <2> QED BY <1>1, <1>6, <2>4, <2>5, <2>6
<1>7. CASE old # None /\ draft[old].status = "DRAFT" /\ HandOver(t, old, d)
  <2> DEFINE closed == Closed(old)
  <2>1. old \in Submissions /\ draft[old] # None /\ draft[old].task = t /\ draft[old] \in Draft
    BY <1>1, <1>3, <1>7 DEF WInv, OneOpenDraft, Start, Ready, Editable
  <2>2. closed \in Draft
    BY <2>1 DEF Closed, Draft
  <2>3. /\ closed.task = t /\ closed.status = "CANCELLED" /\ closed.link = 0
        /\ closed.qr = draft[old].qr
    BY <2>1 DEF Closed, Draft
  <2>4. draft[d] = None /\ d # old /\ draft' = [draft EXCEPT ![old] = closed, ![d] = new]
    BY <1>7, <2>1 DEF HandOver, new
  <2> HIDE DEF closed
  <2> QED BY <1>1, <1>2, <2>1, <2>2, <2>3, <2>4
<1> QED BY <1>5, <1>6, <1>7 DEF Start

LEMMA StartStep ==
    ASSUME WInv, NEW t \in Tasks, NEW d \in Submissions, Start(t, d)
    PROVE  WInv'
<1>1. IInv' /\ Remain /\ StartTask(t, d)
  BY StartIsStart, NextIInv DEF WInv, BookingsNext
<1>2. /\ staff \in active /\ staff' = staff /\ active' = active /\ qr' = qr /\ qrs' = qrs
      /\ qr # 0 /\ links' = links + 1 /\ links \in Nat /\ qrs \in Nat /\ qr = qrs
  BY DEF Start, WInv, WorkTypes
<1>3. /\ Exists(t) /\ task[t].status # "COMPLETED"
      /\ task' \in [Tasks -> Task \cup {None}]
      /\ task'[t].submission = d /\ task'[t].status = "IN_PROGRESS"
      /\ \A x \in Tasks \ {t} : task'[x] = task[x]
  <2>1. task \in [Tasks -> Task \cup {None}] /\ Exists(t) /\ task[t].status # "COMPLETED"
    BY <1>1 DEF WInv, IInv, BookingsTypeOK, StartTask, Ready, Editable
  <2>2. task[t] \in Task
    BY <2>1 DEF Exists
  <2>3. task'[t].submission = d /\ task'[t].status = "IN_PROGRESS"
    BY <1>1, <2>1, <2>2 DEF StartTask, Task
  <2>4. \A x \in Tasks \ {t} : task'[x] = task[x]
    BY <1>1, <2>1 DEF StartTask
  <2> QED BY <1>1, <2>1, <2>3, <2>4 DEF IInv, BookingsTypeOK
<1>4. WorkTypes'
  BY <1>2, StartedDrafts DEF WInv, WorkTypes
<1>5. ASSUME NEW e \in Submissions PROVE DraftIsSound(e)' /\ LostWithItsCode(e)'
  <2>1. \A x \in Tasks : Exists(x) => Exists(x)'
    BY <1>1 DEF Remain, Exists
  <2>2. CASE e = d
    <3>1. DraftIsSound(e)'
      BY <1>2, <1>3, <2>1, <2>2, StartedDrafts DEF DraftIsSound
    <3>2. ~Lost(e)'
      BY <1>2, <2>2, StartedDrafts DEF Lost
    <3> QED BY <3>1, <3>2 DEF LostWithItsCode
  <2>3. CASE e # d /\ draft'[e] = draft[e]
    <3>1. draft[e] # None => draft[e].link \in Nat /\ draft[e].task \in Tasks
      BY DEF WInv, WorkTypes, Draft
    <3> QED BY <1>2, <2>1, <2>3, <3>1 DEF WInv, DraftIsSound, LostWithItsCode, Lost
  <2>4. CASE e # d /\ draft'[e] # draft[e]
    <3>1. /\ draft[e] # None /\ draft'[e].task = t /\ draft'[e].status = "CANCELLED"
          /\ draft'[e].link = 0 /\ draft'[e].qr = draft[e].qr
      BY <2>4, StartedDrafts
    <3> QED BY <1>2, <1>3, <2>1, <3>1 DEF WInv, DraftIsSound, LostWithItsCode
  <2> QED BY <2>2, <2>3, <2>4
<1>6. OneOpenDraft'
  <2>1. ASSUME NEW e \in Submissions, draft'[e] # None, draft'[e].status = "DRAFT"
        PROVE  task'[draft'[e].task].submission = e
    <3>1. CASE e = d
      BY <1>3, <3>1, StartedDrafts
    <3>2. CASE e # d
      <4>1. draft'[e] = draft[e] /\ task[t].submission # e
        BY <2>1, <3>2, StartedDrafts
      <4>2. draft[e].task \in Tasks /\ task[draft[e].task].submission = e
        BY <2>1, <4>1 DEF WInv, WorkTypes, Draft, OneOpenDraft
      <4> QED BY <1>3, <4>1, <4>2
    <3> QED BY <3>1, <3>2
  <2>2. ASSUME NEW x \in Tasks, task'[x] # None, task'[x].submission # None
        PROVE  LET f == draft'[task'[x].submission]
               IN  f # None /\ f.task = x /\ (f.status = "DRAFT" <=> task'[x].status # "COMPLETED")
    <3>1. CASE x = t
      BY <1>3, <3>1, StartedDrafts
    <3>2. CASE x # t
      <4>1. task'[x] = task[x] /\ task[x].submission \in Submissions
        BY <1>3, <2>2, <3>2 DEF Task
      <4>2. LET f == draft[task[x].submission]
            IN  f # None /\ f.task = x /\ (f.status = "DRAFT" <=> task[x].status # "COMPLETED")
        BY <2>2, <4>1 DEF WInv, OneOpenDraft, Exists
      <4>3. task[t].submission # task[x].submission
        <5> SUFFICES ASSUME task[t].submission = task[x].submission PROVE FALSE
          OBVIOUS
        <5>1. draft[task[t].submission].task = t
          BY <1>3, <2>2, <4>1 DEF WInv, OneOpenDraft
        <5> QED BY <3>2, <4>2, <5>1
      <4>4. task[x].submission # d
        BY <4>2, <4>3, StartedDrafts
      <4>5. draft'[task[x].submission] = draft[task[x].submission]
        BY <4>1, <4>3, <4>4, StartedDrafts
      <4> QED BY <4>1, <4>2, <4>5
    <3> QED BY <3>1, <3>2
  <2> QED BY <2>1, <2>2 DEF OneOpenDraft, Exists
<1> QED BY <1>1, <1>4, <1>5, <1>6 DEF WInv

LEMMA SubmitStep == ASSUME WInv, NEW d \in Submissions, Submit(d) PROVE WInv'
<1> DEFINE t == draft[d].task
           submitted == [draft[d] EXCEPT !.status = "SUBMITTED"]
<1>1. /\ draft[d] # None /\ draft[d] \in Draft /\ t \in Tasks /\ Exists(t)
      /\ task[t].submission = d /\ task[t] \in Task /\ draft[d].status = "DRAFT"
  BY OpensATask DEF Submit, Working, Opens
<1>2. CompleteTask(t)
  BY SubmitIsComplete
<1>3. IInv' /\ Remain
  BY <1>1, <1>2, NextIInv DEF WInv, BookingsNext
<1>4. /\ UNCHANGED <<staff, active, qr, qrs, links>>
      /\ draft' = [draft EXCEPT ![d] = submitted]
      /\ draft \in [Submissions -> Draft \cup {None}] /\ None \notin Draft
  BY <1>1, NoneIsNoWork DEF Submit, WInv, WorkTypes
<1>5. /\ submitted \in Draft /\ submitted.task = t /\ submitted.status = "SUBMITTED"
      /\ submitted.link = draft[d].link /\ submitted.qr = draft[d].qr
      /\ submitted.author = draft[d].author
  BY <1>1 DEF Draft
<1> HIDE DEF submitted
<1>6. WorkTypes'
  BY <1>4, <1>5 DEF WInv, WorkTypes
<1>7. ASSUME NEW e \in Submissions PROVE DraftIsSound(e)' /\ LostWithItsCode(e)'
  <2>1. draft[e] # None => draft[e].task \in Tasks
    BY <1>4 DEF Draft
  <2>2. /\ e = d => draft'[e] = submitted
        /\ e # d => draft'[e] = draft[e]
    BY <1>4
  <2>3. Lost(e)' => draft[e] = None \/ Lost(e)
    BY <1>1, <1>4, <1>5, <2>2 DEF Lost
  <2>4. draft[e] # None => task'[draft[e].task] # None
    BY <1>3, <2>1 DEF WInv, DraftIsSound, Remain
  <2>5. CASE e = d
    <3>1. /\ draft'[e] = submitted /\ draft[e].link <= links
          /\ 0 < draft[e].qr /\ draft[e].qr <= qrs /\ (Lost(e) /\ draft[e].link # 0 => draft[e].qr # qr)
      BY <1>1, <2>2, <2>5 DEF WInv, DraftIsSound, LostWithItsCode
    <3>2. DraftIsSound(e)'
      BY <1>1, <1>4, <1>5, <2>4, <2>5, <3>1 DEF DraftIsSound, Exists
    <3>3. LostWithItsCode(e)'
      BY <1>1, <1>4, <1>5, <2>3, <2>5, <3>1 DEF LostWithItsCode
    <3> QED BY <3>2, <3>3
  <2>6. CASE e # d
    BY <1>4, <2>2, <2>3, <2>4, <2>6 DEF WInv, DraftIsSound, LostWithItsCode, Exists
  <2> QED BY <2>5, <2>6
<1>8. /\ task'[t].submission = d /\ task'[t].status = "COMPLETED"
      /\ \A x \in Tasks \ {t} : task'[x] = task[x]
  BY <1>1, <1>2 DEF CompleteTask, WInv, IInv, BookingsTypeOK, Task
<1>9. OneOpenDraft'
  <2>1. ASSUME NEW e \in Submissions, draft'[e] # None, draft'[e].status = "DRAFT"
        PROVE  task'[draft'[e].task].submission = e
    <3>1. e # d /\ draft'[e] = draft[e]
      BY <1>4, <1>5, <2>1
    <3>2. draft[e].task \in Tasks /\ task[draft[e].task].submission = e
      BY <1>4, <2>1, <3>1 DEF WInv, Draft, OneOpenDraft
    <3> QED BY <1>1, <1>8, <3>1, <3>2
  <2>2. ASSUME NEW x \in Tasks, task'[x] # None, task'[x].submission # None
        PROVE  LET f == draft'[task'[x].submission]
               IN  f # None /\ f.task = x /\ (f.status = "DRAFT" <=> task'[x].status # "COMPLETED")
    <3>1. CASE x = t
      BY <1>4, <1>5, <1>8, <3>1
    <3>2. CASE x # t
      <4>1. task'[x] = task[x] /\ task[x].submission \in Submissions
        BY <1>8, <2>2, <3>2 DEF WInv, IInv, BookingsTypeOK, Task
      <4>2. LET f == draft[task[x].submission]
            IN  f # None /\ f.task = x /\ (f.status = "DRAFT" <=> task[x].status # "COMPLETED")
        BY <2>2, <4>1 DEF WInv, OneOpenDraft, Exists
      <4>3. task[x].submission # d
        BY <1>1, <3>2, <4>2
      <4> QED BY <1>4, <4>1, <4>2, <4>3
    <3> QED BY <3>1, <3>2
  <2> QED BY <2>1, <2>2 DEF OneOpenDraft, Exists
<1> QED BY <1>3, <1>6, <1>7, <1>9 DEF WInv

LEMMA ReviseStep ==
    ASSUME WInv, NEW d \in Submissions, NEW status \in {"SUBMITTED", "CANCELLED"}, Revise(d, status)
    PROVE  WInv'
<1> DEFINE revised == [draft[d] EXCEPT !.status = status, !.revised = TRUE]
<1>1. /\ draft[d] # None /\ draft \in [Submissions -> Draft \cup {None}] /\ draft[d] \in Draft
      /\ draft[d].status # "DRAFT" /\ None \notin Draft
  BY NoneIsNoWork DEF Revise, WInv, WorkTypes, DraftIsSound
<1>2. /\ UNCHANGED <<bookingVars, staff, active, qr, qrs, links>>
      /\ draft' = [draft EXCEPT ![d] = revised]
  BY <1>1 DEF Revise
<1>3. /\ revised \in Draft /\ revised.task = draft[d].task /\ revised.status # "DRAFT"
      /\ revised.link = draft[d].link /\ revised.qr = draft[d].qr
      /\ revised.author = draft[d].author
  BY <1>1 DEF Draft
<1> HIDE DEF revised
<1>4. WorkTypes'
  BY <1>1, <1>2, <1>3 DEF WInv, WorkTypes
<1>5. ASSUME NEW e \in Submissions
      PROVE  /\ DraftIsSound(e)' /\ LostWithItsCode(e)'
             /\ draft'[e] # None <=> draft[e] # None
             /\ draft[e] # None => /\ draft'[e].task = draft[e].task
                                   /\ draft'[e].status = "DRAFT" <=> draft[e].status = "DRAFT"
  <2>1. (e = d => draft'[e] = revised) /\ (e # d => draft'[e] = draft[e])
    BY <1>1, <1>2
  <2>2. Lost(e)' => draft[e] = None \/ Lost(e)
    BY <1>2, <1>3, <2>1 DEF Lost
  <2> QED BY <1>1, <1>2, <1>3, <2>1, <2>2 DEF WInv, DraftIsSound, LostWithItsCode, bookingVars, Exists
<1> QED BY <1>2, <1>4, <1>5, AccessStep

--------------------------------------------------------------------------------
LEMMA NextWInv == ASSUME WInv, [Next]_vars PROVE WInv'
<1>1. CASE Booking /\ UNCHANGED workVars
  BY <1>1, BookingWStep
<1>2. CASE \E u \in Staff \cup {None} : Assign(u)
  BY <1>2, AssignStep
<1>3. CASE RotateQr
  BY <1>3, RotateQrStep
<1>4. CASE \E u \in Staff, r \in Staff \cup {None} : Deactivate(u, r)
  BY <1>4, DeactivateStep
<1>5. CASE \E u \in Staff : Activate(u)
  BY <1>5, ActivateStep
<1>6. CASE \/ \E rotating \in BOOLEAN, c \in Codes \cup {None} : SaveSettings(rotating, c)
           \/ \E s \in Stays, c \in Codes : SaveCode(s, c)
           \/ \E d \in Submissions : ShowCode(d)
  BY <1>6, CodeStep DEF SaveSettings, SaveCode, ShowCode
<1>7. CASE \E t \in Tasks, d \in Submissions : Start(t, d)
  BY <1>7, StartStep
<1>8. CASE \E d \in Submissions : Submit(d)
  BY <1>8, SubmitStep
<1>9. CASE \E d \in Submissions, status \in {"SUBMITTED", "CANCELLED"} : Revise(d, status)
  BY <1>9, ReviseStep
<1>10. CASE UNCHANGED vars
  BY <1>10, CodeStep DEF vars, workVars
<1> QED
  BY <1>1, <1>2, <1>3, <1>4, <1>5, <1>6, <1>7, <1>8, <1>9, <1>10 DEF Next

\* The strengthening of what staff do: drafts are of tasks that exist, links and QR codes are those
\* that were issued, and whoever lost a property lost its QR code.
THEOREM WorkInvariant == Spec => []WInv
<1>1. WInv /\ [Next]_vars => WInv'
  BY NextWInv
<1> QED BY InitWInv, <1>1, PTL DEF Spec

\* Staff start and complete tasks only as Bookings allows, so that what is proved of
\* reservations and tasks there holds whatever staff do.
THEOREM WorkImplements == Spec => WorkImplementsBookings
<1>1. Init => BookingsInit
  BY DEF Init
<1>2. WInv /\ [Next]_vars => [BookingsNext]_bookingVars
  BY Simulates
<1> QED BY WorkInvariant, <1>1, <1>2, PTL DEF Spec, WorkImplementsBookings, BookingsSpec

\* In particular, also with the staff at work no house is booked twice and the tasks that are
\* not over follow their reservations.
THEOREM BookingsHoldAtWork == Spec => [](NoDoubleBooking /\ TaskFollowsStay)
<1>1. IInv => NoDoubleBooking /\ TaskFollowsStay
  BY Follow DEF IInv
<1>2. WInv => IInv
  BY DEF WInv
<1> QED BY WorkInvariant, <1>1, <1>2, PTL

\* A task has at most one draft to work on, its current one, and none when it is completed.
THEOREM TasksHaveOneDraft == Spec => []OneOpenDraft
<1>1. WInv => OneOpenDraft
  BY DEF WInv
<1> QED BY WorkInvariant, <1>1, PTL

--------------------------------------------------------------------------------
\* A lost link keeps a QR code that is not current, until it is replaced by another link.
LEMMA LostStep ==
    ASSUME WInv, [Next]_vars, NEW d \in Submissions, draft[d] # None, draft[d].link # 0, Lost(d),
           draft'[d].link = draft[d].link
    PROVE  draft'[d].qr # qr'
<1>1. /\ draft[d] \in Draft /\ draft \in [Submissions -> Draft \cup {None}]
      /\ 0 < draft[d].qr /\ draft[d].qr <= qrs /\ draft[d].link <= links
      /\ draft[d].qr # qr /\ qrs \in Nat /\ links \in Nat
      /\ draft[d].qr \in Nat /\ draft[d].link \in Nat
  BY DEF WInv, WorkTypes, DraftIsSound, LostWithItsCode, Draft
<1>2. CASE UNCHANGED <<qr, draft>>
  BY <1>1, <1>2
<1>3. CASE \E u \in Staff \cup {None} : Assign(u)
  BY <1>1, <1>3 DEF Assign, QrOf
<1>4. CASE RotateQr
  BY <1>1, <1>4 DEF RotateQr
<1>5. CASE \E u \in Staff, r \in Staff \cup {None} : Deactivate(u, r)
  <2>1. qr' \in {0, qr}
    BY <1>5 DEF Deactivate
  <2>2. draft'[d].qr = draft[d].qr
    BY <1>1, <1>5 DEF Deactivate, Draft
  <2> QED BY <1>1, <2>1, <2>2
<1>6. CASE \E t \in Tasks, e \in Submissions : Start(t, e)
  <2>1. PICK t \in Tasks, e \in Submissions : Start(t, e)
    BY <1>6
  <2>2. qr' = qr
    BY <2>1 DEF Start
  <2>3. e # d
    <3>1. draft'[e].link = links + 1
      BY <2>1, StartedDrafts
    <3> QED BY <1>1, <3>1
  <2> QED BY <1>1, <2>1, <2>2, <2>3, StartedDrafts
<1>7. CASE \E e \in Submissions : Submit(e)
  BY <1>1, <1>7 DEF Submit, Draft
<1>8. CASE \E e \in Submissions, status \in {"SUBMITTED", "CANCELLED"} : Revise(e, status)
  BY <1>1, <1>8 DEF Revise, Draft
<1> QED
  BY <1>2, <1>3, <1>4, <1>5, <1>6, <1>7, <1>8
  DEF Next, workVars, vars, Activate, SaveSettings, SaveCode, ShowCode

\* The link of somebody who lost the property never opens again, even if the property, the
\* person or both come back: only a new link from the current QR code does.
THEOREM LostLinksStayClosed == Spec => LinksStayClosed
<1> DEFINE Closes == \A d \in Submissions : draft[d] # None /\ draft[d].link # 0 /\ Lost(d) =>
                       ~(draft'[d].link = draft[d].link /\ Opens(d)')
<1>1. WInv /\ [Next]_vars => [Closes]_vars
  <2> SUFFICES ASSUME WInv, [Next]_vars, NEW d \in Submissions,
                      draft[d] # None, draft[d].link # 0, Lost(d),
                      draft'[d].link = draft[d].link
               PROVE  ~Opens(d)'
    OBVIOUS
  <2>1. draft'[d].qr # qr'
    BY LostStep
  <2> QED BY <2>1 DEF Opens
<1>2. [][Closes]_vars => LinksStayClosed
  BY DEF LinksStayClosed
<1> HIDE DEF Closes
<1> QED BY WorkInvariant, <1>1, <1>2, PTL DEF Spec

--------------------------------------------------------------------------------
\* The next reservation is one of those that follow, as their arrivals have a least one.
LEMMA LeastTime ==
    ASSUME NEW T \in SUBSET Nat, T # {}
    PROVE  \E m \in T : \A n \in T : m <= n
<1>1. IsWellFoundedOn({ss \in Nat \X Nat : ss[1] < ss[2]}, Nat)
  BY NatLessThanWellFounded DEF OpToRel
<1>2. PICK m \in T : \A n \in T : <<n, m>> \notin {ss \in Nat \X Nat : ss[1] < ss[2]}
  BY <1>1, WFMin
<1>3. \A n \in T : ~(n < m)
  BY <1>2
<1> QED BY <1>3

LEMMA NextFollows ==
    ASSUME WInv, NEW t \in Tasks
    PROVE  /\ NextStay(t) \in Stays \cup {None}
           /\ NextStay(t) # None => NextStay(t) \in Following(t) /\ Active(NextStay(t))
<1>1. CASE Following(t) = {}
  BY <1>1 DEF NextStay
<1>2. CASE Following(t) # {}
  <2> DEFINE T == {stay[s].in : s \in Following(t)}
  <2>1. \A s \in Following(t) : s \in Stays /\ Active(s) /\ stay[s].in \in Nat
    BY DEF Following, Active, Booked, WInv, IInv, BookingsTypeOK, Stay, Time
  <2>2. T \in SUBSET Nat /\ T # {}
    BY <1>2, <2>1
  <2>3. PICK m \in T : \A n \in T : m <= n
    BY <2>2, LeastTime
  <2>4. \E s \in Following(t) : \A r \in Following(t) : stay[s].in <= stay[r].in
    BY <2>3
  <2>5. NextStay(t) \in Following(t)
    BY <1>2, <2>4 DEF NextStay
  <2> QED BY <2>1, <2>5
<1> QED BY <1>1, <1>2

\* The types of the settings, of the codes and of what staff were shown of them.
CodeTypes ==
    /\ settings \in Settings \cup {None}
    /\ code \in [Stays -> Code \cup {None}]
    /\ shown \in [Submissions -> Shown \cup {None}]
    /\ completion \in [Tasks -> Evidence \cup {None}]

\* What was shown of a code, with the versions v, is still true if these are the current ones:
\* versions only grow, and whatever they number changes with them.
Faithful(v, g) ==
    /\ v.settings <= SettingsVersion
    /\ v.settings = SettingsVersion =>
         /\ v.kind = "FIXED" <=> ~Rotating
         /\ v.kind = "FIXED" => g = None
         /\ v.kind = "VACANCY" => v.next = None /\ g = settings.vacancy
    /\ v.kind = "NEXT_STAY" => /\ v.next \in Stays \ {None} /\ code[v.next] # None
                               /\ v.nextCode <= code[v.next].version
                               /\ v.nextCode = code[v.next].version => g = code[v.next].digits

Evidenced(t) ==
    /\ task[t].submission # None /\ completion[t] # None
    /\ Faithful(completion[t].versions, completion[t].digits)

CodesInv ==
    /\ CodeTypes
    /\ \A d \in Submissions : shown[d] # None => Faithful(shown[d].fingerprint, shown[d].digits)
    /\ \A t \in Tasks : Exists(t) /\ task[t].status = "COMPLETED" => Evidenced(t)

LEMMA VersionTypes ==
    ASSUME CodeTypes, NEW s \in Stays
    PROVE  /\ SettingsVersion \in Nat /\ CodeVersion(s) \in Nat
           /\ code[s] # None => code[s] \in Code /\ code[s].version = CodeVersion(s)
           /\ settings # None => settings \in Settings /\ settings.version = SettingsVersion
BY DEF CodeTypes, SettingsVersion, CodeVersion, Settings, Code

LEMMA SettingsTypes ==
    ASSUME CodeTypes
    PROVE  /\ SettingsVersion \in Nat
           /\ settings # None => settings \in Settings /\ settings.version = SettingsVersion
BY DEF CodeTypes, SettingsVersion, Settings

\* The page of a draft that can be worked on shows what is true now.
LEMMA FaithfulNow ==
    ASSUME WInv, CodeTypes, NEW t \in Tasks, Exists(t), staff \in Staff, ~Blocked(t)
    PROVE  /\ VersionsOf(t) \in Versions /\ RoomCode(t) \in Codes \cup {None}
           /\ Faithful(VersionsOf(t), RoomCode(t))
<1> DEFINE next == NextStay(t)
           departure == IF t \in Stays THEN stay[t].revision ELSE 0
           nextRevision == IF next = None THEN 0 ELSE stay[next].revision
           nextCode == IF next = None THEN 0 ELSE CodeVersion(next)
<1>1. /\ next \in Stays \cup {None}
      /\ next # None => next \in Stays /\ Active(next)
  BY NextFollows
<1>2. /\ task[t] \in Task /\ task[t].version \in Nat /\ task[t].dueAt \in Time /\ qr \in Nat
  BY DEF WInv, WorkTypes, IInv, BookingsTypeOK, Exists, Task
<1>3. departure \in Nat
  BY DEF Blocked, Active, Booked, WInv, IInv, BookingsTypeOK, Stay
<1>4. nextRevision \in Nat
  BY <1>1 DEF Active, Booked, WInv, IInv, BookingsTypeOK, Stay
<1>5. nextCode \in Nat /\ SettingsVersion \in Nat
  BY <1>1, VersionTypes, SettingsTypes
<1>6. /\ VersionsOf(t).settings = SettingsVersion /\ VersionsOf(t).kind = Kind(t)
      /\ VersionsOf(t).next = next /\ VersionsOf(t).nextCode = nextCode
      /\ Kind(t) \in Kinds
  BY DEF VersionsOf, Kind, Kinds
<1>7. VersionsOf(t) = [version |-> task[t].version, dueAt |-> task[t].dueAt,
         departure |-> departure, settings |-> SettingsVersion, staff |-> staff, qr |-> qr,
         kind |-> Kind(t), next |-> next, nextRevision |-> nextRevision, nextCode |-> nextCode]
  BY DEF VersionsOf
<1>8. settings # None /\ settings \in Settings /\ settings.vacancy \in Codes \cup {None}
  BY SettingsTypes DEF Blocked, Settings
<1>9. Rotating /\ next # None => /\ Prepared(next) /\ code[next] # None /\ code[next] \in Code
                                 /\ code[next].version = nextCode /\ code[next].digits \in Codes
  <2>1. Rotating /\ next # None => Prepared(next)
    BY DEF Blocked
  <2>2. Rotating /\ next # None => code[next] # None /\ code[next] \in Code
    BY <1>1, <2>1, VersionTypes DEF Prepared
  <2>3. \A c \in Code : c.digits \in Codes
    BY DEF Code
  <2> QED BY <1>1, <2>1, <2>2, <2>3, VersionTypes
<1>10. RoomCode(t) = IF ~Rotating THEN None ELSE IF next = None THEN settings.vacancy ELSE code[next].digits
  BY DEF RoomCode
<1>11. Kind(t) = IF ~Rotating THEN "FIXED" ELSE IF next = None THEN "VACANCY" ELSE "NEXT_STAY"
  BY DEF Kind
<1> HIDE DEF next, departure, nextRevision, nextCode
<1>12. VersionsOf(t) \in Versions
  BY <1>1, <1>2, <1>3, <1>4, <1>5, <1>6, <1>7 DEF Versions
<1>13. RoomCode(t) \in Codes \cup {None}
  BY <1>8, <1>9, <1>10
<1>14. Faithful(VersionsOf(t), RoomCode(t))
  BY <1>1, <1>5, <1>6, <1>9, <1>10, <1>11 DEF Faithful
<1> QED BY <1>12, <1>13, <1>14

\* A saved setting or code gets another version.
LEMMA FaithfulKept ==
    ASSUME CodeTypes, CodeTypes', NEW v \in Versions, NEW g, Faithful(v, g),
           settings' = settings \/ SettingsVersion' = SettingsVersion + 1,
           \A s \in Stays : code'[s] = code[s]
                            \/ (code'[s] # None /\ code'[s].version = CodeVersion(s) + 1)
    PROVE  Faithful(v, g)'
<1>1. v.settings \in Nat /\ v.nextCode \in Nat /\ SettingsVersion \in Nat
  BY SettingsTypes DEF Versions
<1>2. CASE v.settings = SettingsVersion'
  <2>1. settings' = settings
    BY <1>1, <1>2 DEF Faithful
  <2>2. Rotating' = Rotating /\ SettingsVersion' = SettingsVersion
    BY <2>1 DEF Rotating, SettingsVersion
  <2> QED
    <3>1. v.kind = "NEXT_STAY" =>
            /\ v.next \in Stays \ {None} /\ code'[v.next] # None /\ v.nextCode <= code'[v.next].version
            /\ v.nextCode = code'[v.next].version => g = code'[v.next].digits
      <4> SUFFICES ASSUME v.kind = "NEXT_STAY"
                   PROVE  /\ v.next \in Stays \ {None} /\ code'[v.next] # None
                          /\ v.nextCode <= code'[v.next].version
                          /\ v.nextCode = code'[v.next].version => g = code'[v.next].digits
        OBVIOUS
      <4>1. /\ v.next \in Stays \ {None} /\ code[v.next] # None /\ v.nextCode <= code[v.next].version
            /\ v.nextCode = code[v.next].version => g = code[v.next].digits
        BY DEF Faithful
      <4>2. code[v.next].version = CodeVersion(v.next) /\ CodeVersion(v.next) \in Nat
        BY <4>1, VersionTypes
      <4> QED BY <1>1, <4>1, <4>2
    <3> QED BY <1>1, <1>2, <2>1, <2>2, <3>1 DEF Faithful
<1>3. CASE v.settings # SettingsVersion'
  <2>1. v.settings <= SettingsVersion /\ SettingsVersion' \in {SettingsVersion, SettingsVersion + 1}
    BY DEF Faithful, SettingsVersion
  <2>2. v.settings <= SettingsVersion'
    BY <1>1, <2>1
  <2>3. v.kind = "NEXT_STAY" =>
          /\ v.next \in Stays \ {None} /\ code'[v.next] # None /\ v.nextCode <= code'[v.next].version
          /\ v.nextCode = code'[v.next].version => g = code'[v.next].digits
    <3> SUFFICES ASSUME v.kind = "NEXT_STAY"
                 PROVE  /\ v.next \in Stays \ {None} /\ code'[v.next] # None
                        /\ v.nextCode <= code'[v.next].version
                        /\ v.nextCode = code'[v.next].version => g = code'[v.next].digits
      OBVIOUS
    <3>1. /\ v.next \in Stays \ {None} /\ code[v.next] # None /\ v.nextCode <= code[v.next].version
          /\ v.nextCode = code[v.next].version => g = code[v.next].digits
      BY DEF Faithful
    <3>2. code[v.next].version = CodeVersion(v.next) /\ CodeVersion(v.next) \in Nat
      BY <3>1, VersionTypes
    <3> QED BY <1>1, <3>1, <3>2
  <2> QED BY <1>3, <2>2, <2>3 DEF Faithful
<1> QED BY <1>2, <1>3

\* A step that shows and completes nothing, but may save settings or codes.
LEMMA CodesFrame ==
    ASSUME CodesInv, CodeTypes', UNCHANGED completion,
           \A d \in Submissions : shown'[d] = shown[d] \/ shown'[d] = None,
           \A t \in Tasks : task'[t] # None /\ task'[t].status = "COMPLETED" =>
             Exists(t) /\ task[t].status = "COMPLETED" /\ task'[t].submission = task[t].submission,
           settings' = settings \/ SettingsVersion' = SettingsVersion + 1,
           \A s \in Stays : code'[s] = code[s]
                            \/ (code'[s] # None /\ code'[s].version = CodeVersion(s) + 1)
    PROVE  CodesInv'
<1>1. CodeTypes
  BY DEF CodesInv
<1>2. ASSUME NEW d \in Submissions, shown'[d] # None
      PROVE  Faithful(shown[d].fingerprint, shown[d].digits)' /\ shown'[d] = shown[d]
  <2>1. shown'[d] = shown[d] /\ shown[d] \in Shown
    BY <1>1, <1>2 DEF CodeTypes
  <2>2. PICK v \in Versions, g \in Codes \cup {None} : v = shown[d].fingerprint /\ g = shown[d].digits
    BY <2>1 DEF Shown
  <2>3. Faithful(v, g)
    BY <1>2, <2>1, <2>2 DEF CodesInv
  <2>4. Faithful(v, g)'
    BY <1>1, <2>3, FaithfulKept
  <2> QED BY <2>1, <2>2, <2>4 DEF Faithful
<1>3. ASSUME NEW t \in Tasks, task'[t] # None, task'[t].status = "COMPLETED" PROVE Evidenced(t)'
  <2>1. Evidenced(t) /\ completion[t] \in Evidence /\ task'[t].submission # None
    BY <1>1, <1>3 DEF CodesInv, CodeTypes, Evidenced
  <2>2. PICK v \in Versions, g \in Codes \cup {None} :
          v = completion[t].versions /\ g = completion[t].digits
    BY <2>1 DEF Evidence
  <2>3. Faithful(v, g)'
    BY <1>1, <2>1, <2>2, FaithfulKept DEF Evidenced
  <2> QED BY <2>1, <2>2, <2>3 DEF Evidenced, Faithful
<1> QED BY <1>2, <1>3 DEF CodesInv, Exists

\* A submission completes its task with what its page shows, which is current then.
LEMMA SubmitEvidence ==
    ASSUME WInv, CodesInv, NEW d \in Submissions, Submit(d) PROVE CodesInv'
<1> DEFINE t == draft[d].task
<1>1. /\ t \in Tasks /\ Exists(t) /\ task[t] \in Task /\ task[t].submission = d /\ staff \in Staff
  BY OpensATask DEF Submit, Working, Opens, WInv, WorkTypes, Draft
<1>2. shown[d] # None /\ shown[d] \in Shown /\ shown[d].fingerprint = VersionsOf(t)
  BY DEF CodesInv, CodeTypes, Submit, Fingerprint
<1>3. /\ CodeTypes /\ UNCHANGED <<now, open, stay, staff, qr, settings, code, shown>>
      /\ task' = [task EXCEPT ![t].status = "COMPLETED", ![t].version = @ + 1]
      /\ completion' = [completion EXCEPT ![t] =
                          [versions |-> shown[d].fingerprint, digits |-> shown[d].digits]]
  BY <1>2 DEF CodesInv, Submit
<1>4. d # None /\ task \in [Tasks -> Task \cup {None}] /\ completion \in [Tasks -> Evidence \cup {None}]
  BY <1>3, NoneIsNoRow DEF WInv, IInv, BookingsTypeOK, CodeTypes
<1> HIDE DEF t
<1> DEFINE e == [versions |-> shown[d].fingerprint, digits |-> shown[d].digits]
<1>5. e \in Evidence /\ e # None /\ e.versions = shown[d].fingerprint /\ e.digits = shown[d].digits
  <2>1. shown[d].fingerprint \in Versions /\ shown[d].digits \in Codes \cup {None}
    BY <1>2 DEF Shown
  <2>2. e \in Evidence
    BY <2>1 DEF Evidence
  <2> QED BY <2>2, NoneIsNoWork
<1>6. /\ task'[t].submission = d /\ \A x \in Tasks \ {t} : task'[x] = task[x]
  BY <1>1, <1>3, <1>4 DEF Task
<1>7. completion' = [completion EXCEPT ![t] = e]
  BY <1>3
<1>8. Faithful(e.versions, e.digits)
  BY <1>2, <1>5 DEF CodesInv
<1> HIDE DEF e
<1>9. CodeTypes'
  BY <1>3, <1>4, <1>5, <1>7 DEF CodeTypes
<1>10. ASSUME NEW x \in Tasks, task'[x] # None, task'[x].status = "COMPLETED" PROVE Evidenced(x)'
  <2>1. CASE x = t
    <3>1. completion'[x] = e
      BY <1>1, <1>4, <1>7, <2>1
    <3>2. Faithful(e.versions, e.digits)'
      <4>1. PICK v, g : v = e.versions /\ g = e.digits
        OBVIOUS
      <4>2. e' = e
        BY <1>3 DEF e
      <4> QED BY <1>3, <1>8, <4>2 DEF Faithful, SettingsVersion, Rotating
    <3>3. e' = e
      BY <1>3 DEF e
    <3> QED BY <1>4, <1>5, <1>6, <2>1, <3>1, <3>2, <3>3 DEF Evidenced
  <2>2. CASE x # t
    <3>1. task'[x] = task[x] /\ completion'[x] = completion[x]
      BY <1>4, <1>6, <1>7, <2>2
    <3>2. Evidenced(x)
      BY <1>10, <3>1 DEF CodesInv, Exists
    <3> QED BY <1>3, <3>1, <3>2 DEF Evidenced, Faithful, SettingsVersion, Rotating
  <2> QED BY <2>1, <2>2
<1>11. ASSUME NEW f \in Submissions, shown'[f] # None
       PROVE  Faithful(shown[f].fingerprint, shown[f].digits)'
  BY <1>3, <1>11 DEF CodesInv, Faithful, SettingsVersion, Rotating
<1> QED BY <1>9, <1>10, <1>11 DEF CodesInv, Exists

LEMMA ShowEvidence ==
    ASSUME WInv, CodesInv, NEW d \in Submissions, ShowCode(d) PROVE CodesInv'
<1> DEFINE t == draft[d].task
           x == [fingerprint |-> VersionsOf(t), digits |-> RoomCode(t)]
<1>1. t \in Tasks /\ Exists(t) /\ staff \in Staff /\ ~Blocked(t) /\ CodeTypes
  BY OpensATask DEF ShowCode, Working, Opens, WInv, WorkTypes, Draft, CodesInv
<1>2. /\ VersionsOf(t) \in Versions /\ RoomCode(t) \in Codes \cup {None}
      /\ Faithful(VersionsOf(t), RoomCode(t))
  BY <1>1, FaithfulNow
<1>3. x \in Shown /\ x.fingerprint = VersionsOf(t) /\ x.digits = RoomCode(t)
  BY <1>2 DEF Shown
<1>4. /\ shown' = [shown EXCEPT ![d] = x] /\ UNCHANGED <<settings, code, completion, task>>
  BY DEF ShowCode, Fingerprint, bookingVars
<1> HIDE DEF x
<1>5. shown'[d] = x /\ \A f \in Submissions \ {d} : shown'[f] = shown[f]
  BY <1>1, <1>4 DEF CodeTypes
<1>6. CodeTypes'
  BY <1>1, <1>3, <1>4 DEF CodeTypes
<1>7. Faithful(shown'[d].fingerprint, shown'[d].digits)
  BY <1>2, <1>3, <1>5
<1>8. ASSUME NEW f \in Submissions, shown'[f] # None
      PROVE  Faithful(shown'[f].fingerprint, shown'[f].digits)
  BY <1>5, <1>7, <1>8 DEF CodesInv
<1>9. ASSUME NEW f \in Submissions, shown'[f] # None
      PROVE  Faithful(shown[f].fingerprint, shown[f].digits)'
  BY <1>4, <1>8, <1>9 DEF Faithful, SettingsVersion, Rotating
<1>10. ASSUME NEW y \in Tasks, task'[y] # None, task'[y].status = "COMPLETED" PROVE Evidenced(y)'
  BY <1>4, <1>10 DEF CodesInv, Exists, Evidenced, Faithful, SettingsVersion, Rotating
<1> QED BY <1>6, <1>9, <1>10 DEF CodesInv, Exists

LEMMA CodesStep == ASSUME WInv, CodesInv, [Next]_vars PROVE CodesInv'
<1>1. CodeTypes /\ WInv'
  BY NextWInv DEF CodesInv
<1>2. ASSUME UNCHANGED <<settings, code, shown, completion>>, \A t \in Tasks : Kept(t) PROVE CodesInv'
  BY <1>1, <1>2, CodesFrame DEF CodeTypes, Kept
<1>3. task' = task => \A t \in Tasks : Kept(t)
  BY SameTasks
<1>4. CASE Booking /\ UNCHANGED workVars
  BY <1>2, <1>4, BookingKeeps DEF WInv, workVars
<1>5. CASE \/ \E u \in Staff \cup {None} : Assign(u)
           \/ RotateQr
           \/ \E u \in Staff, r \in Staff \cup {None} : Deactivate(u, r)
           \/ \E u \in Staff : Activate(u)
           \/ \E d \in Submissions, status \in {"SUBMITTED", "CANCELLED"} : Revise(d, status)
           \/ UNCHANGED vars
  <2>1. UNCHANGED <<task, settings, code, shown, completion>>
    BY <1>5 DEF Assign, RotateQr, Deactivate, Activate, Revise, vars, bookingVars, workVars
  <2> QED BY <1>2, <1>3, <2>1
<1>6. ASSUME NEW rotating \in BOOLEAN, NEW c \in Codes \cup {None}, SaveSettings(rotating, c)
      PROVE  CodesInv'
  <2> DEFINE x == [version |-> SettingsVersion + 1, rotating |-> rotating, vacancy |-> c]
  <2>1. SettingsVersion + 1 \in Nat
    BY <1>1, SettingsTypes
  <2>2. x \in Settings /\ x.version = SettingsVersion + 1 /\ x # None
    BY <2>1, NoneIsNoWork DEF Settings
  <2>3. settings' = x /\ UNCHANGED <<task, code, shown, completion>>
    BY <1>6 DEF SaveSettings, bookingVars
  <2> HIDE DEF x
  <2>4. SettingsVersion' = SettingsVersion + 1
    BY <2>2, <2>3 DEF SettingsVersion
  <2>5. CodeTypes'
    BY <1>1, <2>2, <2>3 DEF CodeTypes
  <2> QED BY <1>1, <1>3, <2>3, <2>4, <2>5, CodesFrame DEF Kept
<1>7. ASSUME NEW s \in Stays, NEW c \in Codes, SaveCode(s, c) PROVE CodesInv'
  <2> DEFINE x == [version |-> CodeVersion(s) + 1, digits |-> c, fixed |-> ~Rotating,
                   source |-> stay[s].revision, guest |-> stay[s].guest]
  <2>1. CodeVersion(s) + 1 \in Nat /\ stay[s].revision \in Nat /\ stay[s].guest \in Guests
    BY <1>1, <1>7, VersionTypes
    DEF SaveCode, Pending, Active, Booked, WInv, IInv, BookingsTypeOK, Stay
  <2>2. x \in Code /\ x.version = CodeVersion(s) + 1 /\ x # None
    <3>1. (~Rotating) \in BOOLEAN
      BY DEF Rotating
    <3>2. x \in Code
      BY <2>1, <3>1 DEF Code
    <3> QED BY <3>2, NoneIsNoWork
  <2>3. code' = [code EXCEPT ![s] = x] /\ UNCHANGED <<task, settings, shown, completion>>
    BY <1>7 DEF SaveCode, bookingVars
  <2> HIDE DEF x
  <2>4. \A r \in Stays : code'[r] = code[r]
                         \/ (code'[r] # None /\ code'[r].version = CodeVersion(r) + 1)
    BY <1>1, <2>2, <2>3 DEF CodeTypes
  <2>5. CodeTypes'
    BY <1>1, <2>2, <2>3 DEF CodeTypes
  <2> QED BY <1>1, <1>3, <2>3, <2>4, <2>5, CodesFrame DEF Kept
<1>8. ASSUME NEW t \in Tasks, NEW d \in Submissions, Start(t, d) PROVE CodesInv'
  <2>1. /\ task' = [task EXCEPT ![t].status = "IN_PROGRESS", ![t].version = @ + 1, ![t].submission = d]
        /\ shown' = [shown EXCEPT ![d] = None] /\ UNCHANGED <<settings, code, completion>>
        /\ Exists(t)
    BY <1>8 DEF Start, Ready, Editable
  <2>2. task \in [Tasks -> Task \cup {None}] /\ task[t] \in Task
    BY <2>1 DEF WInv, IInv, BookingsTypeOK, Exists
  <2>3. task'[t].status = "IN_PROGRESS" /\ \A x \in Tasks \ {t} : task'[x] = task[x]
    BY <2>1, <2>2 DEF Task
  <2>4. CodeTypes' /\ \A e \in Submissions : shown'[e] = shown[e] \/ shown'[e] = None
    BY <1>1, <2>1 DEF CodeTypes
  <2> QED BY <1>1, <2>1, <2>3, <2>4, CodesFrame DEF Exists
<1> QED
  BY <1>4, <1>5, <1>6, <1>7, <1>8, ShowEvidence, SubmitEvidence DEF Next

\* The strengthening for door codes: whatever a version numbers changes only with it, so that what
\* a page or a completion says under the versions it holds stays true.
THEOREM CodesInvariant == Spec => []CodesInv
<1>1. Init => CodesInv
  <2> SUFFICES ASSUME Init PROVE CodesInv
    OBVIOUS
  <2>1. settings \in Settings \cup {None}
    <3>1. ASSUME NEW x \in [version: {1}, rotating: {TRUE}, vacancy: Codes] PROVE x \in Settings
      <4>1. PICK c \in Codes : x = [version |-> 1, rotating |-> TRUE, vacancy |-> c]
        OBVIOUS
      <4> QED BY <4>1 DEF Settings
    <3>2. settings = None \/ settings \in [version: {1}, rotating: {TRUE}, vacancy: Codes]
      BY Zenon DEF Init
    <3> QED BY <3>1, <3>2
  <2>2. CodeTypes
    BY <2>1 DEF Init, CodeTypes
  <2>3. \A t \in Tasks : ~Exists(t)
    BY DEF Init, BookingsInit, Exists
  <2>4. \A d \in Submissions : shown[d] = None
    BY DEF Init
  <2> QED BY <2>2, <2>3, <2>4 DEF CodesInv
<1>2. WInv /\ CodesInv /\ [Next]_vars => CodesInv'
  BY CodesStep
<1> QED BY WorkInvariant, <1>1, <1>2, PTL DEF Spec

\* Everything the staff's protocol keeps has its type.
THEOREM WorkTypesAreCorrect == Spec => []TypeOK
<1>1. WInv /\ CodesInv => TypeOK
  BY DEF WInv, WorkTypes, IInv, CodesInv, CodeTypes, TypeOK
<1> QED BY WorkInvariant, CodesInvariant, <1>1, PTL

\* A completed task that is not to be reviewed was completed with the code that the room needs
\* now: the evidence of complete() holds versions that only grow (cleaningTaskRequiresReview()).
THEOREM ReviewedOrCurrent == Spec => []UnreviewedCodeIsCurrent
<1>1. WInv /\ CodesInv => UnreviewedCodeIsCurrent
  <2> SUFFICES ASSUME WInv, CodesInv, NEW t \in Tasks, Exists(t), task[t].status = "COMPLETED",
                      ~RequiresReview(t)
               PROVE  completion[t].digits = RoomCode(t)
    BY DEF UnreviewedCodeIsCurrent
  <2> DEFINE v == completion[t].versions
             g == completion[t].digits
             next == NextStay(t)
  <2>1. Faithful(v, g) /\ v \in Versions
    BY DEF CodesInv, CodeTypes, Evidenced, Evidence
  <2>2. /\ v.settings = SettingsVersion /\ v.next = next
        /\ next # None /\ v.kind = "NEXT_STAY" => v.nextCode = CodeVersion(next)
    BY DEF RequiresReview
  <2>3. v.kind \in Kinds
    BY <2>1 DEF Versions
  <2>4. next \in Stays => (code[next] # None => code[next].version = CodeVersion(next))
    BY VersionTypes DEF CodesInv
  <2>5. RoomCode(t) = IF ~Rotating THEN None ELSE IF next = None THEN settings.vacancy ELSE code[next].digits
    BY DEF RoomCode
  <2> HIDE DEF v, g, next
  <2> QED BY <2>1, <2>2, <2>3, <2>4, <2>5 DEF Faithful, Kinds, v, g
<1> QED BY WorkInvariant, CodesInvariant, <1>1, PTL

--------------------------------------------------------------------------------
\* A code changes with its version.
LEMMA CodesGrow ==
    ASSUME CodeTypes, [Next]_vars, NEW s \in Stays, code[s] # None, code'[s] # None,
           CodeVersion(s)' = CodeVersion(s)
    PROVE  code'[s] = code[s]
<1>1. CASE UNCHANGED code
  BY <1>1
<1>2. ASSUME NEW r \in Stays, NEW c \in Codes, SaveCode(r, c) PROVE code'[s] = code[s]
  <2> DEFINE x == [version |-> CodeVersion(r) + 1, digits |-> c, fixed |-> ~Rotating,
                   source |-> stay[r].revision, guest |-> stay[r].guest]
  <2>1. code' = [code EXCEPT ![r] = x] /\ x.version = CodeVersion(r) + 1
    BY <1>2 DEF SaveCode
  <2> HIDE DEF x
  <2>2. CASE r = s
    <3>1. code'[s] = x
      BY <2>1, <2>2 DEF CodeTypes
    <3>2. CodeVersion(s)' = CodeVersion(s) + 1 /\ CodeVersion(s) \in Nat
      BY <2>1, <2>2, <3>1, VersionTypes DEF CodeVersion
    <3> QED BY <3>2
  <2>3. CASE r # s
    BY <2>1, <2>3 DEF CodeTypes
  <2> QED BY <2>2, <2>3
<1> QED
  BY <1>1, <1>2
  DEF Next, vars, workVars, Assign, RotateQr, Deactivate, Activate, SaveSettings, Start, ShowCode, Submit, Revise

\* Whoever sends back the fingerprint of a guest's page gets the digits that the page was about,
\* or none, whatever was saved, corrected or cancelled since (reveal() of a guest's code).
THEOREM GuestsGetTheirCode == Spec => RevealedAsAnnounced
<1> DEFINE Same == \A s \in Stays : Active(s) /\ Released(s) =>
                     \A f \in {GuestFingerprint(s)} : Reveal(s, f)' \in {None, code[s].digits}
<1>1. WInv /\ CodesInv /\ [Next]_vars => Same
  <2> SUFFICES ASSUME CodesInv, [Next]_vars, NEW s \in Stays, Released(s),
                      NEW f, f = GuestFingerprint(s), Reveal(s, f)' # None
               PROVE  Reveal(s, f)' = code[s].digits
    OBVIOUS
  <2>1. Reveal(s, f)' = code'[s].digits /\ Released(s)' /\ GuestFingerprint(s)' = f
    BY DEF Reveal, Metadata
  <2>2. code[s] # None /\ code'[s] # None
    BY <2>1 DEF Released, Prepared
  <2>3. CodeVersion(s)' = CodeVersion(s)
    <3>1. GuestFingerprint(s).code = CodeVersion(s) /\ GuestFingerprint(s)'.code = CodeVersion(s)'
      BY DEF GuestFingerprint
    <3> QED BY <2>1, <3>1
  <2> QED BY <2>1, <2>2, <2>3, CodesGrow DEF CodesInv
<1>2. WInv /\ CodesInv /\ [Next]_vars => [Same]_vars
  BY <1>1
<1>3. [][Same]_vars => RevealedAsAnnounced
  BY DEF RevealedAsAnnounced
<1> HIDE DEF Same
<1> QED BY WorkInvariant, CodesInvariant, <1>2, <1>3, PTL DEF Spec

================================================================================
