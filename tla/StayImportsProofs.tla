--------------------------- MODULE StayImportsProofs ---------------------------
(***************************************************************************)
(* Theorems about StayImports for all batches, rows and rosters.  What is  *)
(* proved of reservations in BookingsProofs is kept by a confirmation,     *)
(* which writes several of them at once.                                   *)
(***************************************************************************)
EXTENDS StayImports, BookingsProofs

\* How far the upload is when there is a batch, and what it has stored before.
UploadSound(b) ==
    /\ batch[b] # None => source[b] = "READY" /\ stored[b] /\ upload[b] \in {"CLEAN", "OVER"}
    /\ upload[b] = "SAVE" => stored[b]

\* The rows of a batch are those that were shown last, and become reservations when it is confirmed.
Like(row, seen) ==
    <<row.action, row.in, row.out, row.guest>> = <<seen.action, seen.in, seen.out, seen.guest>>
Booking1(row) ==
    /\ Booked(row.stay)
    /\ stay[row.stay].revision = 1 => <<stay[row.stay].in, stay[row.stay].out>> = <<row.in, row.out>>
LastShown(b) == shown[b][Len(shown[b])]
BatchSound(b) ==
    batch[b] # None =>
        /\ Len(shown[b]) > 0
        /\ batch[b].version = Len(shown[b]) + (IF batch[b].status = "PREVIEW" THEN 0 ELSE 1)
        /\ \A r \in Rows :
              /\ Like(batch[b].rows[r], LastShown(b)[r])
              /\ batch[b].rows[r].stay # None <=>
                   batch[b].status = "CONFIRMED" /\ batch[b].rows[r].action = "CREATE"
              /\ batch[b].rows[r].stay # None => Booking1(batch[b].rows[r])

\* A reservation is one row's.
RowsDiffer ==
    \A b, d \in Batches, r, q \in Rows :
        /\ <<b, r>> # <<d, q>> /\ batch[b] # None /\ batch[d] # None
        => batch[b].rows[r].stay = None \/ batch[b].rows[r].stay # batch[d].rows[q].stay

ReceiptsSound ==
    \A c \in receipts : /\ batch[c.batch] # None /\ batch[c.batch].status = "CONFIRMED"
                        /\ c.seen = Len(shown[c.batch])

ImportsInv ==
    /\ IInv /\ ImportsTypeOK
    /\ \A s \in Stays : Booked(s) => stay[s].revision > 0
    /\ \A b \in Batches : UploadSound(b) /\ BatchSound(b)
    /\ RowsDiffer /\ ReceiptsSound

\* Steps that write neither a reservation nor a batch.
Aside == UNCHANGED <<bookingVars, batch, shown, receipts>>

--------------------------------------------------------------------------------
\* Validation changes nothing but the status of a row.
LEMMA ValidatedRows ==
    ASSUME NEW rows \in [Rows -> Row], NEW Unusable \in SUBSET Cells
    PROVE  /\ Validated(rows, Unusable) \in [Rows -> Row]
           /\ \A r \in Rows : /\ Validated(rows, Unusable)[r] = [rows[r] EXCEPT !.status = Validated(rows, Unusable)[r].status]
                              /\ Like(Validated(rows, Unusable)[r], rows[r])
                              /\ Validated(rows, Unusable)[r].stay = rows[r].stay
           /\ Created(Validated(rows, Unusable)) = Created(rows)
<1> DEFINE status == [r \in Rows |->
              IF rows[r].action = "SKIP" THEN "VALID"
              ELSE IF rows[r].cells \in Unusable THEN "INVALID"
              ELSE IF \/ rows[r].cells # "CLEAR" \/ ~rows[r].here \/ ~open
                      \/ r \in Conflicts(rows, Bounded(rows, Unusable))
              THEN "NEEDS_REVIEW" ELSE "VALID"]
           new == Validated(rows, Unusable)
<1>1. new = [r \in Rows |-> [rows[r] EXCEPT !.status = status[r]]]
  BY DEF Validated
<1>2. \A r \in Rows : status[r] \in {"VALID", "NEEDS_REVIEW", "INVALID"}
  OBVIOUS
<1> HIDE DEF status
<1>3. ASSUME NEW r \in Rows
      PROVE  /\ new[r] \in Row /\ new[r].status = status[r] /\ new[r] = [rows[r] EXCEPT !.status = status[r]]
             /\ Like(new[r], rows[r]) /\ new[r].stay = rows[r].stay
  <2>1. rows[r] \in Row /\ new[r] = [rows[r] EXCEPT !.status = status[r]]
    BY <1>1
  <2>2. [rows[r] EXCEPT !.status = status[r]] \in Row
    BY <1>2, <2>1 DEF Row
  <2>3. new[r].status = status[r] /\ Like(new[r], rows[r]) /\ new[r].stay = rows[r].stay
    BY <2>1 DEF Row, Like
  <2> QED BY <2>1, <2>2, <2>3
<1>4. new \in [Rows -> Row]
  BY <1>1, <1>3
<1>5. Created(new) = Created(rows)
  BY <1>3 DEF Created, Like
<1> HIDE DEF new
<1>6. \A r \in Rows : new[r] = [rows[r] EXCEPT !.status = new[r].status] /\ Like(new[r], rows[r])
                      /\ new[r].stay = rows[r].stay
  BY <1>3
<1> QED BY <1>4, <1>5, <1>6 DEF new

\* What is ready fits beside the reservations and beside what else is ready.
LEMMA ReadyRows ==
    ASSUME NEW rows \in [Rows -> Row], ReadyNow(rows), NEW r \in Created(rows)
    PROVE  /\ open /\ rows[r].here /\ rows[r].in < rows[r].out
           /\ \A s \in Stays : Active(s) => ~Overlaps(s, rows[r].in, rows[r].out)
           /\ \A q \in Created(rows) \ {r} : ~(rows[q].in < rows[r].out /\ rows[q].out > rows[r].in)
<1> DEFINE bounded == Bounded(rows, {"UNUSABLE", "UNTIMED"})
<1>1. ASSUME NEW q \in Created(rows)
      PROVE  /\ rows[q].cells = "CLEAR" /\ rows[q].here /\ open
             /\ q \notin Conflicts(rows, bounded) /\ rows[q].in < rows[q].out
  <2>1. q \in Rows /\ rows[q] \in Row /\ rows[q].action = "CREATE"
    BY DEF Created
  <2>2. Revalidated(rows)[q].status = "VALID" /\ rows[q].in < rows[q].out
    BY DEF ReadyNow, Valid
  <2>3. Revalidated(rows)[q].status =
          IF rows[q].cells \in {"UNUSABLE", "UNTIMED"} THEN "INVALID"
          ELSE IF rows[q].cells # "CLEAR" \/ ~rows[q].here \/ ~open \/ q \in Conflicts(rows, bounded)
          THEN "NEEDS_REVIEW" ELSE "VALID"
    BY <2>1 DEF Revalidated, Validated, Row
  <2> HIDE DEF bounded
  <2> QED BY <2>2, <2>3
<1>2. \A q \in Created(rows) : q \in bounded
  BY <1>1 DEF Bounded
<1>3. r \in bounded /\ r \notin Conflicts(rows, bounded) /\ rows[r].here
  BY <1>1, <1>2
<1> HIDE DEF bounded
<1>4. \A s \in Stays : Active(s) => ~Overlaps(s, rows[r].in, rows[r].out)
  BY <1>3 DEF Conflicts
<1>5. \A q \in Created(rows) \ {r} : ~(rows[q].in < rows[r].out /\ rows[q].out > rows[r].in)
  BY <1>1, <1>2, <1>3 DEF Conflicts
<1> QED BY <1>1, <1>4, <1>5

--------------------------------------------------------------------------------
\* The reservations and tasks of a confirmation: each row that is not skipped has one.
Registers(rows, new) ==
    /\ \A r \in Created(rows) : new[r] \in Stays /\ ~Booked(new[r])
    /\ \A r, q \in Created(rows) : r # q => new[r] # new[q]
    /\ \A r \in Created(rows) : stay'[new[r]] = Imported(rows[r]) /\ task'[new[r]] = ImportedTask(rows[r])
    /\ \A s \in Stays : (\A r \in Created(rows) : new[r] # s) => stay'[s] = stay[s]
    /\ \A t \in Tasks : (\A r \in Created(rows) : new[r] # t) => task'[t] = task[t]
    /\ stay' = [s \in Stays |-> stay'[s]] /\ task' = [t \in Tasks |-> task'[t]]

LEMMA ConfirmRegisters ==
    ASSUME ImportsTypeOK, NEW b \in Batches, NEW seen, NEW new \in [Created(batch[b].rows) -> Stays],
           Confirm(b, seen, new)
    PROVE  /\ batch[b].rows \in [Rows -> Row] /\ ReadyNow(batch[b].rows)
           /\ Registers(batch[b].rows, new)
<1> DEFINE old == batch[b].rows
           rows == Revalidated(old)
           Of(s) == CHOOSE r \in Created(rows) : new[r] = s
           made == {new[r] : r \in Created(rows)}
<1>1. old \in [Rows -> Row] /\ ReadyNow(old)
  BY NoneIsNoBatch DEF Confirm, IsPreview, ImportsTypeOK, Batch
<1>2. /\ Created(rows) = Created(old)
      /\ \A r \in Rows : Like(rows[r], old[r])
  BY <1>1, ValidatedRows DEF Revalidated, Cells
<1>3. /\ IsInjective(new) /\ \A r \in Created(rows) : ~Booked(new[r])
      /\ stay' = [s \in Stays |-> IF s \in made THEN Imported(rows[Of(s)]) ELSE stay[s]]
      /\ task' = [t \in Tasks |-> IF t \in made THEN ImportedTask(rows[Of(t)]) ELSE task[t]]
  BY DEF Confirm
<1> HIDE DEF rows, old
<1>4. \A r, q \in Created(old) : r # q => new[r] # new[q]
  BY <1>3 DEF IsInjective, old
<1>5. ASSUME NEW r \in Created(old)
      PROVE  new[r] \in Stays /\ Of(new[r]) = r /\ new[r] \in made
  BY <1>2, <1>4 DEF old
<1>6. ASSUME NEW r \in Created(old)
      PROVE  Imported(rows[r]) = Imported(old[r]) /\ ImportedTask(rows[r]) = ImportedTask(old[r])
  BY <1>2 DEF Imported, ImportedTask, Like, Created
<1>7. ASSUME NEW r \in Created(old)
      PROVE  stay'[new[r]] = Imported(old[r]) /\ task'[new[r]] = ImportedTask(old[r])
  <2>1. new[r] \in Stays /\ new[r] \in Tasks /\ Of(new[r]) = r /\ new[r] \in made
    BY <1>5 DEF Tasks
  <2> HIDE DEF Of, made
  <2> QED BY <1>3, <1>6, <2>1
<1>8. \A s : (\A r \in Created(old) : new[r] # s) => s \notin made
  BY <1>2
<1> HIDE DEF Of, made
<1>9. \A s \in Stays : (\A r \in Created(old) : new[r] # s) => stay'[s] = stay[s]
  BY <1>3, <1>8
<1>10. \A t \in Tasks : (\A r \in Created(old) : new[r] # t) => task'[t] = task[t]
  BY <1>3, <1>8
<1>11. stay' = [s \in Stays |-> stay'[s]] /\ task' = [t \in Tasks |-> task'[t]]
  BY <1>3
<1>12. \A r \in Created(old) : new[r] \in Stays /\ ~Booked(new[r])
  BY <1>2, <1>3, <1>5
<1>13. Registers(old, new)
  BY <1>4, <1>7, <1>9, <1>10, <1>11, <1>12 DEF Registers
<1> QED BY <1>1, <1>13 DEF old

\* The invariant of reservations, of which several are made at once.
LEMMA RegisterStep ==
    ASSUME IInv, NEW rows \in [Rows -> Row], NEW new, ReadyNow(rows), Registers(rows, new),
           UNCHANGED <<now, open>>
    PROVE  IInv'
<1>1. /\ now \in Time /\ open \in BOOLEAN
      /\ stay \in [Stays -> Stay \cup {None}] /\ task \in [Tasks -> Task \cup {None}]
      /\ StaysAreValid /\ NoDoubleBooking /\ InactiveIsEmpty /\ \A r \in Stays : Tasked(r)
      /\ now' = now /\ open' = open /\ Stays \subseteq Tasks
  BY DEF IInv, BookingsTypeOK, Tasks
<1>2. ASSUME NEW r \in Created(rows)
      PROVE  /\ new[r] \in Stays /\ new[r] \in Tasks /\ ~Booked(new[r])
             /\ rows[r] \in Row /\ rows[r].in \in Nat /\ rows[r].out \in Nat
             /\ stay'[new[r]] = Imported(rows[r]) /\ Imported(rows[r]) \in Stay
             /\ task'[new[r]] = ImportedTask(rows[r]) /\ ImportedTask(rows[r]) \in Task \cup {None}
             /\ ImportedTask(rows[r]) # None => Follows(Imported(rows[r]), ImportedTask(rows[r]))
  <2>1. r \in Rows /\ rows[r] \in Row /\ rows[r].in \in Nat /\ rows[r].out \in Nat
    BY DEF Created, Row, Time
  <2>2. Imported(rows[r]) \in Stay
    BY <2>1 DEF Imported, Stay, Time, Row
  <2>3. None \in Submissions \cup {None}
    OBVIOUS
  <2>4. NewTask(rows[r].out, FALSE, 1) \in Task
    BY <2>1, <2>3 DEF NewTask, Task, Time
  <2>5. Follows(Imported(rows[r]), NewTask(rows[r].out, FALSE, 1))
    BY DEF Follows, Imported, NewTask
  <2>6. ImportedTask(rows[r]) \in {NewTask(rows[r].out, FALSE, 1), None}
    BY DEF ImportedTask
  <2> QED BY <1>1, <2>1, <2>2, <2>4, <2>5, <2>6 DEF Registers
<1>3. ASSUME NEW s \in Stays
      PROVE  \/ \E r \in Created(rows) : s = new[r]
             \/ stay'[s] = stay[s] /\ task'[s] = task[s]
  BY <1>1 DEF Registers
<1>4. ASSUME NEW t \in Tasks
      PROVE  \/ \E r \in Created(rows) : t = new[r]
             \/ task'[t] = task[t]
  BY DEF Registers
<1>5. stay' \in [Stays -> Stay \cup {None}]
  <2>1. \A s \in Stays : stay'[s] \in Stay \cup {None}
    BY <1>1, <1>2, <1>3
  <2>2. stay' = [s \in Stays |-> stay'[s]]
    BY DEF Registers
  <2> QED BY <2>1, <2>2
<1>6. task' \in [Tasks -> Task \cup {None}]
  <2>1. \A t \in Tasks : task'[t] \in Task \cup {None}
    BY <1>1, <1>2, <1>4
  <2>2. task' = [t \in Tasks |-> task'[t]]
    BY DEF Registers
  <2> QED BY <2>1, <2>2
<1>7. ASSUME NEW r \in Created(rows)
      PROVE  /\ Imported(rows[r]).status = "ACTIVE" /\ Imported(rows[r]).in = rows[r].in
             /\ Imported(rows[r]).out = rows[r].out /\ Imported(rows[r]).turned = 0
             /\ Imported(rows[r]).revision = 1
  BY DEF Imported
<1>8. StaysAreValid'
  <2> SUFFICES ASSUME NEW s \in Stays, stay'[s] # None
               PROVE  stay'[s].in < stay'[s].out /\ stay'[s].turned <= stay'[s].revision
    BY DEF StaysAreValid
  <2>1. CASE stay'[s] = stay[s]
    BY <1>1, <2>1 DEF StaysAreValid
  <2>2. ASSUME NEW r \in Created(rows), s = new[r]
        PROVE  stay'[s].in < stay'[s].out /\ stay'[s].turned <= stay'[s].revision
    <3>1. rows[r].in < rows[r].out
      BY ReadyRows
    <3> QED BY <1>2, <1>7, <2>2, <3>1
  <2> QED BY <1>3, <2>1, <2>2
<1>9. NoDoubleBooking'
  <2> SUFFICES ASSUME NEW s \in Stays, NEW q \in Stays, s # q, Active(s)', Active(q)'
               PROVE  ~(stay'[s].in < stay'[q].out /\ stay'[s].out > stay'[q].in)
    BY DEF NoDoubleBooking, Overlaps
  <2>1. ASSUME NEW u \in Stays, stay'[u] = stay[u], Active(u)'
        PROVE  Active(u) /\ stay[u].in \in Nat /\ stay[u].out \in Nat
    BY <1>1, <2>1 DEF Active, Booked, Stay, Time
  <2>2. ASSUME NEW u \in Stays, stay'[u] = stay[u], Active(u)', NEW r \in Created(rows)
        PROVE  ~(stay[u].in < rows[r].out /\ stay[u].out > rows[r].in)
    BY <2>1, <2>2, ReadyRows DEF Overlaps
  <2>3. CASE stay'[s] = stay[s] /\ stay'[q] = stay[q]
    BY <1>1, <2>1, <2>3 DEF NoDoubleBooking, Overlaps
  <2>4. ASSUME stay'[s] = stay[s], NEW r \in Created(rows), q = new[r]
        PROVE  ~(stay'[s].in < stay'[q].out /\ stay'[s].out > stay'[q].in)
    BY <1>2, <1>7, <2>2, <2>4
  <2>5. ASSUME stay'[q] = stay[q], NEW r \in Created(rows), s = new[r]
        PROVE  ~(stay'[s].in < stay'[q].out /\ stay'[s].out > stay'[q].in)
    BY <1>2, <1>7, <2>1, <2>2, <2>5
  <2>6. ASSUME NEW r \in Created(rows), s = new[r], NEW u \in Created(rows), q = new[u]
        PROVE  ~(stay'[s].in < stay'[q].out /\ stay'[s].out > stay'[q].in)
    <3>1. r \in Created(rows) \ {u}
      BY <2>6
    <3>2. ~(rows[r].in < rows[u].out /\ rows[r].out > rows[u].in)
      BY <3>1, ReadyRows
    <3> QED BY <1>2, <1>7, <2>6, <3>2
  <2> QED BY <1>3, <2>3, <2>4, <2>5, <2>6
<1>10. InactiveIsEmpty'
  <2> SUFFICES ASSUME ~open, NEW s \in Stays, Active(s)', stay'[s].out > now
               PROVE  FALSE
    BY <1>1 DEF InactiveIsEmpty, Pending
  <2>1. Created(rows) = {}
    BY ReadyRows
  <2>2. stay'[s] = stay[s]
    BY <1>3, <2>1
  <2> QED BY <1>1, <2>2 DEF InactiveIsEmpty, Pending, Active, Booked
<1>11. ASSUME NEW s \in Stays PROVE Tasked(s)'
  <2>1. CASE stay'[s] = stay[s] /\ task'[s] = task[s]
    BY <1>1, <2>1 DEF Tasked, Exists, Booked
  <2>2. ASSUME NEW r \in Created(rows), s = new[r] PROVE Tasked(s)'
    <3>1. /\ stay'[s] = Imported(rows[r]) /\ Imported(rows[r]) # None
          /\ task'[s] = ImportedTask(rows[r])
          /\ ImportedTask(rows[r]) # None => Follows(Imported(rows[r]), ImportedTask(rows[r]))
      BY <1>2, <2>2, NoneIsNoRow
    <3> QED BY <3>1 DEF Tasked, Exists, Booked
  <2> QED BY <1>3, <2>1, <2>2
<1> QED BY <1>1, <1>5, <1>6, <1>8, <1>9, <1>10, <1>11 DEF IInv, BookingsTypeOK

--------------------------------------------------------------------------------
\* A reservation stays in the table, and a change of it is a new revision.
StaysRemain ==
    \A s \in Stays :
        /\ Booked(s)' => stay'[s].revision > 0
        /\ Booked(s) => Booked(s)' /\ (stay'[s] = stay[s] \/ stay'[s].revision > 1)

LEMMA WrittenRemain ==
    ASSUME IInv, \A s \in Stays : Booked(s) => stay[s].revision > 0, NEW s \in Stays,
           NEW row \in Stay, row.revision > 0, Booked(s) => row.revision = stay[s].revision + 1,
           stay' = [stay EXCEPT ![s] = row]
    PROVE  StaysRemain
<1>1. stay \in [Stays -> Stay \cup {None}] /\ row # None
  BY NoneIsNoRow DEF IInv, BookingsTypeOK
<1>2. \A q \in Stays : stay'[q] = IF q = s THEN row ELSE stay[q]
  BY <1>1
<1>3. \A q \in Stays : Booked(q) => stay[q].revision \in Nat
  BY <1>1 DEF Booked, Stay
<1> QED BY <1>1, <1>2, <1>3 DEF StaysRemain, Booked

LEMMA BookingsRemain ==
    ASSUME IInv, \A s \in Stays : Booked(s) => stay[s].revision > 0, BookingsNext
    PROVE  StaysRemain
<1>1. stay \in [Stays -> Stay \cup {None}]
  BY DEF IInv, BookingsTypeOK
<1>2. ASSUME NEW s \in Stays, NEW p \in Periods, NEW g \in Guests, CreateStay(s, p[1], p[2], g)
      PROVE  StaysRemain
  <2> DEFINE row == [status |-> "ACTIVE", in |-> p[1], out |-> p[2], guest |-> g,
                     revision |-> 1, turned |-> 0]
  <2>1. p[1] \in Nat /\ p[2] \in Nat
    BY PeriodsAreTimes DEF Time
  <2>2. row \in Stay /\ row.revision = 1
    BY <2>1 DEF Stay, Time
  <2>3. ~Booked(s) /\ stay' = [stay EXCEPT ![s] = row]
    BY <1>2 DEF CreateStay, WriteStay
  <2>4. row.revision > 0
    BY <2>2
  <2> HIDE DEF row
  <2> QED BY <2>2, <2>3, <2>4, WrittenRemain
<1>3. ASSUME NEW s \in Stays, Booked(s), NEW row, stay' = [stay EXCEPT ![s] = row],
             row \in Stay, row.revision = stay[s].revision + 1
      PROVE  StaysRemain
  <2>1. row.revision > 0
    BY <1>1, <1>3 DEF Booked, Stay
  <2> QED BY <1>3, <2>1, WrittenRemain
<1>4. ASSUME NEW s \in Stays, NEW p \in Periods, NEW g \in Guests, UpdateStay(s, p[1], p[2], g)
      PROVE  StaysRemain
  <2> DEFINE row == [stay[s] EXCEPT !.in = p[1], !.out = p[2], !.guest = g, !.revision = @ + 1]
  <2>1. /\ p[1] \in Nat /\ p[2] \in Nat /\ stay[s] \in Stay /\ Booked(s)
        /\ stay[s].revision + 1 \in Nat
    BY <1>1, <1>4, PeriodsAreTimes DEF Time, UpdateStay, Active, Booked, Stay
  <2>2. row \in Stay
    BY <2>1 DEF Stay, Time
  <2>3. row.revision = stay[s].revision + 1
    BY <2>1 DEF Stay
  <2>4. stay' = [stay EXCEPT ![s] = row]
    BY <1>4 DEF UpdateStay, WriteStay
  <2> HIDE DEF row
  <2> QED BY <1>3, <2>1, <2>2, <2>3, <2>4
<1>5. ASSUME NEW s \in Stays, CancelStay(s) PROVE StaysRemain
  <2> DEFINE row == [stay[s] EXCEPT !.status = "CANCELLED", !.revision = @ + 1,
                                    !.turned = stay[s].revision + 1]
  <2>1. stay[s] \in Stay /\ Booked(s) /\ stay[s].revision + 1 \in Nat
    BY <1>1, <1>5 DEF CancelStay, Active, Booked, Stay
  <2>2. row \in Stay
    BY <2>1 DEF Stay, Time
  <2>3. row.revision = stay[s].revision + 1
    BY <2>1 DEF Stay
  <2>4. stay' = [stay EXCEPT ![s] = row]
    BY <1>5 DEF CancelStay, WriteStay
  <2> HIDE DEF row
  <2> QED BY <1>3, <2>1, <2>2, <2>3, <2>4
<1>6. ASSUME NEW s \in Stays, RestoreStay(s) PROVE StaysRemain
  <2> DEFINE row == [stay[s] EXCEPT !.status = "ACTIVE", !.revision = @ + 1,
                                    !.turned = stay[s].revision + 1]
  <2>1. stay[s] \in Stay /\ Booked(s) /\ stay[s].revision + 1 \in Nat
    BY <1>1, <1>6 DEF RestoreStay, Booked, Stay
  <2>2. row \in Stay
    BY <2>1 DEF Stay, Time
  <2>3. row.revision = stay[s].revision + 1
    BY <2>1 DEF Stay
  <2>4. stay' = [stay EXCEPT ![s] = row]
    BY <1>6 DEF RestoreStay, WriteStay
  <2> HIDE DEF row
  <2> QED BY <1>3, <2>1, <2>2, <2>3, <2>4
<1>7. CASE UNCHANGED stay
  BY <1>7 DEF StaysRemain, Booked
<1>8. CASE \E s \in Stays, p \in Periods, g \in Guests :
             CreateStay(s, p[1], p[2], g) \/ UpdateStay(s, p[1], p[2], g)
  BY <1>2, <1>4, <1>8
<1>9. CASE \E s \in Stays : CancelStay(s) \/ RestoreStay(s)
  BY <1>5, <1>6, <1>9
<1>10. CASE \/ SyncTasks
            \/ \E t \in Extra, at \in 0..MaxTime : CreateTask(t, at)
            \/ \E t \in Tasks, at \in 0..MaxTime : UpdateTask(t, at)
            \/ \E t \in Tasks : CancelTask(t)
            \/ SwitchProperty \/ Tick
            \/ \E t \in Tasks : CompleteTask(t) \/ \E d \in Submissions : StartTask(t, d)
  BY <1>7, <1>10 DEF SyncTasks, CreateTask, UpdateTask, CancelTask, SwitchProperty, Tick,
                     CompleteTask, StartTask
<1> QED BY <1>8, <1>9, <1>10 DEF BookingsNext, Booking

--------------------------------------------------------------------------------
LEMMA InitImports == Init => ImportsInv
<1> SUFFICES ASSUME Init PROVE ImportsInv
  OBVIOUS
<1>1. IInv
  BY InitIInv DEF Init
<1>2. ImportsTypeOK
  <2>1. <<>> \in Seq([Rows -> Row])
    OBVIOUS
  <2> QED BY <2>1 DEF Init, ImportsTypeOK
<1>3. \A s \in Stays : Booked(s) => stay[s].revision > 0
  BY DEF Init, BookingsInit, Booked
<1>4. \A b \in Batches : batch[b] = None /\ upload[b] = "NONE"
  BY DEF Init
<1>5. RowsDiffer /\ ReceiptsSound /\ \A b \in Batches : UploadSound(b) /\ BatchSound(b)
  BY <1>4 DEF Init, RowsDiffer, ReceiptsSound, UploadSound, BatchSound
<1> QED BY <1>1, <1>2, <1>3, <1>5 DEF ImportsInv

\* What a step does to the reservations and the batches decides the invariant.
LEMMA KeptBatch ==
    ASSUME ImportsInv, StaysRemain, NEW b \in Batches, batch'[b] = batch[b], shown'[b] = shown[b]
    PROVE  BatchSound(b)'
<1> SUFFICES ASSUME batch[b] # None PROVE BatchSound(b)'
  BY DEF BatchSound
<1>1. BatchSound(b) /\ batch[b] \in Batch
  BY DEF ImportsInv, ImportsTypeOK
<1>2. ASSUME NEW r \in Rows, batch[b].rows[r].stay # None
      PROVE  Booking1(batch[b].rows[r])'
  <2> DEFINE row == batch[b].rows[r]
  <2>1. Booking1(row) /\ row.stay \in Stays /\ row'.stay = row.stay
    BY <1>1, <1>2 DEF BatchSound, Batch, Row
  <2>2. Booked(row.stay)' /\ (stay'[row.stay] = stay[row.stay] \/ stay'[row.stay].revision > 1)
    BY <2>1 DEF StaysRemain, Booking1
  <2>3. row' = row
    OBVIOUS
  <2> HIDE DEF row
  <2>4. Booked(row.stay)' /\ (stay'[row.stay].revision = 1 =>
          <<stay'[row.stay].in, stay'[row.stay].out>> = <<row.in, row.out>>)
    BY <2>1, <2>2 DEF Booking1
  <2> QED BY <2>3, <2>4 DEF Booking1, Booked, row
<1>3. batch'[b].rows = batch[b].rows /\ LastShown(b)' = LastShown(b)
  BY DEF LastShown
<1> QED BY <1>1, <1>2, <1>3 DEF BatchSound

LEMMA AsideStep ==
    ASSUME ImportsInv, ImportsTypeOK', Aside, \A b \in Batches : UploadSound(b)'
    PROVE  ImportsInv'
<1>1. IInv' /\ \A s \in Stays : Booked(s)' => stay'[s].revision > 0
  BY StutterIInv DEF Aside, ImportsInv, bookingVars, Booked
<1>2. StaysRemain
  BY DEF Aside, ImportsInv, bookingVars, StaysRemain, Booked
<1>3. \A b \in Batches : BatchSound(b)'
  BY <1>2, KeptBatch DEF Aside
<1>4. RowsDiffer' /\ ReceiptsSound'
  BY DEF Aside, ImportsInv, RowsDiffer, ReceiptsSound
<1> QED BY <1>1, <1>3, <1>4 DEF ImportsInv

LEMMA UploadAsideStep ==
    ASSUME ImportsInv, NEW b \in Batches,
           \/ Reserve(b) \/ SaveFails(b) \/ Clean(b) \/ Crash(b)
           \/ \E arrived, answered \in BOOLEAN : Put(b, arrived, answered)
           \/ \E arrived \in BOOLEAN : DeleteSource(b, arrived)
    PROVE  ImportsInv'
<1>1. ImportsTypeOK /\ \A d \in Batches : UploadSound(d)
  BY DEF ImportsInv
<1>2. CASE Reserve(b)
  <2>1. ImportsTypeOK' /\ Aside
    BY <1>1, <1>2 DEF Reserve, ImportsTypeOK, Aside
  <2>2. \A d \in Batches : UploadSound(d)'
    BY <1>1, <1>2 DEF Reserve, ImportsTypeOK, UploadSound
  <2> QED BY <2>1, <2>2, AsideStep
<1>3. CASE SaveFails(b)
  <2>1. ImportsTypeOK' /\ Aside
    BY <1>1, <1>3 DEF SaveFails, ImportsTypeOK, Aside
  <2>2. \A d \in Batches : UploadSound(d)'
    BY <1>1, <1>3 DEF SaveFails, ImportsTypeOK, UploadSound
  <2> QED BY <2>1, <2>2, AsideStep
<1>4. CASE Clean(b)
  <2>1. ImportsTypeOK' /\ Aside
    BY <1>1, <1>4 DEF Clean, ImportsTypeOK, Aside
  <2>2. \A d \in Batches : UploadSound(d)'
    BY <1>1, <1>4 DEF Clean, Cleanable, ImportsTypeOK, UploadSound
  <2> QED BY <2>1, <2>2, AsideStep
<1>5. CASE Crash(b)
  <2>1. ImportsTypeOK' /\ Aside
    BY <1>1, <1>5 DEF Crash, ImportsTypeOK, Aside
  <2>2. \A d \in Batches : UploadSound(d)'
    BY <1>1, <1>5 DEF Crash, ImportsTypeOK, UploadSound
  <2> QED BY <2>1, <2>2, AsideStep
<1>6. ASSUME NEW arrived \in BOOLEAN, NEW answered \in BOOLEAN, Put(b, arrived, answered)
      PROVE  ImportsInv'
  <2>1. ImportsTypeOK' /\ Aside
    BY <1>1, <1>6 DEF Put, ImportsTypeOK, Aside
  <2>2. \A d \in Batches : UploadSound(d)'
    BY <1>1, <1>6 DEF Put, ImportsTypeOK, UploadSound
  <2> QED BY <2>1, <2>2, AsideStep
<1>7. ASSUME NEW arrived \in BOOLEAN, DeleteSource(b, arrived)
      PROVE  ImportsInv'
  <2>1. ImportsTypeOK' /\ Aside
    BY <1>1, <1>7 DEF DeleteSource, ImportsTypeOK, Aside
  <2>2. \A d \in Batches : UploadSound(d)'
    BY <1>1, <1>7 DEF DeleteSource, ImportsTypeOK, UploadSound
  <2> QED BY <2>1, <2>2, AsideStep
<1> QED BY <1>2, <1>3, <1>4, <1>5, <1>6, <1>7

\* A batch that is a preview has no reservations, whatever is written to it.
LEMMA PreviewStep ==
    ASSUME ImportsInv, NEW b \in Batches, UNCHANGED <<bookingVars, receipts>>,
           ImportsTypeOK', UploadSound(b)',
           \A d \in Batches \ {b} : /\ batch'[d] = batch[d] /\ shown'[d] = shown[d]
                                    /\ UploadSound(d)',
           batch[b] = None \/ batch[b].status = "PREVIEW",
           batch'[b] # None, batch'[b].status = "PREVIEW", batch'[b].version = Len(shown'[b]),
           Len(shown'[b]) > 0, batch'[b].rows = shown'[b][Len(shown'[b])],
           \A r \in Rows : batch'[b].rows[r].stay = None
    PROVE  ImportsInv'
<1>1. IInv' /\ \A s \in Stays : Booked(s)' => stay'[s].revision > 0
  BY StutterIInv DEF ImportsInv, bookingVars, Booked
<1>2. StaysRemain
  BY DEF ImportsInv, bookingVars, StaysRemain, Booked
<1>3. ASSUME NEW d \in Batches PROVE BatchSound(d)'
  <2>1. CASE d = b
    BY <2>1 DEF BatchSound, LastShown, Like
  <2>2. CASE d # b
    BY <1>2, <2>2, KeptBatch
  <2> QED BY <2>1, <2>2
<1>4. RowsDiffer'
  BY DEF ImportsInv, RowsDiffer
<1>5. ReceiptsSound'
  <2> SUFFICES ASSUME NEW c \in receipts
               PROVE  /\ batch'[c.batch] # None /\ batch'[c.batch].status = "CONFIRMED"
                      /\ c.seen = Len(shown'[c.batch])
    BY DEF ReceiptsSound
  <2>1. /\ c.batch \in Batches /\ batch[c.batch] # None /\ batch[c.batch].status = "CONFIRMED"
        /\ c.seen = Len(shown[c.batch])
    BY DEF ImportsInv, ReceiptsSound, ImportsTypeOK
  <2>2. c.batch # b
    BY <2>1
  <2> QED BY <2>1, <2>2
<1>6. \A d \in Batches : UploadSound(d)'
  OBVIOUS
<1> QED BY <1>1, <1>3, <1>4, <1>5, <1>6 DEF ImportsInv

LEMMA SaveStep ==
    ASSUME ImportsInv, NEW b \in Batches, NEW rows \in [Rows -> Roster], NEW answered \in BOOLEAN,
           Save(b, rows, answered)
    PROVE  ImportsInv'
<1> DEFINE new == Previewed(rows)
<1>1. rows \in [Rows -> Row] /\ \A r \in Rows : rows[r].stay = None
  BY RosterIsParsed
<1>2. new \in [Rows -> Row] /\ \A r \in Rows : new[r].stay = None
  <2>1. {"UNUSABLE"} \in SUBSET Cells
    BY DEF Cells
  <2>2. new = Validated(rows, {"UNUSABLE"})
    BY DEF Previewed
  <2> DEFINE set == {"UNUSABLE"}
  <2> HIDE DEF set, new
  <2>3. Validated(rows, set) \in [Rows -> Row]
        /\ \A r \in Rows : Validated(rows, set)[r].stay = rows[r].stay
    BY <1>1, <2>1, ValidatedRows DEF set
  <2> QED BY <1>1, <2>2, <2>3 DEF set
<1> HIDE DEF new
<1>3. /\ batch[b] = None /\ upload[b] = "SAVE" /\ stored[b] /\ ImportsTypeOK
      /\ source' = [source EXCEPT ![b] = "READY"]
      /\ batch' = [batch EXCEPT ![b] = [status |-> "PREVIEW", version |-> 1, rows |-> new]]
      /\ shown' = [shown EXCEPT ![b] = <<new>>]
      /\ upload' = [upload EXCEPT ![b] = IF answered THEN "OVER" ELSE "CLEAN"]
      /\ UNCHANGED <<bookingVars, stored, receipts>>
  BY DEF Save, ImportsInv, UploadSound, new
<1> DEFINE row == [status |-> "PREVIEW", version |-> 1, rows |-> new]
<1>4. row \in Batch /\ row # None
  <2>1. row \in Batch
    BY <1>2 DEF Batch
  <2> QED BY <2>1, NoneIsNoBatch
<1>5. <<new>> \in Seq([Rows -> Row]) /\ Len(<<new>>) = 1 /\ <<new>>[1] = new
  BY <1>2
<1>6. batch'[b] = row /\ shown'[b] = <<new>>
  BY <1>3 DEF ImportsTypeOK
<1>7. ImportsTypeOK'
  BY <1>3, <1>4, <1>5 DEF ImportsTypeOK
<1>8. UploadSound(b)'
  BY <1>3 DEF ImportsTypeOK, UploadSound
<1>9. \A d \in Batches \ {b} : batch'[d] = batch[d] /\ shown'[d] = shown[d] /\ UploadSound(d)'
  BY <1>3 DEF ImportsTypeOK, UploadSound, ImportsInv
<1>10. /\ batch'[b] # None /\ batch'[b].status = "PREVIEW" /\ batch'[b].version = Len(shown'[b])
       /\ Len(shown'[b]) > 0 /\ batch'[b].rows = shown'[b][Len(shown'[b])]
       /\ \A r \in Rows : batch'[b].rows[r].stay = None
  BY <1>2, <1>4, <1>5, <1>6
<1> QED BY <1>3, <1>7, <1>8, <1>9, <1>10, PreviewStep

LEMMA EditedRow ==
    ASSUME NEW row \in Row, row.stay = None, NEW new \in Edits(row)
    PROVE  new \in Row /\ new.stay = None
<1>1. CASE new = row
  BY <1>1
<1>2. CASE new = Skipped(row)
  BY <1>2 DEF Skipped, Row
<1>3. ASSUME NEW p \in Periods, NEW g \in Guests, new = Corrected(row, p[1], p[2], g)
      PROVE  new \in Row /\ new.stay = None
  <2>1. p[1] \in Nat /\ p[2] \in Nat
    BY PeriodsAreTimes DEF Time
  <2>2. new \in Row
    BY <1>3, <2>1 DEF Corrected, Row, Time, Cells
  <2>3. new.stay = row.stay
    BY <1>3 DEF Corrected, Row
  <2> QED BY <2>2, <2>3
<1> QED BY <1>1, <1>2, <1>3 DEF Edits

LEMMA ReviewKeeps ==
    ASSUME ImportsInv, NEW b \in Batches, NEW seen \in Shown(b), NEW r \in Rows,
           NEW row \in Edits(batch[b].rows[r]),
           Review(b, seen, [batch[b].rows EXCEPT ![r] = row])
    PROVE  ImportsInv'
<1> DEFINE edited == [batch[b].rows EXCEPT ![r] = row]
           new == Revalidated(edited)
<1>1. /\ batch[b] \in Batch /\ batch[b] # None /\ source[b] = "READY" /\ BatchSound(b)
      /\ batch[b].status = "PREVIEW" /\ batch[b].version = seen
      /\ batch[b].rows \in [Rows -> Row] /\ \A q \in Rows : batch[b].rows[q].stay = None
      /\ ImportsTypeOK /\ \A d \in Batches : UploadSound(d)
  BY DEF Review, IsPreview, ImportsInv, ImportsTypeOK, Batch
<1>2. row \in Row /\ row.stay = None
  BY <1>1, EditedRow
<1>3. edited \in [Rows -> Row] /\ \A q \in Rows : edited[q].stay = None
  BY <1>1, <1>2
<1> HIDE DEF edited
<1>4. new \in [Rows -> Row] /\ \A q \in Rows : new[q].stay = None
  <2>1. {"UNUSABLE", "UNTIMED"} \in SUBSET Cells
    BY DEF Cells
  <2>2. new = Validated(edited, {"UNUSABLE", "UNTIMED"})
    BY DEF Revalidated
  <2> DEFINE set == {"UNUSABLE", "UNTIMED"}
  <2> HIDE DEF set, new
  <2>3. Validated(edited, set) \in [Rows -> Row]
        /\ \A q \in Rows : Validated(edited, set)[q].stay = edited[q].stay
    BY <1>3, <2>1, ValidatedRows DEF set
  <2> QED BY <1>3, <2>2, <2>3 DEF set
<1>5. /\ batch' = [batch EXCEPT ![b].rows = new, ![b].version = @ + 1]
      /\ shown' = [shown EXCEPT ![b] = Append(@, new)]
      /\ UNCHANGED <<bookingVars, source, stored, upload, receipts>>
  BY DEF Review, edited
<1> HIDE DEF new
<1>6. /\ shown[b] \in Seq([Rows -> Row]) /\ seen = Len(shown[b]) /\ seen \in Nat
      /\ shown'[b] = Append(shown[b], new)
  BY <1>1, <1>5 DEF ImportsTypeOK, BatchSound
<1>7. /\ shown'[b] \in Seq([Rows -> Row]) /\ Len(shown'[b]) = seen + 1 /\ shown'[b][seen + 1] = new
  BY <1>4, <1>6
<1>8. /\ batch'[b].status = "PREVIEW" /\ batch'[b].version = seen + 1 /\ batch'[b].rows = new
      /\ batch'[b] \in Batch /\ batch'[b] # None
  <2>1. batch'[b] = [batch[b] EXCEPT !.rows = new, !.version = seen + 1]
    BY <1>1, <1>5 DEF ImportsTypeOK
  <2>2. seen + 1 \in Nat \ {0}
    BY <1>6
  <2>3. batch'[b] \in Batch
    BY <1>1, <1>4, <2>1, <2>2 DEF Batch
  <2>4. batch'[b].status = "PREVIEW" /\ batch'[b].version = seen + 1 /\ batch'[b].rows = new
    BY <1>1, <2>1 DEF Batch
  <2> QED BY <2>3, <2>4, NoneIsNoBatch
<1>9. \A d \in Batches \ {b} : batch'[d] = batch[d] /\ shown'[d] = shown[d]
  BY <1>1, <1>5 DEF ImportsTypeOK
<1>10. ImportsTypeOK'
  <2>1. batch' \in [Batches -> Batch \cup {None}]
    BY <1>1, <1>5, <1>8, <1>9 DEF ImportsTypeOK
  <2>2. shown' \in [Batches -> Seq([Rows -> Row])]
    BY <1>1, <1>5, <1>7, <1>9 DEF ImportsTypeOK
  <2> QED BY <1>1, <1>5, <2>1, <2>2 DEF ImportsTypeOK
<1>11. \A d \in Batches : UploadSound(d)'
  BY <1>1, <1>5, <1>9 DEF UploadSound
<1>12. Len(shown'[b]) > 0 /\ batch'[b].rows = shown'[b][Len(shown'[b])]
       /\ batch'[b].version = Len(shown'[b])
  BY <1>6, <1>7, <1>8
<1>13. UploadSound(b)' /\ UNCHANGED <<bookingVars, receipts>>
       /\ \A q \in Rows : batch'[b].rows[q].stay = None
  BY <1>4, <1>5, <1>8, <1>11
<1>14. \A d \in Batches \ {b} : batch'[d] = batch[d] /\ shown'[d] = shown[d] /\ UploadSound(d)'
  BY <1>9, <1>11
<1> QED BY <1>1, <1>8, <1>10, <1>12, <1>13, <1>14, PreviewStep

LEMMA ConfirmKeeps ==
    ASSUME ImportsInv, NEW b \in Batches, NEW seen \in Shown(b),
           NEW new \in [Created(batch[b].rows) -> Stays], Confirm(b, seen, new)
    PROVE  ImportsInv'
<1> DEFINE old == batch[b].rows
           rows == Revalidated(old)
           Row2(r) == IF r \in Created(old) THEN [rows[r] EXCEPT !.stay = new[r]] ELSE rows[r]
           named == [r \in Rows |-> Row2(r)]
<1>1. /\ IInv /\ ImportsTypeOK /\ \A s \in Stays : Booked(s) => stay[s].revision > 0
      /\ \A d \in Batches : UploadSound(d) /\ BatchSound(d)
      /\ RowsDiffer /\ ReceiptsSound
  BY DEF ImportsInv
<1>2. old \in [Rows -> Row] /\ ReadyNow(old) /\ Registers(old, new)
  BY <1>1, ConfirmRegisters
<1>3. /\ batch[b] \in Batch /\ batch[b] # None /\ source[b] = "READY" /\ batch[b].status = "PREVIEW"
      /\ batch[b].version = seen /\ \A r \in Rows : old[r].stay = None
  BY DEF Confirm, IsPreview, ImportsInv, ImportsTypeOK
<1>4. /\ rows \in [Rows -> Row] /\ Created(rows) = Created(old)
      /\ \A r \in Rows : Like(rows[r], old[r]) /\ rows[r].stay = None
  <2> DEFINE set == {"UNUSABLE", "UNTIMED"}
  <2>1. set \in SUBSET Cells
    BY DEF Cells
  <2>2. rows = Validated(old, set)
    BY DEF Revalidated
  <2> HIDE DEF set, rows, old
  <2>3. /\ Validated(old, set) \in [Rows -> Row] /\ Created(Validated(old, set)) = Created(old)
        /\ \A r \in Rows : /\ Like(Validated(old, set)[r], old[r])
                           /\ Validated(old, set)[r].stay = old[r].stay
    BY <1>2, <2>1, ValidatedRows
  <2> QED BY <1>3, <2>2, <2>3 DEF old
<1>5. /\ batch' = [batch EXCEPT ![b] = [status |-> "CONFIRMED", version |-> seen + 1, rows |-> named]]
      /\ receipts' = receipts \cup {[batch |-> b, seen |-> seen]}
      /\ UNCHANGED <<now, open, source, stored, upload, shown>>
  <2>1. batch' = [batch EXCEPT ![b] = [status |-> "CONFIRMED", version |-> seen + 1,
                    rows |-> [r \in Rows |-> IF r \in Created(rows) THEN [rows[r] EXCEPT !.stay = new[r]]
                                             ELSE rows[r]]]]
    BY DEF Confirm
  <2> QED BY <1>4, <2>1 DEF Confirm
<1>6. ASSUME NEW r \in Rows
      PROVE  /\ named[r] \in Row /\ Like(named[r], old[r])
             /\ r \in Created(old) <=> named[r].action = "CREATE"
             /\ r \in Created(old) => named[r].stay = new[r] /\ new[r] \in Stays
             /\ r \notin Created(old) => named[r].stay = None
  <2>1. rows[r] \in Row /\ Like(rows[r], old[r]) /\ rows[r].stay = None /\ named[r] = Row2(r)
    BY <1>4
  <2>2. r \in Created(old) <=> rows[r].action = "CREATE"
    BY <1>4 DEF Created
  <2> HIDE DEF rows, named, old
  <2>3. CASE r \notin Created(old)
    BY <2>1, <2>2, <2>3
  <2>4. CASE r \in Created(old)
    <3>1. new[r] \in Stays
      BY <1>2, <2>4 DEF Registers
    <3>2. named[r] = [rows[r] EXCEPT !.stay = new[r]]
      BY <2>1, <2>4
    <3>3. named[r] \in Row
      BY <2>1, <3>1, <3>2 DEF Row
    <3>4. named[r].stay = new[r] /\ named[r].action = rows[r].action /\ Like(named[r], old[r])
      BY <2>1, <3>2 DEF Row, Like
    <3> QED BY <2>2, <2>4, <3>1, <3>3, <3>4
  <2> QED BY <2>3, <2>4
<1>7. named \in [Rows -> Row]
  BY <1>6
<1>8. IInv'
  BY <1>1, <1>2, <1>5, RegisterStep
<1> HIDE DEF named, rows
<1>9. /\ shown[b] \in Seq([Rows -> Row]) /\ seen = Len(shown[b]) /\ seen \in Nat /\ seen > 0
      /\ \A r \in Rows : Like(old[r], LastShown(b)[r])
  BY <1>1, <1>3 DEF ImportsTypeOK, BatchSound
<1> DEFINE row == [status |-> "CONFIRMED", version |-> seen + 1, rows |-> named]
<1>10. /\ row \in Batch /\ row # None /\ batch'[b] = row
       /\ \A d \in Batches \ {b} : batch'[d] = batch[d]
  <2>1. seen + 1 \in Nat \ {0}
    BY <1>9
  <2>2. row \in Batch
    BY <1>7, <2>1 DEF Batch
  <2> QED BY <1>1, <1>5, <2>2, NoneIsNoBatch DEF ImportsTypeOK
<1>11. ImportsTypeOK'
  <2>1. batch' \in [Batches -> Batch \cup {None}]
    BY <1>1, <1>5, <1>10 DEF ImportsTypeOK
  <2>2. receipts' \subseteq [batch: Batches, seen: Nat]
    BY <1>1, <1>5, <1>9 DEF ImportsTypeOK
  <2> QED BY <1>1, <1>5, <2>1, <2>2 DEF ImportsTypeOK
<1>12. StaysRemain
  <2> SUFFICES ASSUME NEW s \in Stays
               PROVE  /\ Booked(s)' => stay'[s].revision > 0
                      /\ Booked(s) => Booked(s)' /\ stay'[s] = stay[s]
    BY DEF StaysRemain
  <2>1. CASE \A r \in Created(old) : new[r] # s
    BY <1>1, <1>2, <2>1 DEF Registers, Booked
  <2>2. ASSUME NEW r \in Created(old), new[r] = s
        PROVE  ~Booked(s) /\ stay'[s].revision = 1
    <3>1. ~Booked(new[r]) /\ stay'[new[r]] = Imported(old[r])
      BY <1>2 DEF Registers
    <3>2. Imported(old[r]).revision = 1
      BY DEF Imported
    <3> QED BY <2>2, <3>1, <3>2
  <2> QED BY <2>1, <2>2
<1>13. ASSUME NEW d \in Batches PROVE UploadSound(d)'
  <2>1. batch'[d] # None => batch[d] # None
    BY <1>3, <1>10
  <2> QED BY <1>1, <1>5, <2>1 DEF UploadSound
<1>14. ASSUME NEW r \in Rows, named[r].stay # None
       PROVE  /\ named[r].stay \in Stays /\ ~Booked(named[r].stay) /\ stay'[named[r].stay] # None
              /\ <<stay'[named[r].stay].in, stay'[named[r].stay].out>> = <<named[r].in, named[r].out>>
  <2>1. r \in Created(old) /\ named[r].stay = new[r] /\ Like(named[r], old[r])
    BY <1>6, <1>14
  <2>2. stay'[new[r]] = Imported(old[r]) /\ new[r] \in Stays /\ old[r] \in Row /\ ~Booked(new[r])
    BY <1>2, <2>1 DEF Registers, Created
  <2>3. Imported(old[r]).in = old[r].in /\ Imported(old[r]).out = old[r].out
    BY DEF Imported
  <2>4. Imported(old[r]) # None
    <3>1. old[r].in \in Nat /\ old[r].out \in Nat /\ old[r].guest \in Guests
      BY <2>2 DEF Row, Time
    <3>2. Imported(old[r]) \in Stay
      BY <3>1 DEF Imported, Stay, Time
    <3> QED BY <3>2, NoneIsNoRow
  <2>5. named[r].in = old[r].in /\ named[r].out = old[r].out
    BY <2>1 DEF Like
  <2> HIDE DEF old
  <2> QED BY <2>1, <2>2, <2>3, <2>4, <2>5
<1>15. BatchSound(b)'
  <2>1. /\ batch'[b].status = "CONFIRMED" /\ batch'[b].version = seen + 1 /\ batch'[b].rows = named
        /\ shown'[b] = shown[b]
    BY <1>5, <1>10
  <2>2. \A r \in Rows : Like(named[r], LastShown(b)[r])
    BY <1>6, <1>9 DEF Like
  <2>3. \A r \in Rows : named[r].stay # None <=> named[r].action = "CREATE"
    <3>1. None \notin Stays
      BY NoneIsNoBatch
    <3> QED BY <1>6, <3>1
  <2> QED BY <1>9, <1>14, <2>1, <2>2, <2>3 DEF BatchSound, LastShown, Booking1, Booked, Like
<1>16. RowsDiffer'
  <2> SUFFICES ASSUME NEW c \in Batches, NEW d \in Batches, NEW r \in Rows, NEW q \in Rows,
                      <<c, r>> # <<d, q>>, batch'[c] # None, batch'[d] # None,
                      batch'[c].rows[r].stay # None
               PROVE  batch'[c].rows[r].stay # batch'[d].rows[q].stay
    BY DEF RowsDiffer
  <2>1. batch'[b].rows = named
    BY <1>10
  <2>2. ASSUME NEW e \in Batches \ {b}, NEW u \in Rows, batch'[e] # None, batch'[e].rows[u].stay # None
        PROVE  Booked(batch'[e].rows[u].stay)
    BY <1>1, <1>10, <2>2 DEF BatchSound, Booking1
  <2>3. ASSUME NEW u \in Rows, named[u].stay # None
        PROVE  ~Booked(named[u].stay) /\ u \in Created(old) /\ named[u].stay = new[u]
    BY <1>6, <1>14, <2>3
  <2>4. CASE c = b /\ d = b
    <3>1. r # q /\ named[r].stay # None
      BY <2>1, <2>4
    <3>2. CASE named[q].stay = None
      BY <2>1, <2>4, <3>1, <3>2
    <3>3. CASE named[q].stay # None
      <4>1. new[r] # new[q]
        BY <1>2, <2>3, <3>1, <3>3 DEF Registers
      <4> QED BY <2>1, <2>3, <2>4, <3>1, <3>3, <4>1
    <3> QED BY <3>2, <3>3
  <2>5. CASE c = b /\ d # b
    <3>1. ~Booked(named[r].stay) /\ named[r].stay # None
      BY <2>1, <2>3, <2>5
    <3>2. CASE batch'[d].rows[q].stay = None
      BY <2>1, <2>5, <3>1, <3>2
    <3>3. CASE batch'[d].rows[q].stay # None
      BY <2>1, <2>2, <2>5, <3>1, <3>3
    <3> QED BY <3>2, <3>3
  <2>6. CASE c # b /\ d = b
    <3>1. Booked(batch'[c].rows[r].stay)
      BY <2>2, <2>6
    <3>2. CASE named[q].stay = None
      BY <2>1, <2>6, <3>2
    <3>3. CASE named[q].stay # None
      BY <2>1, <2>3, <2>6, <3>1, <3>3
    <3> QED BY <3>2, <3>3
  <2>7. CASE c # b /\ d # b
    BY <1>1, <1>10, <2>7 DEF RowsDiffer
  <2> QED BY <2>4, <2>5, <2>6, <2>7
<1>17. ReceiptsSound'
  <2> SUFFICES ASSUME NEW c \in receipts'
               PROVE  /\ batch'[c.batch] # None /\ batch'[c.batch].status = "CONFIRMED"
                      /\ c.seen = Len(shown'[c.batch])
    BY DEF ReceiptsSound
  <2>1. batch'[b] # None /\ batch'[b].status = "CONFIRMED" /\ shown' = shown
    BY <1>5, <1>10
  <2>2. CASE c \in receipts
    <3>1. c.batch \in Batches /\ batch[c.batch] # None /\ batch[c.batch].status = "CONFIRMED"
          /\ c.seen = Len(shown[c.batch])
      BY <1>1, <2>2 DEF ReceiptsSound, ImportsTypeOK
    <3>2. c.batch # b
      BY <1>3, <3>1
    <3> QED BY <1>10, <2>1, <3>1, <3>2
  <2>3. CASE c = [batch |-> b, seen |-> seen]
    BY <1>9, <2>1, <2>3
  <2> QED BY <1>5, <2>2, <2>3
<1>18. \A s \in Stays : Booked(s)' => stay'[s].revision > 0
  BY <1>12 DEF StaysRemain
<1>19. ASSUME NEW d \in Batches PROVE BatchSound(d)'
  <2>1. CASE d # b
    <3>1. batch'[d] = batch[d] /\ shown'[d] = shown[d]
      BY <1>5, <1>10, <2>1
    <3> QED BY <1>12, <3>1, KeptBatch
  <2> QED BY <1>15, <2>1
<1> QED BY <1>8, <1>11, <1>13, <1>16, <1>17, <1>18, <1>19 DEF ImportsInv

LEMMA RepeatKeeps ==
    ASSUME ImportsInv, NEW b \in Batches, NEW seen \in Shown(b), RepeatConfirm(b, seen)
    PROVE  ImportsInv'
<1>1. /\ batch[b] # None /\ batch[b].status = "CONFIRMED" /\ seen = batch[b].version - 1
      /\ receipts' = receipts \cup {[batch |-> b, seen |-> seen]}
      /\ UNCHANGED <<bookingVars, source, stored, upload, batch, shown>>
  BY DEF RepeatConfirm, Answered
<1>2. /\ ImportsTypeOK /\ RowsDiffer /\ ReceiptsSound /\ BatchSound(b)
      /\ \A d \in Batches : UploadSound(d)
  BY DEF ImportsInv
<1>3. IInv' /\ \A s \in Stays : Booked(s)' => stay'[s].revision > 0
  BY <1>1, StutterIInv DEF ImportsInv, bookingVars, Booked
<1>4. StaysRemain
  BY <1>1 DEF ImportsInv, bookingVars, StaysRemain, Booked
<1>5. \A d \in Batches : BatchSound(d)' /\ UploadSound(d)'
  <2>1. \A d \in Batches : UploadSound(d)'
    BY <1>1, <1>2 DEF UploadSound
  <2> QED BY <1>1, <1>4, <2>1, KeptBatch
<1>6. seen \in Nat /\ seen = Len(shown[b])
  <2>1. shown[b] \in Seq([Rows -> Row])
    BY <1>2 DEF ImportsTypeOK
  <2> QED BY <1>1, <1>2, <2>1 DEF BatchSound
<1>7. ImportsTypeOK'
  BY <1>1, <1>2, <1>6 DEF ImportsTypeOK
<1>8. RowsDiffer' /\ ReceiptsSound'
  <2>1. ReceiptsSound'
    BY <1>1, <1>2, <1>6 DEF ReceiptsSound
  <2>2. RowsDiffer'
    BY <1>1, <1>2 DEF RowsDiffer
  <2> QED BY <2>1, <2>2
<1> QED BY <1>3, <1>5, <1>7, <1>8 DEF ImportsInv

\* Reservations are also written beside the rosters.
LEMMA BookingsKeep ==
    ASSUME ImportsInv, BookingsNext, UNCHANGED importVars
    PROVE  ImportsInv'
<1>1. IInv' /\ StaysRemain
  BY NextIInv, BookingsRemain DEF ImportsInv
<1>2. ImportsTypeOK' /\ RowsDiffer' /\ ReceiptsSound' /\ \A d \in Batches : UploadSound(d)'
  BY DEF ImportsInv, importVars, ImportsTypeOK, RowsDiffer, ReceiptsSound, UploadSound
<1>3. \A d \in Batches : BatchSound(d)'
  BY <1>1, KeptBatch DEF importVars
<1>4. \A s \in Stays : Booked(s)' => stay'[s].revision > 0
  BY <1>1 DEF StaysRemain
<1> QED BY <1>1, <1>2, <1>3, <1>4 DEF ImportsInv

LEMMA ImportsStep == ASSUME ImportsInv, [Next]_vars PROVE ImportsInv'
<1>1. CASE UNCHANGED vars
  <2>1. ImportsTypeOK' /\ Aside /\ \A d \in Batches : UploadSound(d)'
    BY <1>1 DEF vars, importVars, Aside, ImportsInv, ImportsTypeOK, UploadSound
  <2> QED BY <2>1, AsideStep
<1>2. CASE BookingsNext /\ UNCHANGED importVars
  BY <1>2, BookingsKeep
<1>3. ASSUME NEW b \in Batches, UploadStep(b) PROVE ImportsInv'
  BY <1>3, UploadAsideStep, SaveStep DEF UploadStep
<1>4. ASSUME NEW b \in Batches, ReviewStep(b) PROVE ImportsInv'
  BY <1>4, ReviewKeeps DEF ReviewStep
<1>5. ASSUME NEW b \in Batches, ConfirmStep(b) PROVE ImportsInv'
  BY <1>5, ConfirmKeeps, RepeatKeeps DEF ConfirmStep
<1> QED BY <1>1, <1>2, <1>3, <1>4, <1>5 DEF Next

\* The strengthening: there is a batch only once its file is stored and READY, its rows are
\* those that were shown last, and each of them is a reservation of its own when it is confirmed.
THEOREM ImportsInvariant == Spec => []ImportsInv
<1> QED BY InitImports, ImportsStep, PTL DEF Spec

\* No two parties have the house at the same time, rosters and single reservations
\* together, of any size (checkRosterConflicts() in review() and confirm()).
THEOREM RostersNeverDoubleBook == Spec => []NoDoubleBooking
<1>1. ImportsInv => NoDoubleBooking
  BY DEF ImportsInv, IInv
<1> QED BY <1>1, ImportsInvariant, PTL

\* The file of a batch is never deleted, wherever an upload fails (cleanupFailedSource()).
THEOREM BatchesKeepTheirFile == Spec => []SourceIsKept
<1>1. ImportsInv => SourceIsKept
  BY DEF ImportsInv, UploadSound, SourceIsKept
<1> QED BY <1>1, ImportsInvariant, PTL

\* Whoever is told that a roster was registered had seen its rows, and each row that was not
\* skipped is one reservation of its own (confirm(), requirePreviewVersion()).
THEOREM RostersAreRegisteredAsShown == Spec => []RegisteredAsShown
<1>1. ASSUME ImportsInv PROVE RegisteredAsShown
  <2>1. ASSUME NEW c \in receipts
        PROVE  /\ batch[c.batch].status = "CONFIRMED" /\ c.seen \in Shown(c.batch)
               /\ \A r \in Rows : AsShown(batch[c.batch].rows[r], shown[c.batch][c.seen][r])
    <3>1. /\ c.batch \in Batches /\ batch[c.batch] # None /\ batch[c.batch].status = "CONFIRMED"
          /\ c.seen = Len(shown[c.batch]) /\ BatchSound(c.batch)
      BY <1>1 DEF ImportsInv, ReceiptsSound, ImportsTypeOK
    <3>2. shown[c.batch] \in Seq([Rows -> Row]) /\ c.seen > 0
      BY <1>1, <3>1 DEF ImportsInv, ImportsTypeOK, BatchSound
    <3>3. c.seen \in Shown(c.batch)
      BY <3>1, <3>2 DEF Shown
    <3>4. ASSUME NEW r \in Rows
          PROVE  AsShown(batch[c.batch].rows[r], shown[c.batch][c.seen][r])
      BY <3>1 DEF BatchSound, AsShown, Like, LastShown, Booking1
    <3> QED BY <3>1, <3>3, <3>4
  <2>2. \A b \in Batches : batch[b] # None /\ batch[b].status = "PREVIEW" =>
          \A r \in Rows : batch[b].rows[r].stay = None
    BY <1>1 DEF ImportsInv, BatchSound
  <2> QED BY <1>1, <2>1, <2>2 DEF RegisteredAsShown, ImportsInv, RowsDiffer
<1> QED BY <1>1, ImportsInvariant, PTL
================================================================================
