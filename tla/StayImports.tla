------------------------------- MODULE StayImports -------------------------------
(***************************************************************************)
(* Rosters of guests, uploaded as a workbook.  A preview stores the file   *)
(* (a PENDING attachment, the object, then READY together with the batch), *)
(* administrators review its rows, and one of them confirms the batch: all *)
(* rows that are not skipped become reservations, in one transaction, or   *)
(* none.  Beside all this reservations are written as in Bookings, whose   *)
(* actions go on here.                                                     *)
(*                                                                         *)
(* The upload is three steps with a crash or an uncertain answer between   *)
(* any two; reviews and confirmations are serializable transactions, each  *)
(* one action.  They name the version of the batch that was shown, and a   *)
(* confirmation is sent again when its answer was lost.  Only rows of the  *)
(* property that Bookings is about can become reservations here: a row of  *)
(* another property shares nothing with them, like one that is not mapped. *)
(***************************************************************************)
EXTENDS Bookings, Sequences, SequencesExt, Functions

CONSTANTS Batches, Rows,
          Roster,        \* what a row of a workbook may say
          MaxReviews     \* bound: versions of a batch before it is confirmed

VARIABLES source,   \* status of the IMPORT_SOURCE attachment
          stored,   \* is the file in the bucket?
          upload,   \* how far the request that uploads it has come
          batch,    \* the ImportBatch table, with the rows of each batch
          shown,    \* the rows of each version, as previews have shown them
          receipts  \* confirmations that were answered: the batch and the version seen

importVars == <<source, stored, upload, batch, shown, receipts>>
vars == <<bookingVars, importVars>>

ASSUME ReviewsAreCounted == MaxReviews \in Nat

\* cells: what the parser has to say of a row: it is fine, a doubt must be resolved, there is a
\* date but no time, or it cannot be used.  here: it is mapped to the property.
Cells == {"CLEAR", "UNCLEAR", "UNTIMED", "UNUSABLE"}
Row == [action: {"CREATE", "SKIP"}, cells: Cells, here: BOOLEAN, in: Time, out: Time, guest: Guests,
        status: {"VALID", "NEEDS_REVIEW", "INVALID"}, stay: Stays \cup {None}]
Batch == [status: {"PREVIEW", "CONFIRMED"}, version: Nat \ {0}, rows: [Rows -> Row]]
ASSUME NoneIsNoBatch == None \notin Batch \cup Stays
ASSUME RosterIsParsed == \A row \in Roster : row \in Row /\ row.in < row.out /\ row.stay = None

ImportsTypeOK ==
    /\ source \in [Batches -> {"NONE", "PENDING", "READY", "FAILED"}]
    /\ stored \in [Batches -> BOOLEAN]
    /\ upload \in [Batches -> {"NONE", "PUT", "SAVE", "CLEAN", "DELETE", "OVER"}]
    /\ batch \in [Batches -> Batch \cup {None}]
    /\ shown \in [Batches -> Seq([Rows -> Row])]
    /\ receipts \subseteq [batch: Batches, seen: Nat]

--------------------------------------------------------------------------------
\* parseRoster: a row is a guest's with a period, or a note, which is skipped.
Parsed(cells, here, in, out, g) ==
    [action |-> "CREATE", cells |-> cells, here |-> here, in |-> in, out |-> out, guest |-> g,
     status |-> "VALID", stay |-> None]
Skipped(row) == [row EXCEPT !.action = "SKIP", !.status = "VALID"]

Created(rows) == {r \in Rows : rows[r].action = "CREATE"}

\* stayBounds: the rows whose period is compared with others.  Reviews and confirmations do not
\* count a row without times, the first preview does.
Bounded(rows, Unusable) == {r \in Created(rows) : rows[r].cells \notin Unusable}

\* checkRosterConflicts: rows of the property that overlap a reservation or each other.
\* Faulty variant: only reservations are looked at.
TakenRows(rows, bounded) ==
    {r \in bounded : rows[r].here /\ \E s \in Stays : Active(s) /\ Overlaps(s, rows[r].in, rows[r].out)}
Conflicts(rows, bounded) ==
    {r \in bounded : /\ rows[r].here
                     /\ \/ \E s \in Stays : Active(s) /\ Overlaps(s, rows[r].in, rows[r].out)
                        \/ \E q \in bounded \ {r} : /\ rows[q].here /\ rows[q].in < rows[r].out
                                                    /\ rows[q].out > rows[r].in}

\* flag: the status of each row, from its cells, the property and the conflicts.
Validated(rows, Unusable) ==
    LET bounded == Bounded(rows, Unusable)
        conflicts == Conflicts(rows, bounded)
        Status(r) == IF rows[r].action = "SKIP" THEN "VALID"
                     ELSE IF rows[r].cells \in Unusable THEN "INVALID"
                     ELSE IF rows[r].cells # "CLEAR" \/ ~rows[r].here \/ ~open \/ r \in conflicts
                     THEN "NEEDS_REVIEW" ELSE "VALID"
    IN [r \in Rows |-> [rows[r] EXCEPT !.status = Status(r)]]
Previewed(rows) == Validated(rows, {"UNUSABLE"})
Revalidated(rows) == Validated(rows, {"UNUSABLE", "UNTIMED"})

--------------------------------------------------------------------------------
\* The upload.  Each step may be the last: the process may crash.
Reserve(b) ==
    /\ upload[b] = "NONE"
    /\ source' = [source EXCEPT ![b] = "PENDING"]
    /\ upload' = [upload EXCEPT ![b] = "PUT"]
    /\ UNCHANGED <<bookingVars, stored, batch, shown, receipts>>

\* putSource: an error does not tell whether the file was stored.
Put(b, arrived, answered) ==
    /\ upload[b] = "PUT" /\ (answered => arrived)
    /\ stored' = [stored EXCEPT ![b] = arrived]
    /\ upload' = [upload EXCEPT ![b] = IF answered THEN "SAVE" ELSE "CLEAN"]
    /\ UNCHANGED <<bookingVars, source, batch, shown, receipts>>

\* The file becomes READY with its batch; the answer of the commit may be lost.
Save(b, rows, answered) ==
    /\ upload[b] = "SAVE" /\ source[b] = "PENDING" /\ batch[b] = None
    /\ Created(rows) # {}
    /\ source' = [source EXCEPT ![b] = "READY"]
    /\ batch' = [batch EXCEPT ![b] = [status |-> "PREVIEW", version |-> 1, rows |-> Previewed(rows)]]
    /\ shown' = [shown EXCEPT ![b] = <<Previewed(rows)>>]
    /\ upload' = [upload EXCEPT ![b] = IF answered THEN "OVER" ELSE "CLEAN"]
    /\ UNCHANGED <<bookingVars, stored, receipts>>

\* The transaction is refused, or lost.
SaveFails(b) ==
    /\ upload[b] = "SAVE"
    /\ upload' = [upload EXCEPT ![b] = "CLEAN"]
    /\ UNCHANGED <<bookingVars, source, stored, batch, shown, receipts>>

\* cleanupFailedSource: a file that a batch uses after all is not touched.
\* Faulty variant: the answer is believed.
CleanableAsAnswered(b) == source[b] \in {"PENDING", "READY"}
Cleanable(b) == source[b] = "PENDING" /\ batch[b] = None
Clean(b) ==
    /\ upload[b] = "CLEAN"
    /\ source' = [source EXCEPT ![b] = IF Cleanable(b) THEN "FAILED" ELSE @]
    /\ upload' = [upload EXCEPT ![b] = IF Cleanable(b) THEN "DELETE" ELSE "OVER"]
    /\ UNCHANGED <<bookingVars, stored, batch, shown, receipts>>
DeleteSource(b, arrived) ==
    /\ upload[b] = "DELETE"
    /\ stored' = [stored EXCEPT ![b] = @ /\ ~arrived]
    /\ upload' = [upload EXCEPT ![b] = "OVER"]
    /\ UNCHANGED <<bookingVars, source, batch, shown, receipts>>
Crash(b) ==
    /\ upload[b] \notin {"NONE", "OVER"}
    /\ upload' = [upload EXCEPT ![b] = "OVER"]
    /\ UNCHANGED <<bookingVars, source, stored, batch, shown, receipts>>

--------------------------------------------------------------------------------
\* requirePreviewVersion.  Faulty variant: any preview.
AnyPreview(b, seen) ==
    batch[b] # None /\ batch[b].status = "PREVIEW" /\ seen <= batch[b].version
IsPreview(b, seen) ==
    /\ batch[b] # None /\ source[b] = "READY"
    /\ batch[b].status = "PREVIEW" /\ batch[b].version = seen
    /\ \A r \in Rows : batch[b].rows[r].stay = None

\* What a review makes of one row: skipped, or corrected as a whole.
Corrected(row, in, out, g) ==
    [row EXCEPT !.action = "CREATE", !.cells = "CLEAR", !.here = TRUE, !.in = in, !.out = out, !.guest = g]

Review(b, seen, edited) ==
    /\ IsPreview(b, seen) /\ seen < MaxReviews
    /\ batch' = [batch EXCEPT ![b].rows = Revalidated(edited), ![b].version = @ + 1]
    /\ shown' = [shown EXCEPT ![b] = Append(@, Revalidated(edited))]
    /\ UNCHANGED <<bookingVars, source, stored, upload, receipts>>

\* isReady, of the rows as they are validated now.
\* Faulty variant: as they were shown.
ReadyAsShown(rows) == \A r \in Created(rows) : rows[r].status = "VALID" /\ Valid(rows[r].in, rows[r].out)
ReadyNow(rows) ==
    \A r \in Created(rows) : Revalidated(rows)[r].status = "VALID" /\ Valid(rows[r].in, rows[r].out)

\* The reservation and the task that a row makes.
Imported(row) ==
    [status |-> "ACTIVE", in |-> row.in, out |-> row.out, guest |-> row.guest, revision |-> 1, turned |-> 0]
ImportedTask(row) == IF row.out >= Cutoff THEN NewTask(row.out, FALSE, 1) ELSE None

\* new: the reservations that the rows become.
Confirm(b, seen, new) ==
    LET rows == Revalidated(batch[b].rows)
        created == Created(rows)
        Of(s) == CHOOSE r \in created : new[r] = s
        made == {new[r] : r \in created}
    IN /\ IsPreview(b, seen) /\ ReadyNow(batch[b].rows)
       /\ IsInjective(new) /\ \A r \in created : ~Booked(new[r])
       /\ stay' = [s \in Stays |-> IF s \in made THEN Imported(rows[Of(s)]) ELSE stay[s]]
       /\ task' = [t \in Tasks |-> IF t \in made THEN ImportedTask(rows[Of(t)]) ELSE task[t]]
       /\ batch' = [batch EXCEPT ![b] =
             [status |-> "CONFIRMED", version |-> seen + 1,
              rows |-> [r \in Rows |-> IF r \in created THEN [rows[r] EXCEPT !.stay = new[r]] ELSE rows[r]]]]
       /\ receipts' = receipts \cup {[batch |-> b, seen |-> seen]}
       /\ UNCHANGED <<now, open, source, stored, upload, shown>>

\* A confirmed batch answers the version that was confirmed.
\* Faulty variant: any version that was shown.
AnsweredAny(b, seen) == seen < batch[b].version
Answered(b, seen) == seen = batch[b].version - 1
RepeatConfirm(b, seen) ==
    /\ batch[b] # None /\ batch[b].status = "CONFIRMED" /\ Answered(b, seen)
    /\ \A r \in Rows : (batch[b].rows[r].stay # None) = (batch[b].rows[r].action = "CREATE")
    /\ receipts' = receipts \cup {[batch |-> b, seen |-> seen]}
    /\ UNCHANGED <<bookingVars, source, stored, upload, batch, shown>>

--------------------------------------------------------------------------------
Init ==
    /\ BookingsInit
    /\ source = [b \in Batches |-> "NONE"]
    /\ stored = [b \in Batches |-> FALSE]
    /\ upload = [b \in Batches |-> "NONE"]
    /\ batch = [b \in Batches |-> None]
    /\ shown = [b \in Batches |-> <<>>]
    /\ receipts = {}

\* An edit of some rows.  A row that had no guest cannot be corrected.
Edits(row) ==
    {row, Skipped(row)} \cup
    {Corrected(row, p[1], p[2], g) : p \in {p \in Periods : p[1] < p[2]}, g \in Guests}

UploadStep(b) ==
    \/ Reserve(b)
    \/ \E arrived, answered \in BOOLEAN : Put(b, arrived, answered)
    \/ \E rows \in [Rows -> Roster], answered \in BOOLEAN : Save(b, rows, answered)
    \/ SaveFails(b) \/ Clean(b)
    \/ \E arrived \in BOOLEAN : DeleteSource(b, arrived)
    \/ Crash(b)

Shown(b) == 1 .. Len(shown[b])
ReviewStep(b) ==
    \E seen \in Shown(b), r \in Rows : \E row \in Edits(batch[b].rows[r]) :
        Review(b, seen, [batch[b].rows EXCEPT ![r] = row])
ConfirmStep(b) ==
    \E seen \in Shown(b) : \/ \E new \in [Created(batch[b].rows) -> Stays] : Confirm(b, seen, new)
                           \/ RepeatConfirm(b, seen)

Next ==
    \/ \E b \in Batches : UploadStep(b) \/ ReviewStep(b) \/ ConfirmStep(b)
    \/ BookingsNext /\ UNCHANGED importVars

Spec == Init /\ [][Next]_vars

--------------------------------------------------------------------------------
\* A batch's file is there as long as the batch: it is deleted only after a failure that left no
\* batch, however uncertain the answers of the upload were (cleanupFailedSource(), preview()).
SourceIsKept == \A b \in Batches : batch[b] # None => source[b] = "READY" /\ stored[b]

\* Whoever is told that a roster was registered had seen the rows that were, each of them that was
\* not skipped is one reservation, and no other row is one, however often and late the
\* confirmation was sent and whoever reviewed the roster meanwhile (confirm(), review()).
AsShown(row, seen) ==
    /\ <<row.action, row.in, row.out, row.guest>> = <<seen.action, seen.in, seen.out, seen.guest>>
    /\ (row.stay # None) = (row.action = "CREATE")
    /\ row.stay # None => /\ Booked(row.stay)
                          /\ stay[row.stay].revision = 1 =>
                                <<stay[row.stay].in, stay[row.stay].out>> = <<row.in, row.out>>
RegisteredAsShown ==
    /\ \A c \in receipts :
          /\ batch[c.batch].status = "CONFIRMED"
          /\ c.seen \in Shown(c.batch)
          /\ \A r \in Rows : AsShown(batch[c.batch].rows[r], shown[c.batch][c.seen][r])
    /\ \A b \in Batches : batch[b] # None /\ batch[b].status = "PREVIEW" =>
          \A r \in Rows : batch[b].rows[r].stay = None
    /\ \A b, d \in Batches, r, q \in Rows :
          /\ <<b, r>> # <<d, q>> /\ batch[b] # None /\ batch[d] # None
          => batch[b].rows[r].stay = None \/ batch[b].rows[r].stay # batch[d].rows[q].stay
================================================================================
