--------------------------- MODULE MaintenanceProofs ---------------------------
(***************************************************************************)
(* Proofs about Templates and Maintenance, for any properties, staff,      *)
(* checklists and bounds.                                                  *)
(*                                                                         *)
(* RowIsSound is what the list relies on without saying so: a draft has no *)
(* revision and no answers to other questions, anything else agrees with   *)
(* its latest revision field by field, and an author whose account was     *)
(* deactivated has no link left.  ArchiveIsSound names the two ends of an  *)
(* archive, and VisitedIsArchived what a running command has achieved.     *)
(***************************************************************************)
EXTENDS Maintenance, TLAPS, FiniteSetTheorems

--------------------------------------------------------------------------------
\* Types: one lemma for the templates, whose steps leave the rest alone, and one for the rest.
LEMMA AddTyped ==
    ASSUME NEW p \in Properties, NEW row \in Template, NEW source \in {"PUBLISHED", "BASELINE"},
           DOMAIN archive[p] \subseteq Nat \ {0}, Range(archive[p]) \subseteq Archived
    PROVE  /\ DOMAIN Add(p, row, source) = Versions(p) \cup {row.version}
           /\ DOMAIN Add(p, row, source) \subseteq Nat \ {0}
           /\ Range(Add(p, row, source)) \subseteq Archived
<1>1. row.version \in Nat \ {0} /\ row.definition \in Definitions /\ row.active \in BOOLEAN
    BY DEF Template
<1>2. [definition |-> row.definition, active |-> row.active, source |-> source] \in Archived
    BY <1>1 DEF Archived
<1>3. \A v \in Versions(p) : archive[p][v] \in Archived
    BY DEF Versions, Range
<1>4. \A v \in DOMAIN Add(p, row, source) : Add(p, row, source)[v] \in Archived
    BY <1>2, <1>3 DEF Add
<1> QED
    BY <1>1, <1>4 DEF Add, Versions, Range

\* The command visits templates that exist.
TemplatesInv == TemplatesTypeOK /\ backfill.todo \subseteq Made

LEMMA TodoStaysMade ==
    ASSUME TemplatesInv, TemplatesNext
    PROVE  backfill'.todo \subseteq Made'
<1>1. Made \subseteq Made'
    <2>1. \A p \in Properties, d \in Definitions, a \in BOOLEAN :
             New(d) # None /\ (template[p] # None => Changed(p, d, a) # None)
        <3>1. \A p \in Properties : template[p] # None => template[p].version + 1 \in Nat
            BY DEF TemplatesInv, TemplatesTypeOK, Template
        <3> DEFINE Row == [version: Nat, definition: Definitions, active: BOOLEAN]
        <3>2. \A d \in Definitions : New(d) \in Row
            BY DEF New
        <3>3. \A p \in Properties, d \in Definitions, a \in BOOLEAN : template[p] # None => Changed(p, d, a) \in Row
            BY <3>1 DEF Changed
        <3> QED BY <3>2, <3>3, NoneIsNoTemplate
    <2>2. \/ UNCHANGED template
          \/ \E p \in Properties : \E row : row # None /\ template' = [template EXCEPT ![p] = row]
        BY <2>1 DEF TemplatesNext, CreateTemplate, UpdateTemplate, PublishUnarchived, StopLegacy, BeginBackfill,
               InspectTemplate, ArchiveTemplate, EndPhase, BackfillStops
    <2> QED BY <2>2 DEF TemplatesInv, TemplatesTypeOK, Made
<1>2. backfill'.todo \subseteq backfill.todo \/ backfill'.todo = Made
    <2>1. backfill \in Backfill
        BY DEF TemplatesInv, TemplatesTypeOK
    <2>2. \A p \in Properties : [backfill EXCEPT !.todo = @ \ {p}].todo = backfill.todo \ {p}
        BY <2>1 DEF Backfill
    <2>3. \A x \in {"failed", "complete"} : [backfill EXCEPT !.phase = x].todo = backfill.todo
        BY <2>1 DEF Backfill
    <2>4. [backfill EXCEPT !.phase = "apply", !.todo = Made].todo = Made
        BY <2>1 DEF Backfill
    <2>5. \/ UNCHANGED backfill
          \/ \E p \in Properties : backfill' = [backfill EXCEPT !.todo = @ \ {p}]
          \/ \E x \in {"failed", "complete"} : backfill' = [backfill EXCEPT !.phase = x]
          \/ backfill' = [backfill EXCEPT !.phase = "apply", !.todo = Made]
          \/ \E apply \in BOOLEAN : BeginBackfill(apply)
        BY DEF TemplatesNext, CreateTemplate, UpdateTemplate, PublishUnarchived, StopLegacy,
               InspectTemplate, ArchiveTemplate, EndPhase, BackfillStops
    <2>6. (\E apply \in BOOLEAN : BeginBackfill(apply)) => backfill'.todo = Made
        BY DEF BeginBackfill
    <2> QED BY <2>2, <2>3, <2>4, <2>5, <2>6
<1> QED BY <1>1, <1>2 DEF TemplatesInv

LEMMA TemplatesTyped ==
    ASSUME TemplatesInv, TemplatesNext
    PROVE  TemplatesInv'
<1> USE MaxVersionIsNat
<1> USE DEF TemplatesInv
<1>1. \A p \in Properties : template[p] # None => template[p] \in Template
    BY DEF TemplatesTypeOK
<1>2. \A d \in Definitions : New(d) \in Template
    BY DEF New, Template
<1>3. ASSUME NEW p \in Properties, NEW d \in Definitions, NEW a \in BOOLEAN, template[p] # None
      PROVE  Changed(p, d, a) \in Template
    <2>1. template[p].version + 1 \in Nat \ {0}
        BY <1>1, <1>3 DEF Template
    <2> QED BY <2>1 DEF Changed, Template
\* A step that archives row for p.
<1>4. ASSUME NEW p \in Properties, NEW row \in Template, NEW source \in {"PUBLISHED", "BASELINE"},
             archive' = [archive EXCEPT ![p] = Add(p, row, source)]
      PROVE  /\ DOMAIN archive' = Properties
             /\ \A q \in Properties : DOMAIN archive'[q] \subseteq Nat \ {0} /\ Range(archive'[q]) \subseteq Archived
    <2>1. /\ DOMAIN Add(p, row, source) \subseteq Nat \ {0}
          /\ Range(Add(p, row, source)) \subseteq Archived
        BY AddTyped DEF TemplatesTypeOK
    <2>2. DOMAIN archive = Properties
        BY DEF TemplatesTypeOK
    <2>3. archive'[p] = Add(p, row, source) /\ \A q \in Properties \ {p} : archive'[q] = archive[q]
        BY <1>4, <2>2
    <2> QED BY <1>4, <2>1, <2>2, <2>3 DEF TemplatesTypeOK
<1>5. ASSUME UNCHANGED archive
      PROVE  /\ DOMAIN archive' = Properties
             /\ \A q \in Properties : DOMAIN archive'[q] \subseteq Nat \ {0} /\ Range(archive'[q]) \subseteq Archived
    BY <1>5 DEF TemplatesTypeOK
<1>6. ASSUME NEW p \in Properties, NEW d \in Definitions, CreateTemplate(p, d)
      PROVE  TemplatesTypeOK'
    <2>1. New(d) \in Template BY <1>2
    <2> QED BY <1>4, <1>6, <2>1 DEF CreateTemplate, TemplatesTypeOK
<1>7. ASSUME NEW p \in Properties, NEW d \in Definitions, NEW a \in BOOLEAN, UpdateTemplate(p, d, a)
      PROVE  TemplatesTypeOK'
    <2>1. Changed(p, d, a) \in Template BY <1>3, <1>7 DEF UpdateTemplate
    <2> QED BY <1>4, <1>7, <2>1 DEF UpdateTemplate, TemplatesTypeOK
<1>8. ASSUME NEW p \in Properties, NEW d \in Definitions, NEW a \in BOOLEAN, PublishUnarchived(p, d, a)
      PROVE  TemplatesTypeOK'
    BY <1>2, <1>3, <1>5, <1>8 DEF PublishUnarchived, TemplatesTypeOK
<1>9. ASSUME StopLegacy PROVE TemplatesTypeOK'
    BY <1>5, <1>9 DEF StopLegacy, TemplatesTypeOK
<1>10. Made \subseteq Properties
    BY DEF Made
<1>11. ASSUME NEW apply \in BOOLEAN, BeginBackfill(apply) PROVE TemplatesTypeOK'
    BY <1>5, <1>10, <1>11 DEF BeginBackfill, TemplatesTypeOK, Backfill, Phases
<1>12. ASSUME NEW p \in Properties, InspectTemplate(p) PROVE TemplatesTypeOK'
    BY <1>5, <1>12 DEF InspectTemplate, TemplatesTypeOK, Backfill, Phases
<1>13. ASSUME NEW p \in Properties, ArchiveTemplate(p) PROVE TemplatesTypeOK'
    <2>1. backfill' \in Backfill
        BY <1>13 DEF ArchiveTemplate, TemplatesTypeOK, Backfill, Phases
    <2>2. CASE NeedsBaseline(p) /\ archive' = [archive EXCEPT ![p] = Add(p, template[p], "BASELINE")]
        BY <1>1, <1>4, <1>13, <2>1, <2>2 DEF ArchiveTemplate, TemplatesTypeOK, Made
    <2>3. CASE UNCHANGED archive
        BY <1>5, <1>13, <2>1, <2>3 DEF ArchiveTemplate, TemplatesTypeOK
    <2> QED BY <1>13, <2>2, <2>3 DEF ArchiveTemplate
<1>14. ASSUME EndPhase PROVE TemplatesTypeOK'
    BY <1>5, <1>10, <1>14 DEF EndPhase, TemplatesTypeOK, Backfill, Phases
<1>15. ASSUME BackfillStops PROVE TemplatesTypeOK'
    BY <1>5, <1>15 DEF BackfillStops, TemplatesTypeOK, Backfill, Phases
<1>16. TemplatesTypeOK'
    BY <1>6, <1>7, <1>8, <1>9, <1>11, <1>12, <1>13, <1>14, <1>15 DEF TemplatesNext
<1> QED BY <1>16, TodoStaysMade

LEMMA InitTyped == Init => MaintenanceTypeOK
<1> SUFFICES ASSUME Init PROVE MaintenanceTypeOK
    OBVIOUS
<1>1. template \in [Properties -> Template \cup {None}]
    <2>1. template \in [Properties -> [version: 1 .. 1, definition: Definitions, active: {TRUE}] \cup {None}]
        BY DEF Init, TemplatesInit
    <2>2. [version: 1 .. 1, definition: Definitions, active: {TRUE}] \subseteq Template
        <3> SUFFICES ASSUME NEW r \in [version: 1 .. 1, definition: Definitions, active: {TRUE}]
                     PROVE  r \in Template
            OBVIOUS
        <3>1. r.version \in 1 .. 1 /\ r.definition \in Definitions
            OBVIOUS
        <3>2. r.active \in {TRUE}
            OBVIOUS
        <3>3. r.active \in BOOLEAN
            BY <3>2
        <3>4. r.version \in Nat \ {0}
            BY <3>1
        <3> QED BY <3>1, <3>3, <3>4 DEF Template
    <2> QED BY <2>1, <2>2
<1>2. \A p \in Properties : DOMAIN archive[p] = {} /\ Range(archive[p]) = {}
    BY DEF Init, TemplatesInit, Range
<1>3. backfill \in Backfill
    BY DEF Init, TemplatesInit, Backfill, Phases
<1> QED BY <1>1, <1>2, <1>3 DEF Init, TemplatesInit, MaintenanceTypeOK, TemplatesTypeOK

LEMMA NewSheetTyped ==
    ASSUME MaintenanceTypeOK, NEW p \in Properties, NEW w \in Staff, template[p] # None
    PROVE  NewSheet(p, w) \in Sheet
<1>1. template[p] \in Template
    BY DEF MaintenanceTypeOK, TemplatesTypeOK
<1>2. template[p].version \in Nat /\ template[p].definition \in Definitions
    BY <1>1 DEF Template
<1> QED BY <1>2 DEF NewSheet, Sheet

\* Every field of s with another revision.
LEMMA RevisedFields ==
    ASSUME MaintenanceTypeOK, NEW s \in Sheets, Begun(s),
           NEW status \in {"SUBMITTED", "CANCELLED"}, NEW answers \in Definitions
    PROVE  LET row == Revised(s, status, answers)
           IN /\ row \in Sheet
              /\ row.property = On(s) /\ row.author = sheet[s].author /\ row.link = sheet[s].link
              /\ row.definition = sheet[s].definition /\ row.answers = sheet[s].answers
              /\ row.status = status /\ row.revision = sheet[s].revision + 1 /\ row.updated = sheet[s].updated + 1
              /\ row.head = [version |-> row.revision, status |-> status, updated |-> row.updated, answers |-> answers]
              /\ row.head # None
<1>1. sheet[s] \in Sheet
    BY DEF MaintenanceTypeOK, Begun
<1>2. sheet[s].revision + 1 \in Nat /\ sheet[s].updated + 1 \in Nat
    BY <1>1 DEF Sheet
<1> DEFINE head == [version |-> sheet[s].revision + 1, status |-> status,
                    updated |-> sheet[s].updated + 1, answers |-> answers]
<1>3. head \in Head /\ head # None
    BY <1>2, NoneIsNoRow DEF Head
<1>4. Revised(s, status, answers) = [sheet[s] EXCEPT !.status = status, !.revision = @ + 1, !.updated = @ + 1, !.head = head]
    BY DEF Revised
<1> HIDE DEF head
<1>5. Revised(s, status, answers).head = head
    BY <1>1, <1>4 DEF Sheet
<1>6. Revised(s, status, answers) \in Sheet
    BY <1>1, <1>2, <1>3, <1>4 DEF Sheet
<1>7. LET row == Revised(s, status, answers)
      IN /\ row.property = On(s) /\ row.author = sheet[s].author /\ row.link = sheet[s].link
         /\ row.definition = sheet[s].definition /\ row.answers = sheet[s].answers
         /\ row.status = status /\ row.revision = sheet[s].revision + 1 /\ row.updated = sheet[s].updated + 1
    BY <1>1, <1>4 DEF Sheet, On
<1> QED BY <1>3, <1>5, <1>6, <1>7 DEF head

LEMMA RevokedFields ==
    ASSUME MaintenanceTypeOK, NEW w \in Staff, NEW s \in Sheets
    PROVE  /\ Revoked(w)[s] \in Sheet \cup {None}
           /\ ~Begun(s) => Revoked(w)[s] = sheet[s]
           /\ Begun(s) => /\ Revoked(w)[s] \in Sheet
                          /\ Revoked(w)[s] = [sheet[s] EXCEPT !.link = @ /\ sheet[s].author # w]
<1>1. Begun(s) => sheet[s] \in Sheet
    BY DEF MaintenanceTypeOK, Begun
<1>2. CASE Begun(s) /\ sheet[s].author = w
    <2>1. Revoked(w)[s] = [sheet[s] EXCEPT !.link = FALSE]
        BY <1>2 DEF Revoked
    <2>2. [sheet[s] EXCEPT !.link = @ /\ sheet[s].author # w] = [sheet[s] EXCEPT !.link = FALSE]
        BY <1>2
    <2> QED BY <1>1, <1>2, <2>1, <2>2 DEF Sheet
<1>3. CASE ~Begun(s)
    BY <1>3 DEF Revoked, MaintenanceTypeOK
<1>4. CASE Begun(s) /\ sheet[s].author # w
    <2>1. Revoked(w)[s] = sheet[s]
        BY <1>4 DEF Revoked
    <2>2. sheet[s].link \in BOOLEAN /\ sheet[s].link = (sheet[s].link /\ sheet[s].author # w)
        BY <1>1, <1>4 DEF Sheet
    <2>3. [sheet[s] EXCEPT !.link = @ /\ sheet[s].author # w] = sheet[s]
        BY <1>1, <1>4, <2>2 DEF Sheet
    <2> QED BY <1>1, <1>4, <2>1, <2>3
<1> QED BY <1>2, <1>3, <1>4

--------------------------------------------------------------------------------
RowIsSound(row) ==
    /\ row.status = "DRAFT" => row.revision = 0 /\ row.head = None /\ row.answers \in {None, row.definition}
    /\ row.status # "DRAFT" =>
          /\ row.head # None /\ row.head.version = row.revision /\ row.head.status = row.status
          /\ row.head.updated = row.updated /\ row.head.answers = row.definition
    /\ row.author \notin active => ~row.link

SheetInv == \A s \in Sheets : Begun(s) => RowIsSound(sheet[s])
MInv == MaintenanceTypeOK /\ TemplatesInv /\ SheetInv

LEMMA InitMInv == Init => MInv
<1> SUFFICES ASSUME Init PROVE MInv
    OBVIOUS
<1>1. backfill.todo = {} /\ \A s \in Sheets : ~Begun(s)
    BY DEF Init, TemplatesInit, Begun
<1> QED BY <1>1, InitTyped DEF MInv, MaintenanceTypeOK, TemplatesInv, SheetInv

\* A step that writes one sound row and nothing else.
LEMMA OneRow ==
    ASSUME MInv, NEW s \in Sheets, NEW row \in Sheet, RowIsSound(row),
           sheet' = [sheet EXCEPT ![s] = row], UNCHANGED <<templateVars, staffVars>>
    PROVE  MInv'
<1>1. TemplatesInv'
    BY DEF MInv, MaintenanceTypeOK, TemplatesTypeOK, TemplatesInv, Made, templateVars
<1>2. MaintenanceTypeOK'
    BY <1>1 DEF MInv, MaintenanceTypeOK, TemplatesInv, staffVars
<1>3. ASSUME NEW r \in Sheets, Begun(r)' PROVE RowIsSound(sheet[r])'
    <2>1. CASE r = s
        <3>1. sheet'[r] = row
            BY <2>1 DEF MInv, MaintenanceTypeOK, TemplatesInv
        <3> QED BY <3>1 DEF RowIsSound, staffVars
    <2>2. CASE r # s
        <3>1. sheet'[r] = sheet[r]
            BY <2>2 DEF MInv, MaintenanceTypeOK, TemplatesInv
        <3> QED BY <1>3, <3>1 DEF MInv, SheetInv, RowIsSound, Begun, staffVars
    <2> QED BY <2>1, <2>2
<1> QED BY <1>1, <1>2, <1>3 DEF MInv, SheetInv

\* A revision with the answers that the checklist was begun for is sound.
LEMMA RevisedIsSound ==
    ASSUME MInv, NEW s \in Sheets, Begun(s), NEW status \in {"SUBMITTED", "CANCELLED"},
           NEW answers, answers = sheet[s].definition
    PROVE  Revised(s, status, answers) \in Sheet /\ RowIsSound(Revised(s, status, answers))
<1>1. sheet[s] \in Sheet /\ RowIsSound(sheet[s])
    BY DEF MInv, MaintenanceTypeOK, TemplatesInv, SheetInv, Begun
<1>2. answers \in Definitions
    BY <1>1 DEF Sheet
<1> DEFINE row == Revised(s, status, answers)
<1>3. /\ row \in Sheet /\ row.author = sheet[s].author /\ row.link = sheet[s].link
      /\ row.definition = sheet[s].definition /\ row.status = status /\ row.head # None
      /\ row.head = [version |-> row.revision, status |-> status, updated |-> row.updated, answers |-> answers]
    BY <1>2, RevisedFields DEF MInv
<1> HIDE DEF row
<1>4. /\ row.head.version = row.revision /\ row.head.status = row.status
      /\ row.head.updated = row.updated /\ row.head.answers = row.definition
    BY <1>3
<1>5. row.author \notin active => ~row.link
    BY <1>1, <1>3 DEF RowIsSound
<1>6. row.status # "DRAFT"
    BY <1>3
<1>7. RowIsSound(row)
    BY <1>3, <1>4, <1>5, <1>6 DEF RowIsSound
<1> QED BY <1>3, <1>7 DEF row

LEMMA NextMInv ==
    ASSUME MInv, Next
    PROVE  MInv'
<1>1. \A s \in Sheets : Begun(s) => sheet[s] \in Sheet /\ RowIsSound(sheet[s])
    BY DEF MInv, MaintenanceTypeOK, TemplatesInv, SheetInv, Begun
<1>2. CASE TemplatesNext /\ UNCHANGED <<staffVars, sheet>>
    <2>1. TemplatesInv'
        BY <1>2, TemplatesTyped DEF MInv
    <2> QED BY <1>2, <2>1 DEF MInv, MaintenanceTypeOK, TemplatesInv, SheetInv, RowIsSound, Begun, staffVars
<1>3. ASSUME NEW s \in Sheets, NEW p \in Properties, NEW w \in Staff, StartSheet(s, p, w)
      PROVE  MInv'
    <2>1. NewSheet(p, w) \in Sheet
        BY <1>3, NewSheetTyped DEF MInv, StartSheet
    <2>2. w \in active
        BY <1>3, NoneIsNoRow DEF StartSheet, Assigned
    <2>3. RowIsSound(NewSheet(p, w))
        BY <2>2 DEF RowIsSound, NewSheet
    <2>4. sheet' = [sheet EXCEPT ![s] = NewSheet(p, w)] /\ UNCHANGED <<templateVars, staffVars>>
        BY <1>3 DEF StartSheet
    <2> QED BY <2>1, <2>3, <2>4, OneRow
<1>4. ASSUME NEW s \in Sheets, SaveSheet(s)
      PROVE  MInv'
    <2>1. Begun(s) /\ sheet[s] \in Sheet /\ RowIsSound(sheet[s])
        BY <1>1, <1>4 DEF SaveSheet, Opens
    <2> DEFINE row == [sheet[s] EXCEPT !.answers = sheet[s].definition, !.updated = @ + 1]
    <2>2. sheet' = [sheet EXCEPT ![s] = row]
        BY <1>4 DEF SaveSheet, Asked, MInv, MaintenanceTypeOK, TemplatesInv
    <2>3. sheet[s].updated + 1 \in Nat
        BY <2>1 DEF Sheet
    <2>4. row \in Sheet
        BY <2>1, <2>3 DEF Sheet
    <2>5. RowIsSound(row)
        BY <1>4, <2>1 DEF RowIsSound, Sheet, SaveSheet
    <2>6. UNCHANGED <<templateVars, staffVars>>
        BY <1>4 DEF SaveSheet
    <2> HIDE DEF row
    <2> QED BY <2>2, <2>4, <2>5, <2>6, OneRow
<1>5. ASSUME NEW s \in Sheets, SubmitSheet(s)
      PROVE  MInv'
    <2>1. Begun(s)
        BY <1>5 DEF SubmitSheet, Opens
    <2>2. /\ sheet' = [sheet EXCEPT ![s] = Revised(s, "SUBMITTED", sheet[s].answers)]
          /\ sheet[s].answers = sheet[s].definition /\ UNCHANGED <<templateVars, staffVars>>
        BY <1>5 DEF SubmitSheet
    <2>3. Revised(s, "SUBMITTED", sheet[s].answers) \in Sheet /\ RowIsSound(Revised(s, "SUBMITTED", sheet[s].answers))
        BY <2>1, <2>2, RevisedIsSound
    <2> QED BY <2>2, <2>3, OneRow
<1>6. ASSUME NEW s \in Sheets, CorrectSheet(s)
      PROVE  MInv'
    <2>1. /\ sheet' = [sheet EXCEPT ![s] = Revised(s, "SUBMITTED", sheet[s].definition)]
          /\ Begun(s) /\ UNCHANGED <<templateVars, staffVars>>
        BY <1>6 DEF CorrectSheet
    <2>2. Revised(s, "SUBMITTED", sheet[s].definition) \in Sheet /\ RowIsSound(Revised(s, "SUBMITTED", sheet[s].definition))
        BY <2>1, RevisedIsSound
    <2> QED BY <2>1, <2>2, OneRow
<1>7. ASSUME NEW s \in Sheets, ChangeSheetStatus(s)
      PROVE  MInv'
    <2>1. PICK status \in {"SUBMITTED", "CANCELLED"} :
             sheet' = [sheet EXCEPT ![s] = Revised(s, status, sheet[s].head.answers)]
        BY <1>7 DEF ChangeSheetStatus
    <2>2. Begun(s) /\ sheet[s].status # "DRAFT" /\ UNCHANGED <<templateVars, staffVars>>
        BY <1>7 DEF ChangeSheetStatus
    <2>3. sheet[s].head.answers = sheet[s].definition
        BY <1>1, <2>2 DEF RowIsSound
    <2>4. Revised(s, status, sheet[s].head.answers) \in Sheet /\ RowIsSound(Revised(s, status, sheet[s].head.answers))
        BY <2>2, <2>3, RevisedIsSound
    <2> QED BY <2>1, <2>2, <2>4, OneRow
<1>8. ASSUME NEW s \in Sheets, Expire(s)
      PROVE  MInv'
    <2>1. Begun(s) /\ sheet[s] \in Sheet /\ RowIsSound(sheet[s])
        BY <1>1, <1>8 DEF Expire
    <2> DEFINE row == [sheet[s] EXCEPT !.expired = TRUE]
    <2>2. sheet' = [sheet EXCEPT ![s] = row] /\ UNCHANGED <<templateVars, staffVars>>
        BY <1>8 DEF Expire, MInv, MaintenanceTypeOK, TemplatesInv
    <2>3. row \in Sheet
        BY <2>1 DEF Sheet
    <2>4. RowIsSound(row)
        BY <2>1 DEF RowIsSound, Sheet
    <2> HIDE DEF row
    <2> QED BY <2>2, <2>3, <2>4, OneRow
\* Steps that leave the checklists and the accounts alone.
<1>9. ASSUME UNCHANGED <<sheet, active>>, TemplatesInv', staff' \in [Properties -> Staff \cup {None}], issued' \subseteq Properties
      PROVE  MInv'
    BY <1>9 DEF MInv, MaintenanceTypeOK, TemplatesInv, SheetInv, RowIsSound, Begun
<1>10. ASSUME UNCHANGED templateVars PROVE TemplatesInv'
    BY <1>10 DEF MInv, MaintenanceTypeOK, TemplatesTypeOK, TemplatesInv, Made, templateVars
<1>11. ASSUME NEW p \in Properties, NEW w \in Staff \cup {None}, AssignStaff(p, w)
       PROVE  MInv'
    <2>1. TemplatesInv'
        BY <1>10, <1>11 DEF AssignStaff
    <2> QED BY <1>9, <1>11, <2>1 DEF AssignStaff, MInv, MaintenanceTypeOK, TemplatesInv
<1>12. ASSUME NEW p \in Properties, RotatePropertyQr(p)
       PROVE  MInv'
    <2>1. TemplatesInv'
        BY <1>10, <1>12 DEF RotatePropertyQr
    <2> QED BY <1>9, <1>12, <2>1 DEF RotatePropertyQr, MInv, MaintenanceTypeOK, TemplatesInv
<1>13. ASSUME NEW p \in Properties, ChangeOperation(p)
       PROVE  MInv'
    <2>1. TemplatesInv'
        BY <1>13 DEF ChangeOperation, MInv, MaintenanceTypeOK, TemplatesTypeOK, TemplatesInv, Made
    <2> QED BY <1>9, <1>13, <2>1 DEF ChangeOperation, staffVars, MInv, MaintenanceTypeOK, TemplatesInv
<1>14. ASSUME NEW w \in Staff, NEW successor \in [Properties -> Staff \cup {None}], Deactivate(w, successor)
       PROVE  MInv'
    <2>1. TemplatesInv'
        BY <1>10, <1>14 DEF Deactivate
    <2>2. staff' \in [Properties -> Staff \cup {None}] /\ active' \subseteq Staff /\ issued' \subseteq Properties
        BY <1>14 DEF Deactivate, MInv, MaintenanceTypeOK, TemplatesInv
    <2>3. sheet' = Revoked(w) /\ active' = active \ {w}
        BY <1>14 DEF Deactivate
    <2>4. \A s \in Sheets : /\ sheet'[s] \in Sheet \cup {None}
                            /\ ~Begun(s) => sheet'[s] = sheet[s]
                            /\ Begun(s) => sheet'[s] = [sheet[s] EXCEPT !.link = @ /\ sheet[s].author # w]
        BY <2>3, RevokedFields DEF MInv
    <2>5. sheet' \in [Sheets -> Sheet \cup {None}]
        <3>1. sheet' = [s \in Sheets |-> sheet'[s]]
            BY <2>3 DEF Revoked
        <3> QED BY <2>4, <3>1
    <2>6. ASSUME NEW s \in Sheets, Begun(s)' PROVE RowIsSound(sheet[s])'
        <3>1. Begun(s)
            BY <2>4, <2>6 DEF Begun
        <3>2. sheet[s] \in Sheet /\ RowIsSound(sheet[s])
            BY <1>1, <3>1
        <3>3. sheet'[s] = [sheet[s] EXCEPT !.link = @ /\ sheet[s].author # w]
            BY <2>4, <3>1
        <3>4. /\ sheet'[s].status = sheet[s].status /\ sheet'[s].revision = sheet[s].revision
              /\ sheet'[s].head = sheet[s].head /\ sheet'[s].answers = sheet[s].answers
              /\ sheet'[s].definition = sheet[s].definition /\ sheet'[s].updated = sheet[s].updated
              /\ sheet'[s].author = sheet[s].author
            BY <3>2, <3>3 DEF Sheet
        <3>5. sheet'[s].link = (sheet[s].link /\ sheet[s].author # w)
            BY <3>2, <3>3 DEF Sheet
        <3>6. sheet'[s].author \notin active' => ~sheet'[s].link
            BY <2>3, <3>2, <3>4, <3>5 DEF RowIsSound
        <3> QED BY <3>2, <3>4, <3>6 DEF RowIsSound
    <2> QED BY <2>1, <2>2, <2>5, <2>6 DEF MInv, MaintenanceTypeOK, TemplatesInv, SheetInv
<1>15. ASSUME NEW w \in Staff, Activate(w)
       PROVE  MInv'
    <2>1. TemplatesInv'
        BY <1>10, <1>15 DEF Activate
    <2>2. \A s \in Sheets : Begun(s)' => RowIsSound(sheet[s])'
        BY <1>15 DEF Activate, MInv, SheetInv, RowIsSound, Begun
    <2> QED BY <1>15, <2>1, <2>2 DEF Activate, MInv, MaintenanceTypeOK, TemplatesInv, SheetInv
<1> QED BY <1>2, <1>3, <1>4, <1>5, <1>6, <1>7, <1>8, <1>11, <1>12, <1>13, <1>14, <1>15 DEF Next

LEMMA SpecMInv == Spec => []MInv
<1>1. MInv /\ UNCHANGED vars => MInv'
    BY DEF MInv, MaintenanceTypeOK, TemplatesTypeOK, TemplatesInv, Made, SheetInv, RowIsSound, Begun, vars, templateVars, staffVars
<1>2. MInv /\ [Next]_vars => MInv'
    BY <1>1, NextMInv
<1> QED BY InitMInv, <1>2, PTL DEF Spec

--------------------------------------------------------------------------------
\* The archive of p is an interval that ends at or before the current version.
ArchiveIsSound(p) ==
    Versions(p) # {} => \E lo, hi \in Nat \ {0} :
        /\ lo <= hi /\ Versions(p) = lo .. hi
        /\ template[p] # None /\ hi <= template[p].version
        /\ \A v \in Versions(p) : archive[p][v].source = "BASELINE" => v = lo
        /\ lo = 1 \/ archive[p][lo].source = "BASELINE"
        /\ hi = template[p].version =>
              archive[p][hi].definition = template[p].definition /\ archive[p][hi].active = template[p].active

\* What the command has visited while it archives is archived, if nobody publishes without.
VisitedIsArchived ==
    /\ backfill.alone => ~legacy
    /\ backfill.phase = "complete" => backfill.todo = {}
    /\ backfill.phase \in {"apply", "complete"} /\ backfill.apply /\ backfill.alone =>
          \A p \in Made \ backfill.todo : ArchivedCurrent(p)

ArchiveInv == (\A p \in Properties : ArchiveIsSound(p)) /\ VisitedIsArchived

LEMMA InitArchiveInv == Init => ArchiveInv
BY DEF Init, TemplatesInit, ArchiveInv, ArchiveIsSound, VisitedIsArchived, Versions

\* The archive and the template of q are what they were.
LEMMA SoundStays ==
    ASSUME NEW q \in Properties, ArchiveIsSound(q), archive'[q] = archive[q], template'[q] = template[q]
    PROVE  ArchiveIsSound(q)'
BY DEF ArchiveIsSound, Versions

\* A step that makes row the current version of p and archives it, or archives what is current.
LEMMA AddedIsSound ==
    ASSUME TemplatesInv, NEW p \in Properties, ArchiveIsSound(p), NEW row \in Template,
           NEW source \in {"PUBLISHED", "BASELINE"},
           archive'[p] = Add(p, row, source), template'[p] = row,
           \/ Versions(p) = {} /\ (row.version = 1 \/ source = "BASELINE")
           \/ /\ template[p] # None /\ ArchivedCurrent(p)
              /\ row.version = template[p].version + 1 /\ source = "PUBLISHED"
    PROVE  ArchiveIsSound(p)' /\ ArchivedCurrent(p)'
<1>1. row.version \in Nat \ {0} /\ row # None
    BY NoneIsNoTemplate DEF Template
<1>2. archive'[p][row.version] = [definition |-> row.definition, active |-> row.active, source |-> source]
    BY DEF Add
<1>3. \A v \in Versions(p) \ {row.version} : archive'[p][v] = archive[p][v]
    BY DEF Add
<1>4. Versions(p)' = Versions(p) \cup {row.version}
    BY DEF Add, Versions
<1>5. ArchivedCurrent(p)'
    BY <1>4 DEF ArchivedCurrent
<1>6. CASE Versions(p) = {} /\ (row.version = 1 \/ source = "BASELINE")
    <2>1. Versions(p)' = row.version .. row.version
        BY <1>1, <1>4, <1>6
    <2> QED BY <1>1, <1>2, <1>5, <1>6, <2>1 DEF ArchiveIsSound
<1>7. CASE /\ template[p] # None /\ ArchivedCurrent(p)
           /\ row.version = template[p].version + 1 /\ source = "PUBLISHED"
    <2>1. template[p].version \in Nat \ {0}
        BY <1>7 DEF TemplatesInv, TemplatesTypeOK, Template
    <2>2. PICK lo, hi \in Nat \ {0} :
             /\ lo <= hi /\ Versions(p) = lo .. hi /\ hi <= template[p].version
             /\ \A v \in Versions(p) : archive[p][v].source = "BASELINE" => v = lo
             /\ lo = 1 \/ archive[p][lo].source = "BASELINE"
        BY <1>7 DEF ArchiveIsSound, ArchivedCurrent
    <2>3. hi = template[p].version
        BY <1>7, <2>1, <2>2 DEF ArchivedCurrent
    <2>4. Versions(p)' = lo .. row.version /\ lo <= row.version
        BY <1>1, <1>4, <1>7, <2>1, <2>2, <2>3
    <2>5. archive'[p][lo] = archive[p][lo]
        BY <1>3, <1>7, <2>1, <2>2, <2>3
    <2>6. \A v \in Versions(p)' : archive'[p][v].source = "BASELINE" => v = lo
        BY <1>2, <1>3, <1>4, <1>7, <2>2
    <2> QED BY <1>1, <1>2, <1>5, <2>2, <2>4, <2>5, <2>6 DEF ArchiveIsSound
<1> QED BY <1>6, <1>7

LEMMA NextArchiveInv ==
    ASSUME TemplatesInv, ArchiveInv, TemplatesNext
    PROVE  ArchiveInv'
<1>1. /\ template \in [Properties -> Template \cup {None}] /\ DOMAIN archive = Properties
      /\ backfill \in Backfill
    BY DEF TemplatesInv, TemplatesTypeOK
<1>2. \A q \in Properties : ArchiveIsSound(q)
    BY DEF ArchiveInv
\* An edit of p that archives it, whatever the command is doing.
<1>3. ASSUME NEW p \in Properties, NEW row \in Template,
             template' = [template EXCEPT ![p] = row], archive' = [archive EXCEPT ![p] = Add(p, row, "PUBLISHED")],
             UNCHANGED <<legacy, backfill>>,
             \/ template[p] = None /\ row.version = 1
             \/ template[p] # None /\ ArchivedCurrent(p) /\ row.version = template[p].version + 1
      PROVE  ArchiveInv'
    <2>1. template[p] = None => Versions(p) = {}
        BY <1>2 DEF ArchiveIsSound
    <2>2. archive'[p] = Add(p, row, "PUBLISHED") /\ template'[p] = row
        BY <1>1, <1>3
    <2>3. ArchiveIsSound(p)' /\ ArchivedCurrent(p)'
        BY <1>2, <1>3, <2>1, <2>2, AddedIsSound
    <2>4. \A q \in Properties \ {p} : archive'[q] = archive[q] /\ template'[q] = template[q]
        BY <1>1, <1>3
    <2>5. \A q \in Properties : ArchiveIsSound(q)'
        BY <1>2, <2>3, <2>4, SoundStays
    <2>6. \A q \in Properties \ {p} : (q \in Made' <=> q \in Made) /\ (ArchivedCurrent(q)' <=> ArchivedCurrent(q))
        BY <2>4 DEF Made, ArchivedCurrent, Versions
    <2>7. VisitedIsArchived'
        BY <1>3, <2>3, <2>6 DEF ArchiveInv, VisitedIsArchived, Made
    <2> QED BY <2>5, <2>7 DEF ArchiveInv
<1>4. \A d \in Definitions, a \in BOOLEAN, p \in Properties :
         New(d) \in Template /\ (template[p] # None => Changed(p, d, a) \in Template)
    <2>1. \A p \in Properties : template[p] # None => template[p].version + 1 \in Nat \ {0}
        BY <1>1 DEF Template
    <2> QED BY <2>1 DEF New, Changed, Template
<1>5. ASSUME NEW p \in Properties, NEW d \in Definitions, CreateTemplate(p, d) PROVE ArchiveInv'
    <2>1. New(d) \in Template /\ New(d).version = 1
        BY <1>4 DEF New
    <2> QED BY <1>3, <1>5, <2>1 DEF CreateTemplate
<1>6. ASSUME NEW p \in Properties, NEW d \in Definitions, NEW a \in BOOLEAN, UpdateTemplate(p, d, a)
      PROVE  ArchiveInv'
    <2>1. Changed(p, d, a) \in Template /\ Changed(p, d, a).version = template[p].version + 1
        BY <1>4, <1>6 DEF Changed, UpdateTemplate
    <2> QED BY <1>3, <1>6, <2>1 DEF UpdateTemplate
<1>7. ASSUME NEW p \in Properties, NEW d \in Definitions, NEW a \in BOOLEAN, PublishUnarchived(p, d, a)
      PROVE  ArchiveInv'
    <2>1. \A q \in Properties \ {p} : archive'[q] = archive[q] /\ template'[q] = template[q]
        BY <1>1, <1>7 DEF PublishUnarchived
    <2>2. ArchiveIsSound(p)'
        <3>1. CASE Versions(p) = {}
            BY <1>7, <3>1 DEF PublishUnarchived, ArchiveIsSound, Versions
        <3>2. CASE Versions(p) # {}
            <4>1. template[p] # None /\ template[p].version \in Nat
                BY <1>1, <1>2, <3>2 DEF ArchiveIsSound, Template
            <4>2. template'[p] = Changed(p, d, a) /\ archive'[p] = archive[p]
                BY <1>1, <1>7, <4>1 DEF PublishUnarchived
            <4>3. template'[p].version = template[p].version + 1 /\ template'[p] # None
                BY <1>4, <4>1, <4>2, NoneIsNoTemplate DEF Changed, Template
            <4>4. PICK lo, hi \in Nat \ {0} :
                     /\ lo <= hi /\ Versions(p) = lo .. hi /\ hi <= template[p].version
                     /\ \A v \in Versions(p) : archive[p][v].source = "BASELINE" => v = lo
                     /\ lo = 1 \/ archive[p][lo].source = "BASELINE"
                BY <1>2, <3>2 DEF ArchiveIsSound
            <4>5. hi < template'[p].version
                BY <4>1, <4>3, <4>4
            <4>6. Versions(p)' = Versions(p) /\ archive'[p] = archive[p]
                BY <4>2 DEF Versions
            <4>7. /\ lo <= hi /\ Versions(p)' = lo .. hi
                  /\ template'[p] # None /\ hi <= template'[p].version /\ hi # template'[p].version
                  /\ \A v \in Versions(p)' : archive'[p][v].source = "BASELINE" => v = lo
                  /\ lo = 1 \/ archive'[p][lo].source = "BASELINE"
                BY <4>1, <4>3, <4>4, <4>5, <4>6
            <4> QED BY <4>7 DEF ArchiveIsSound
        <3> QED BY <3>1, <3>2
    <2>3. \A q \in Properties : ArchiveIsSound(q)'
        BY <1>2, <2>1, <2>2, SoundStays
    <2>4. VisitedIsArchived'
        BY <1>7 DEF PublishUnarchived, ArchiveInv, VisitedIsArchived
    <2> QED BY <2>3, <2>4 DEF ArchiveInv
\* The steps that change neither templates nor the archive.
<1>8. ASSUME UNCHANGED <<template, archive>>, VisitedIsArchived' PROVE ArchiveInv'
    BY <1>2, <1>8, SoundStays DEF ArchiveInv
<1>9. UNCHANGED <<template, archive>> => Made' = Made /\ \A q \in Properties : ArchivedCurrent(q)' <=> ArchivedCurrent(q)
    BY DEF Made, ArchivedCurrent, Versions
<1>10. ASSUME StopLegacy PROVE ArchiveInv'
    BY <1>8, <1>9, <1>10 DEF StopLegacy, ArchiveInv, VisitedIsArchived, Made
<1>11. ASSUME NEW apply \in BOOLEAN, BeginBackfill(apply) PROVE ArchiveInv'
    <2>1. VisitedIsArchived'
        BY <1>11 DEF BeginBackfill, VisitedIsArchived
    <2> QED BY <1>8, <1>11, <2>1 DEF BeginBackfill
<1>12. ASSUME NEW p \in Properties, InspectTemplate(p) PROVE ArchiveInv'
    <2>1. backfill'.phase \in {"preflight", "failed"} /\ backfill'.alone = backfill.alone
        BY <1>1, <1>12 DEF InspectTemplate, Backfill
    <2>2. VisitedIsArchived'
        BY <1>12, <2>1 DEF InspectTemplate, ArchiveInv, VisitedIsArchived
    <2> QED BY <1>8, <1>12, <2>2 DEF InspectTemplate
<1>13. ASSUME NEW p \in Properties, ArchiveTemplate(p) PROVE ArchiveInv'
    <2>1. template[p] \in Template
        BY <1>1, <1>13 DEF ArchiveTemplate, TemplatesInv, Made
    <2>2. CASE NeedsBaseline(p) /\ archive' = [archive EXCEPT ![p] = Add(p, template[p], "BASELINE")]
                /\ backfill' = [backfill EXCEPT !.todo = @ \ {p}]
        <3>1. archive'[p] = Add(p, template[p], "BASELINE") /\ template' = template
            BY <1>1, <1>13, <2>2 DEF ArchiveTemplate
        <3>2. ArchiveIsSound(p)' /\ ArchivedCurrent(p)'
            <4>1. Versions(p) = {}
                BY <2>2 DEF NeedsBaseline
            <4> QED BY <1>2, <2>1, <3>1, <4>1, AddedIsSound
        <3>3. \A q \in Properties \ {p} : archive'[q] = archive[q]
            BY <1>1, <2>2
        <3>4. \A q \in Properties : ArchiveIsSound(q)'
            BY <1>2, <3>1, <3>2, <3>3, SoundStays
        <3>5. \A q \in Properties \ {p} : ArchivedCurrent(q)' <=> ArchivedCurrent(q)
            BY <3>1, <3>3 DEF ArchivedCurrent, Versions
        <3>6. Made' = Made /\ backfill'.phase = "apply" /\ backfill'.apply = backfill.apply
              /\ backfill'.alone = backfill.alone /\ backfill'.todo = backfill.todo \ {p} /\ legacy' = legacy
            BY <1>1, <1>13, <2>2, <3>1 DEF ArchiveTemplate, Made, Backfill
        <3>7. backfill.phase = "apply"
            BY <1>13 DEF ArchiveTemplate
        <3>8. VisitedIsArchived'
            BY <3>2, <3>5, <3>6, <3>7 DEF ArchiveInv, VisitedIsArchived, Made
        <3> QED BY <3>4, <3>8 DEF ArchiveInv
    <2>3. CASE Sound(p) /\ UNCHANGED archive /\ backfill' = [backfill EXCEPT !.todo = @ \ {p}]
        <3>1. ArchivedCurrent(p)
            BY <2>3 DEF Sound, ArchivedCurrent
        <3>2. backfill.phase = "apply" /\ backfill'.phase = "apply" /\ backfill'.apply = backfill.apply
              /\ backfill'.alone = backfill.alone /\ backfill'.todo = backfill.todo \ {p}
            BY <1>1, <1>13, <2>3 DEF ArchiveTemplate, Backfill
        <3>3. UNCHANGED <<template, archive, legacy>>
            BY <1>13, <2>3 DEF ArchiveTemplate
        <3>4. VisitedIsArchived'
            BY <1>9, <3>1, <3>2, <3>3 DEF ArchiveInv, VisitedIsArchived, Made
        <3> QED BY <1>8, <3>3, <3>4
    <2>4. CASE UNCHANGED archive /\ backfill' = [backfill EXCEPT !.phase = "failed"]
        <3>1. backfill'.phase = "failed" /\ backfill'.alone = backfill.alone
            BY <1>1, <2>4 DEF Backfill
        <3>2. UNCHANGED <<template, archive, legacy>>
            BY <1>13, <2>4 DEF ArchiveTemplate
        <3>3. VisitedIsArchived'
            BY <3>1, <3>2 DEF ArchiveInv, VisitedIsArchived
        <3> QED BY <1>8, <3>2, <3>3
    <2> QED BY <1>13, <2>2, <2>3, <2>4 DEF ArchiveTemplate
<1>14. ASSUME EndPhase PROVE ArchiveInv'
    <2>1. UNCHANGED <<template, archive, legacy>> /\ backfill.todo = {} /\ backfill.phase \in {"preflight", "apply"}
        BY <1>14 DEF EndPhase
    <2>2. CASE backfill' = [backfill EXCEPT !.phase = "apply", !.todo = Made]
        <3>1. backfill'.todo = Made /\ backfill'.phase = "apply" /\ backfill'.alone = backfill.alone
            BY <1>1, <2>2 DEF Backfill
        <3>2. VisitedIsArchived'
            BY <1>9, <2>1, <3>1 DEF ArchiveInv, VisitedIsArchived
        <3> QED BY <1>8, <2>1, <3>2
    <2>3. CASE (backfill.phase = "preflight" => ~backfill.apply) /\ backfill' = [backfill EXCEPT !.phase = "complete"]
        <3>1. backfill'.todo = {} /\ backfill'.alone = backfill.alone /\ backfill'.apply = backfill.apply
            BY <1>1, <2>1, <2>3 DEF Backfill
        <3>2. VisitedIsArchived'
            BY <1>9, <2>1, <2>3, <3>1 DEF ArchiveInv, VisitedIsArchived, Made
        <3> QED BY <1>8, <2>1, <3>2
    <2> QED BY <1>14, <2>2, <2>3 DEF EndPhase
<1>15. ASSUME BackfillStops PROVE ArchiveInv'
    <2>1. backfill'.phase = "failed" /\ backfill'.alone = backfill.alone
        BY <1>1, <1>15 DEF BackfillStops, Backfill
    <2>2. VisitedIsArchived'
        BY <1>15, <2>1 DEF BackfillStops, ArchiveInv, VisitedIsArchived
    <2> QED BY <1>8, <1>15, <2>2 DEF BackfillStops
<1> QED BY <1>5, <1>6, <1>7, <1>10, <1>11, <1>12, <1>13, <1>14, <1>15 DEF TemplatesNext

LEMMA SpecArchiveInv == Spec => []ArchiveInv
<1>1. ArchiveInv /\ UNCHANGED <<template, archive, legacy, backfill>> => ArchiveInv'
    BY DEF ArchiveInv, ArchiveIsSound, VisitedIsArchived, Made, ArchivedCurrent, Versions
<1>2. MInv /\ ArchiveInv /\ [Next]_vars => ArchiveInv'
    <2> SUFFICES ASSUME MInv, ArchiveInv, [Next]_vars PROVE ArchiveInv'
        OBVIOUS
    <2>1. CASE TemplatesNext
        BY <2>1, NextArchiveInv DEF MInv
    <2>2. CASE UNCHANGED <<template, archive, legacy, backfill>>
        BY <1>1, <2>2
    <2>3. TemplatesNext \/ UNCHANGED <<template, archive, legacy, backfill>>
        BY DEF Next, vars, templateVars, StartSheet, SaveSheet, SubmitSheet, CorrectSheet, ChangeSheetStatus,
               Expire, AssignStaff, RotatePropertyQr, ChangeOperation, Deactivate, Activate
    <2> QED BY <2>1, <2>2, <2>3
<1> QED BY InitArchiveInv, SpecMInv, <1>2, PTL DEF Spec

--------------------------------------------------------------------------------
\* The tables have the types that the module declares.
THEOREM MaintenanceTypeCorrect == Spec => []MaintenanceTypeOK
<1>1. MInv => MaintenanceTypeOK
    BY DEF MInv
<1> QED BY SpecMInv, <1>1, PTL

\* The archived versions of a template follow each other without a gap and show it as it is, for
\* any number of versions (checklist-templates.service.ts:185).
THEOREM HistoryStaysTrue == Spec => []HistoryIsTrue
<1>1. ASSUME ArchiveInv, NEW p \in Properties, Versions(p) # {}
      PROVE  LET oldest == CHOOSE v \in Versions(p) : \A w \in Versions(p) : v <= w
                 newest == CHOOSE v \in Versions(p) : \A w \in Versions(p) : v >= w
             IN /\ template[p] # None /\ newest <= template[p].version
                /\ Versions(p) = oldest .. newest
                /\ \A v \in Versions(p) : (archive[p][v].source = "BASELINE") => v = oldest
                /\ oldest = 1 \/ archive[p][oldest].source = "BASELINE"
                /\ newest = template[p].version =>
                      /\ archive[p][newest].definition = template[p].definition
                      /\ archive[p][newest].active = template[p].active
    <2>1. PICK lo, hi \in Nat \ {0} :
             /\ lo <= hi /\ Versions(p) = lo .. hi
             /\ template[p] # None /\ hi <= template[p].version
             /\ \A v \in Versions(p) : archive[p][v].source = "BASELINE" => v = lo
             /\ lo = 1 \/ archive[p][lo].source = "BASELINE"
             /\ hi = template[p].version =>
                   archive[p][hi].definition = template[p].definition /\ archive[p][hi].active = template[p].active
        BY <1>1 DEF ArchiveInv, ArchiveIsSound
    <2> DEFINE oldest == CHOOSE v \in Versions(p) : \A w \in Versions(p) : v <= w
               newest == CHOOSE v \in Versions(p) : \A w \in Versions(p) : v >= w
    <2>2. lo \in Versions(p) /\ \A w \in Versions(p) : lo <= w
        BY <2>1
    <2>3. hi \in Versions(p) /\ \A w \in Versions(p) : hi >= w
        BY <2>1
    <2>4. oldest \in Versions(p) /\ \A w \in Versions(p) : oldest <= w
        BY <2>2
    <2>5. newest \in Versions(p) /\ \A w \in Versions(p) : newest >= w
        BY <2>3
    <2> HIDE DEF oldest, newest
    <2>6. oldest = lo
        BY <2>1, <2>2, <2>4
    <2>7. newest = hi
        BY <2>1, <2>3, <2>5
    <2> QED BY <2>1, <2>6, <2>7 DEF oldest, newest
<1>2. ArchiveInv => HistoryIsTrue
    BY <1>1 DEF HistoryIsTrue
<1> QED BY SpecArchiveInv, <1>2, PTL

\* A completed run of the operator's command, with no process of the old release left, leaves no
\* template without its current version in the archive.
THEOREM BackfillArchivesAll == Spec => []BackfillIsTrue
<1>1. ArchiveInv => BackfillIsTrue
    BY DEF ArchiveInv, VisitedIsArchived, BackfillIsTrue
<1> QED BY SpecArchiveInv, <1>1, PTL

\* No submitted checklist is ever listed for review and no draft is ever unreadable, for any
\* number of checklists (staff-deactivation.service.ts:166).
THEOREM CompletedStays == Spec => []CompletedStaysCompleted
<1>1. ASSUME MInv PROVE CompletedStaysCompleted
    <2>1. \A s \in Listed : sheet[s] \in Sheet /\ RowIsSound(sheet[s])
        BY <1>1 DEF Listed, Begun, MInv, MaintenanceTypeOK, SheetInv
    <2>2. \A s \in Listed : sheet[s].status = "SUBMITTED" => Progress(s) = "COMPLETED"
        <3>1. \A s \in Listed : sheet[s].status = "SUBMITTED" => Agrees(s)
            <4> SUFFICES ASSUME NEW s \in Listed, sheet[s].status = "SUBMITTED" PROVE Agrees(s)
                OBVIOUS
            <4>1. sheet[s].status # "DRAFT" /\ RowIsSound(sheet[s])
                BY <2>1
            <4>2. /\ sheet[s].head # None /\ sheet[s].head.version = sheet[s].revision
                  /\ sheet[s].head.status = "SUBMITTED" /\ sheet[s].head.updated = sheet[s].updated
                  /\ sheet[s].head.answers = sheet[s].definition
                BY <4>1 DEF RowIsSound
            <4> QED BY <4>2 DEF Agrees
        <3> QED BY <3>1 DEF Progress
    <2>3. \A s \in Listed : sheet[s].status = "DRAFT" => Progress(s) # "NEEDS_REVIEW"
        BY <2>1 DEF Progress, ValidContent, RowIsSound
    <2> DEFINE Done == {s \in Listed : sheet[s].status = "SUBMITTED"}
    <2>4. {s \in Listed : sheet[s].status = "SUBMITTED" /\ Progress(s) = "COMPLETED"} = Done
        BY <2>2
    <2>5. {s \in Listed : sheet[s].status = "DRAFT" /\ Progress(s) = "NEEDS_REVIEW"} = {}
        BY <2>3
    <2>6. Cardinality(Done) \in Nat
        <3>1. Done \subseteq Sheets
            BY DEF Listed
        <3> QED BY <3>1, SheetsAreFinite, FS_Subset, FS_CardinalityType
    <2>7. Count("DRAFT", "NEEDS_REVIEW") = 0
        BY <2>5, FS_EmptySet DEF Count
    <2>8. Cardinality(Done) - Count("SUBMITTED", "COMPLETED") = 0
        BY <2>4, <2>6 DEF Count
    <2> QED BY <2>7, <2>8 DEF CompletedStaysCompleted, Summary
<1>2. MInv => CompletedStaysCompleted
    BY <1>1
<1> QED BY SpecMInv, <1>2, PTL

\* The list, the dashboard and the link agree on which drafts can be gone on with.
THEOREM ListAgreesWithLinks == Spec => []ListMatchesLinks
<1>1. ASSUME MInv PROVE ListMatchesLinks
    <2>1. \A s \in Listed : sheet[s] \in Sheet /\ RowIsSound(sheet[s]) /\ Begun(s)
        BY <1>1 DEF Listed, Begun, MInv, MaintenanceTypeOK, SheetInv
    <2>2. ASSUME NEW s \in Listed, sheet[s].status = "DRAFT"
          PROVE  (Progress(s) = "UNFINISHED") = Opens(s)
        <3>1. Reasons(s) = {} <=> sheet[s].link /\ On(s) \in open /\ OnDuty(s)
            BY DEF Reasons, OnDuty
        <3>2. Progress(s) = "UNFINISHED" <=> ~sheet[s].expired /\ Reasons(s) = {}
            BY <2>1, <2>2 DEF Progress, ValidContent, RowIsSound
        <3> QED BY <2>1, <2>2, <3>1, <3>2 DEF Opens
    <2>3. {s \in Listed : sheet[s].status = "DRAFT" /\ Progress(s) = "UNFINISHED"}
             = {s \in Sheets : Opens(s) /\ sheet[s].status = "DRAFT"}
        <3>1. \A s \in Sheets : Opens(s) => s \in Listed
            BY DEF Opens, Listed
        <3> QED BY <2>2, <3>1 DEF Listed
    <2> QED BY <2>2, <2>3 DEF ListMatchesLinks, Summary, Count
<1>2. MInv => ListMatchesLinks
    BY <1>1
<1> QED BY SpecMInv, <1>2, PTL

\* The links of somebody who was deactivated stay closed for good, for any assignments, handovers
\* and activations that follow (staff-deactivation.service.ts:169).
THEOREM RevokedLinksStayClosed == Spec => RevokedStaysClosed
<1>1. ASSUME MInv, MInv', [Next]_vars, NEW s \in Sheets, Begun(s), Closed(s)
      PROVE  Closed(s)' /\ ~Opens(s)'
    <2>1. sheet[s] \in Sheet /\ ~sheet[s].link
        BY <1>1 DEF MInv, MaintenanceTypeOK, SheetInv, RowIsSound, Begun, Closed
    <2>2. ~sheet'[s].link
        <3>1. ASSUME NEW r \in Sheets, NEW row, sheet' = [sheet EXCEPT ![r] = row], r = s => ~row.link
              PROVE  ~sheet'[s].link
            BY <2>1, <3>1 DEF MInv, MaintenanceTypeOK
        <3>2. UNCHANGED sheet => ~sheet'[s].link
            BY <2>1
        <3>3. ASSUME NEW r \in Sheets, NEW p \in Properties, NEW w \in Staff, StartSheet(r, p, w)
              PROVE  ~sheet'[s].link
            BY <1>1, <3>1, <3>3 DEF StartSheet
        <3>4. ASSUME NEW r \in Sheets, SaveSheet(r) PROVE ~sheet'[s].link
            BY <1>1, <2>1, <3>4 DEF SaveSheet, MInv, MaintenanceTypeOK, Sheet
        <3>5. ASSUME NEW r \in Sheets, NEW status \in {"SUBMITTED", "CANCELLED"}, NEW answers,
                     sheet' = [sheet EXCEPT ![r] = Revised(r, status, answers)]
              PROVE  ~sheet'[s].link
            <4>1. Revised(s, status, answers).link = sheet[s].link
                BY <2>1 DEF Revised, Sheet
            <4> QED BY <2>1, <3>1, <3>5, <4>1
        <3>6. ASSUME NEW r \in Sheets, SubmitSheet(r) \/ CorrectSheet(r) \/ ChangeSheetStatus(r)
              PROVE  ~sheet'[s].link
            BY <3>5, <3>6 DEF SubmitSheet, CorrectSheet, ChangeSheetStatus
        <3>7. ASSUME NEW r \in Sheets, Expire(r) PROVE ~sheet'[s].link
            BY <1>1, <2>1, <3>7 DEF Expire, MInv, MaintenanceTypeOK, Sheet
        <3>8. ASSUME NEW w \in Staff, sheet' = Revoked(w) PROVE ~sheet'[s].link
            <4>1. Revoked(w)[s] = [sheet[s] EXCEPT !.link = @ /\ sheet[s].author # w]
                BY <1>1, RevokedFields DEF MInv
            <4>2. sheet'[s].link = (sheet[s].link /\ sheet[s].author # w)
                BY <2>1, <3>8, <4>1 DEF Sheet
            <4> QED BY <2>1, <4>2
        <3> QED BY <1>1, <3>2, <3>3, <3>4, <3>6, <3>7, <3>8
                DEF Next, vars, AssignStaff, RotatePropertyQr, ChangeOperation, Deactivate, Activate, MInv
    <2> QED BY <2>2 DEF Closed, Opens
<1>2. MInv /\ MInv' /\ [Next]_vars => [\A s \in Sheets : Begun(s) /\ Closed(s) => Closed(s)' /\ ~Opens(s)']_vars
    BY <1>1
<1> QED BY SpecMInv, <1>2, PTL DEF Spec, RevokedStaysClosed
================================================================================
