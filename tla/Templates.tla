-------------------------------- MODULE Templates --------------------------------
(***************************************************************************)
(* What the checklist of a property asks and the archive of the versions   *)
(* that were published.  An administrator's edit replaces the template and *)
(* archives it in one serializable transaction.  The archive is younger    *)
(* than the templates: those that the release before it wrote get into it  *)
(* by a command an operator runs, which first looks at every template and  *)
(* then stores what is missing, a transaction for each.  It may be run     *)
(* while a process of the old release is still publishing, it may stop     *)
(* halfway, and it may be run again.                                       *)
(*                                                                         *)
(* A property has one template of each type; types have nothing to do with *)
(* each other, and one is modelled.  updatedAt changes with the version    *)
(* and with nothing else, and is left out.                                 *)
(***************************************************************************)
EXTENDS Integers, FiniteSets, Functions

CONSTANTS Properties,
          Definitions,  \* what can be asked, with the title
          None,
          MaxVersion    \* bound: versions of a template

ASSUME MaxVersionIsNat == MaxVersion \in Nat
ASSUME NoneIsNoTemplate == None \notin [version: Nat, definition: Definitions, active: BOOLEAN]

VARIABLES template,  \* the ChecklistTemplate of each property
          archive,   \* its ChecklistTemplateVersion rows, by version
          open,      \* the properties that are active
          legacy,    \* a process of the release without an archive is running
          backfill   \* the operator's command

templateVars == <<template, archive, open, legacy, backfill>>

Template == [version: Nat \ {0}, definition: Definitions, active: BOOLEAN]
Archived == [definition: Definitions, active: BOOLEAN, source: {"PUBLISHED", "BASELINE"}]
Phases == {"idle", "preflight", "apply", "complete", "failed"}
\* apply: the option --apply; todo: the templates not visited yet in this phase;
\* alone: no old process was running when the command began.
Backfill == [phase: Phases, apply: BOOLEAN, todo: SUBSET Properties, alone: BOOLEAN]

TemplatesTypeOK ==
    /\ template \in [Properties -> Template \cup {None}]
    /\ DOMAIN archive = Properties
    /\ \A p \in Properties : DOMAIN archive[p] \subseteq Nat \ {0} /\ Range(archive[p]) \subseteq Archived
    /\ open \subseteq Properties /\ legacy \in BOOLEAN /\ backfill \in Backfill

--------------------------------------------------------------------------------
Made == {p \in Properties : template[p] # None}
Versions(p) == DOMAIN archive[p]

\* The archive of p with what row says as row.version.
Add(p, row, source) ==
    [v \in Versions(p) \cup {row.version} |->
        IF v = row.version THEN [definition |-> row.definition, active |-> row.active, source |-> source]
        ELSE archive[p][v]]

\* Faulty variant: the edit goes on without the history of what it replaces.
ArchivedOnce(p) == TRUE
ArchivedCurrent(p) == template[p].version \in Versions(p)

New(d) == [version |-> 1, definition |-> d, active |-> TRUE]
Changed(p, d, a) == [version |-> template[p].version + 1, definition |-> d, active |-> a]
IsChange(p, d, a) == template[p].version < MaxVersion /\ <<d, a>> # <<template[p].definition, template[p].active>>

CreateTemplate(p, d) ==
    /\ p \in open /\ template[p] = None
    /\ template' = [template EXCEPT ![p] = New(d)]
    /\ archive' = [archive EXCEPT ![p] = Add(p, New(d), "PUBLISHED")]
    /\ UNCHANGED <<open, legacy, backfill>>

\* An edit by someone who has seen the current version.
UpdateTemplate(p, d, a) ==
    /\ p \in open /\ template[p] # None /\ IsChange(p, d, a)
    /\ ArchivedCurrent(p)
    /\ template' = [template EXCEPT ![p] = Changed(p, d, a)]
    /\ archive' = [archive EXCEPT ![p] = Add(p, Changed(p, d, a), "PUBLISHED")]
    /\ UNCHANGED <<open, legacy, backfill>>

\* The release before did the same without an archive.
PublishUnarchived(p, d, a) ==
    /\ legacy /\ p \in open
    /\ IF template[p] = None THEN a /\ template' = [template EXCEPT ![p] = New(d)]
       ELSE IsChange(p, d, a) /\ template' = [template EXCEPT ![p] = Changed(p, d, a)]
    /\ UNCHANGED <<archive, open, legacy, backfill>>

StopLegacy == legacy /\ legacy' = FALSE /\ UNCHANGED <<template, archive, open, backfill>>

--------------------------------------------------------------------------------
\* inspect(): the archive ends with the current version as it is, and goes back without a gap
\* to the first version or to a baseline.
\* Faulty variant: whatever has been archived will do.
AnyHistory(p) == TRUE
Sound(p) ==
    LET current == template[p]
        rows == archive[p]
        oldest == CHOOSE v \in Versions(p) : \A w \in Versions(p) : v <= w
    IN /\ current.version \in Versions(p)
       /\ rows[current.version].definition = current.definition /\ rows[current.version].active = current.active
       /\ Versions(p) = oldest .. current.version
       /\ \A v \in Versions(p) : rows[v].source = "BASELINE" => v = oldest
       /\ oldest = 1 \/ rows[oldest].source = "BASELINE"

NeedsBaseline(p) == Versions(p) = {}

\* backfillChecklistVersions(), at any time.
BeginBackfill(apply) ==
    /\ backfill.phase \in {"idle", "complete", "failed"}
    /\ backfill' = [phase |-> "preflight", apply |-> apply, todo |-> Made, alone |-> ~legacy]
    /\ UNCHANGED <<template, archive, open, legacy>>

\* Visits p, in the order of the identifiers, which are random.
InspectTemplate(p) ==
    /\ backfill.phase = "preflight" /\ p \in backfill.todo
    /\ backfill' = IF NeedsBaseline(p) \/ Sound(p) THEN [backfill EXCEPT !.todo = @ \ {p}]
                   ELSE [backfill EXCEPT !.phase = "failed"]
    /\ UNCHANGED <<template, archive, open, legacy>>

EndPhase ==
    /\ backfill.phase \in {"preflight", "apply"} /\ backfill.todo = {}
    /\ backfill' = IF backfill.phase = "preflight" /\ backfill.apply
                   THEN [backfill EXCEPT !.phase = "apply", !.todo = Made]
                   ELSE [backfill EXCEPT !.phase = "complete"]
    /\ UNCHANGED <<template, archive, open, legacy>>

ArchiveTemplate(p) ==
    /\ backfill.phase = "apply" /\ p \in backfill.todo
    /\ \/ /\ NeedsBaseline(p)
          /\ archive' = [archive EXCEPT ![p] = Add(p, template[p], "BASELINE")]
          /\ backfill' = [backfill EXCEPT !.todo = @ \ {p}]
       \/ /\ ~NeedsBaseline(p) /\ UNCHANGED archive
          /\ backfill' = IF Sound(p) THEN [backfill EXCEPT !.todo = @ \ {p}]
                         ELSE [backfill EXCEPT !.phase = "failed"]
    /\ UNCHANGED <<template, open, legacy>>

\* The process ends, or the database fails it.
BackfillStops ==
    /\ backfill.phase \in {"preflight", "apply"}
    /\ backfill' = [backfill EXCEPT !.phase = "failed"]
    /\ UNCHANGED <<template, archive, open, legacy>>

\* What the old release may have left: templates of any version.
TemplatesInit ==
    /\ template \in [Properties -> [version: 1 .. 1, definition: Definitions, active: {TRUE}] \cup {None}]
    /\ archive = [p \in Properties |-> <<>>]
    /\ open = Properties /\ legacy \in BOOLEAN
    /\ backfill = [phase |-> "idle", apply |-> FALSE, todo |-> {}, alone |-> FALSE]

TemplatesNext ==
    \/ \E p \in Properties, d \in Definitions : CreateTemplate(p, d)
    \/ \E p \in Properties, d \in Definitions, a \in BOOLEAN :
          UpdateTemplate(p, d, a) \/ PublishUnarchived(p, d, a)
    \/ StopLegacy
    \/ \E apply \in BOOLEAN : BeginBackfill(apply)
    \/ \E p \in Properties : InspectTemplate(p) \/ ArchiveTemplate(p)
    \/ EndPhase \/ BackfillStops

--------------------------------------------------------------------------------
\* However the old release, the new one and the command interleave, and wherever the command
\* stopped: the versions of a template that are archived follow each other without a gap, the
\* first one is version one or a baseline, and none is newer than the template or shows the
\* current version otherwise than it is (checklist-templates.service.ts:185, "Do not extend an
\* archive whose current version is missing").
HistoryIsTrue ==
    \A p \in Properties : Versions(p) # {} =>
        LET oldest == CHOOSE v \in Versions(p) : \A w \in Versions(p) : v <= w
            newest == CHOOSE v \in Versions(p) : \A w \in Versions(p) : v >= w
        IN /\ template[p] # None /\ newest <= template[p].version
           /\ Versions(p) = oldest .. newest
           /\ \A v \in Versions(p) : (archive[p][v].source = "BASELINE") => v = oldest
           /\ oldest = 1 \/ archive[p][oldest].source = "BASELINE"
           /\ newest = template[p].version =>
                 /\ archive[p][newest].definition = template[p].definition
                 /\ archive[p][newest].active = template[p].active

\* Once the command was run to its end with --apply, and no process of the old release was left
\* when it began, every template has its current version in the archive, and no edit is refused
\* for want of it.
BackfillIsTrue ==
    backfill.phase = "complete" /\ backfill.apply /\ backfill.alone =>
        \A p \in Made : ArchivedCurrent(p)
================================================================================
