---------------------------- MODULE MessageDispatch ----------------------------
(***************************************************************************)
(* The messaging service: one AlimTalk notice is claimed in the            *)
(* MessageDispatch table, checked again, handed to the provider outside    *)
(* any transaction, and its outcome recorded; refreshes look the outcome   *)
(* up later.  Administrators (keys "manual:...") and the automation        *)
(* runner (keys "automatic:...") both come through dispatch().             *)
(*                                                                         *)
(* A serializable transaction is one atomic step.  A refusal inside one    *)
(* (no administrator session, blockers, an expired preview, three          *)
(* serialization failures) has no effect and may always happen.            *)
(***************************************************************************)
EXTENDS Naturals

CONSTANTS Notices,     \* subject and message kind
          Keys,        \* idempotency keys, each naming at most one row
          Calls,       \* executions of dispatch()
          Refreshers,  \* executions of refresh()
          Details,     \* what of a context its event identity leaves out
          MaxEvent,    \* bound: how often the event identity may change
          None         \* no row, no key

VARIABLES context,      \* per notice: what contexts.read() finds now
          row,          \* the MessageDispatch table, by idempotency key
          call,         \* the executions of dispatch()
          refresh,      \* the executions of refresh()
          provider,     \* what became of the message submitted under a key
          submissions   \* history: provider requests made under a key

vars == <<context, row, call, refresh, provider, submissions>>

Statuses == {"SENDING", "ACCEPTED", "DELIVERED", "FAILED", "UNKNOWN"}
Outcomes == {"none", "pending", "delivered", "failed"}
Answers == {"none", "receipt", "KEY_CONFLICT", "ALREADY_REQUESTED", "REFUSED"}

\* A row keeps the event it claims, the hash that was confirmed (event and
\* detail), whether its deduplicationKey is set (claimed), whether it has a
\* providerMessageId (message) and whether it is older than a minute (old).
\* A call keeps what it was started for and its last answer.
Row == [notice: Notices, event: 0..MaxEvent, detail: Details, status: Statuses,
        claimed: BOOLEAN, message: BOOLEAN, old: BOOLEAN]
Context == [event: 0..MaxEvent, detail: Details, ready: BOOLEAN]
Call == [pc: {"idle", "lookup", "claim", "preflight", "fail", "send", "record"},
         key: Keys \cup {None}, notice: Notices \cup {None},
         event: 0..MaxEvent, detail: Details \cup {None},
         status: Statuses, message: BOOLEAN, answer: Answers]
Refresh == [pc: {"idle", "expire", "lookup", "store"}, key: Keys \cup {None},
            seen: Statuses, unchanged: BOOLEAN, result: Statuses]

ASSUME MaxEventIsNat == MaxEvent \in Nat
ASSUME NoneIsNew == None \notin Keys /\ None \notin Notices /\ None \notin Details
                    /\ None \notin Row

NoCall == [pc |-> "idle", key |-> None, notice |-> None, event |-> 0, detail |-> None,
           status |-> "SENDING", message |-> FALSE, answer |-> "none"]
NoRefresh == [pc |-> "idle", key |-> None, seen |-> "SENDING", unchanged |-> TRUE,
              result |-> "UNKNOWN"]

TypeOK ==
    /\ context \in [Notices -> Context]
    /\ row \in [Keys -> Row \cup {None}]
    /\ call \in [Calls -> Call]
    /\ refresh \in [Refreshers -> Refresh]
    /\ provider \in [Keys -> Outcomes]
    /\ submissions \in [Keys -> Nat]

--------------------------------------------------------------------------------
Exists(k) == row[k] # None

\* The unique deduplicationKey: a row of the same notice and event holds it.
\* Faulty variant: only claims whose provider attempt is still running count.
DuplicateWhileSending(n, e) ==
    \E k \in Keys : /\ Exists(k) /\ row[k].notice = n /\ row[k].event = e
                    /\ row[k].claimed /\ row[k].status = "SENDING"
Duplicate(n, e) ==
    \E k \in Keys : /\ Exists(k) /\ row[k].notice = n /\ row[k].event = e
                    /\ row[k].claimed

\* A recorded FAILED clears the deduplicationKey, any other status leaves it.
\* Faulty variant: an outcome that is not known releases the claim as well.
ReleaseUnknown(status, claimed) == claimed /\ status \notin {"FAILED", "UNKNOWN"}
ClaimAfter(status, claimed) == claimed /\ status # "FAILED"

\* Any write moves updatedAt, which the refreshes compare before they write.
Touch(k) == [r \in Refreshers |-> IF refresh[r].key = k
                                  THEN [refresh[r] EXCEPT !.unchanged = FALSE]
                                  ELSE refresh[r]]

Answer(c, a) == call' = [call EXCEPT ![c] = [NoCall EXCEPT !.answer = a]]
Goto(c, l) == call' = [call EXCEPT ![c].pc = l]

\* existingResult(): the receipt of the row, unless the key named another notice.
ExistingResult(c) ==
    Answer(c, IF row[call[c].key].notice = call[c].notice
              THEN "receipt" ELSE "KEY_CONFLICT")

\* assertReady() and the confirmed hash, against the context as it is now.
\* Faulty variant: only readiness is checked again.
ReadyOnly(c) == context[call[c].notice].ready
StillPreviewed(c) ==
    LET x == context[call[c].notice]
    IN  x.ready /\ x.event = call[c].event /\ x.detail = call[c].detail

--------------------------------------------------------------------------------
\* A preview(), then send() or sendAutomatic() with the preview key it returned.
Start(c) ==
    /\ call[c].pc = "idle"
    /\ \E k \in Keys, n \in Notices :
         call' = [call EXCEPT ![c] =
                    [NoCall EXCEPT !.pc = "lookup", !.key = k, !.notice = n,
                                   !.event = context[n].event,
                                   !.detail = context[n].detail]]
    /\ UNCHANGED <<context, row, refresh, provider, submissions>>

\* The lookup by idempotency key comes before every check of the domain.
Lookup(c) ==
    /\ call[c].pc = "lookup"
    /\ IF Exists(call[c].key) THEN ExistingResult(c) ELSE Goto(c, "claim")
    /\ UNCHANGED <<context, row, refresh, provider, submissions>>

\* The claim transaction creates the row.
\* Faulty variant: it creates or replaces it.
UpsertClaim(c) ==
    LET k == call[c].key
        n == call[c].notice
    IN  /\ call[c].pc = "claim"
        /\ StillPreviewed(c)
        /\ ~Duplicate(n, call[c].event)
        /\ row' = [row EXCEPT ![k] =
                     [notice |-> n, event |-> call[c].event, detail |-> call[c].detail,
                      status |-> "SENDING", claimed |-> TRUE, message |-> FALSE,
                      old |-> FALSE]]
        /\ Goto(c, "preflight")
        /\ UNCHANGED <<context, refresh, provider, submissions>>
Claim(c) ==
    LET k == call[c].key
        n == call[c].notice
    IN  /\ call[c].pc = "claim"
        /\ StillPreviewed(c)
        /\ ~Duplicate(n, call[c].event)
        /\ ~Exists(k)
        /\ row' = [row EXCEPT ![k] =
                     [notice |-> n, event |-> call[c].event, detail |-> call[c].detail,
                      status |-> "SENDING", claimed |-> TRUE, message |-> FALSE,
                      old |-> FALSE]]
        /\ Goto(c, "preflight")
        /\ UNCHANGED <<context, refresh, provider, submissions>>

\* The claim finds the event claimed: it throws alreadyRequested().
ClaimDuplicate(c) ==
    /\ call[c].pc = "claim"
    /\ StillPreviewed(c)
    /\ Duplicate(call[c].notice, call[c].event)
    /\ Answer(c, "ALREADY_REQUESTED")
    /\ UNCHANGED <<context, row, refresh, provider, submissions>>

\* The insert meets a unique index (P2002) that a racing claim filled: the row
\* of this very key answers.
ClaimKeyTaken(c) ==
    /\ call[c].pc = "claim"
    /\ StillPreviewed(c)
    /\ Exists(call[c].key)
    /\ ExistingResult(c)
    /\ UNCHANGED <<context, row, refresh, provider, submissions>>

ClaimRefused(c) ==
    /\ call[c].pc = "claim"
    /\ Answer(c, "REFUSED")
    /\ UNCHANGED <<context, row, refresh, provider, submissions>>

\* The second transaction checks everything again right before the request.
Preflight(c) ==
    /\ call[c].pc = "preflight"
    /\ StillPreviewed(c)
    /\ Goto(c, "send")
    /\ UNCHANGED <<context, row, refresh, provider, submissions>>

PreflightRefused(c) ==
    /\ call[c].pc = "preflight"
    /\ Goto(c, "fail")
    /\ UNCHANGED <<context, row, refresh, provider, submissions>>

\* No request was made, so the row is FAILED whatever it says by now.
RecordLocalFailure(c) ==
    LET k == call[c].key
    IN  /\ call[c].pc = "fail"
        /\ row' = [row EXCEPT ![k].status = "FAILED",
                              ![k].claimed = ClaimAfter("FAILED", @)]
        /\ Answer(c, "receipt")
        /\ refresh' = Touch(k)
        /\ UNCHANGED <<context, provider, submissions>>

--------------------------------------------------------------------------------
\* What provider.send() may report of a request, given what became of it: a
\* recognised status with a message id, a refusal, or nothing that can be told.
\* Faulty variants: a timeout is read as a refusal; the provider's own word for a
\* status is taken over.
TimeoutIsFailure(outcome) ==
    {x \in [status: Statuses \ {"SENDING", "UNKNOWN"}, message: BOOLEAN] :
        /\ x.status \in {"ACCEPTED", "DELIVERED"} => outcome = "pending" /\ x.message
        /\ x.message => outcome # "none"}
UnmappedReport(outcome) ==
    {x \in [status: {"PENDING", "COMPLETE", "FAILED"}, message: BOOLEAN] :
        x.message <=> outcome # "none"}
Report(outcome) ==
    {x \in [status: Statuses \ {"SENDING"}, message: BOOLEAN] :
        /\ x.status = "ACCEPTED" => outcome \in {"pending", "delivered"} /\ x.message
        /\ x.status = "DELIVERED" => outcome = "delivered" /\ x.message
        /\ x.status = "FAILED" => outcome = "failed"
        /\ x.message => outcome # "none"}

\* provider.send(): one request, never repeated; it may get lost.
Send(c) ==
    LET k == call[c].key
    IN  /\ call[c].pc = "send"
        /\ \E outcome \in Outcomes : \E report \in Report(outcome) :
             /\ provider' = [provider EXCEPT ![k] = outcome]
             /\ call' = [call EXCEPT ![c].pc = "record", ![c].status = report.status,
                                     ![c].message = report.message]
        /\ submissions' = [submissions EXCEPT ![k] = @ + 1]
        /\ UNCHANGED <<context, row, refresh>>

\* The result overwrites the row without a condition.
Record(c) ==
    LET k == call[c].key
    IN  /\ call[c].pc = "record"
        /\ row' = [row EXCEPT ![k].status = call[c].status,
                              ![k].message = call[c].message,
                              ![k].claimed = ClaimAfter(call[c].status, @)]
        /\ Answer(c, "receipt")
        /\ refresh' = Touch(k)
        /\ UNCHANGED <<context, provider, submissions>>

\* The process, or its connection to the database, dies: the row stays.
Crash(c) ==
    /\ call[c].pc # "idle"
    /\ call' = [call EXCEPT ![c] = NoCall]
    /\ UNCHANGED <<context, row, refresh, provider, submissions>>

--------------------------------------------------------------------------------
\* refresh() reads the row; a terminal row, or a SENDING one within its first
\* minute, is returned as it is.
\* Faulty variant: a row without a message to look up is returned as it is.
RefreshIdentified(r, k) ==
    /\ refresh[r].pc = "idle"
    /\ Exists(k)
    /\ row[k].status \notin {"DELIVERED", "FAILED"}
    /\ row[k].message
    /\ refresh' = [refresh EXCEPT ![r].key = k, ![r].seen = row[k].status,
                                  ![r].unchanged = TRUE, ![r].pc = "lookup"]
    /\ UNCHANGED <<context, row, call, provider, submissions>>
RefreshRead(r, k) ==
    /\ refresh[r].pc = "idle"
    /\ Exists(k)
    /\ row[k].status \notin {"DELIVERED", "FAILED"}
    /\ row[k].message \/ row[k].status # "SENDING" \/ row[k].old
    /\ refresh' = [refresh EXCEPT ![r].key = k, ![r].seen = row[k].status,
                                  ![r].unchanged = TRUE,
                                  ![r].pc = IF row[k].message THEN "lookup" ELSE "expire"]
    /\ UNCHANGED <<context, row, call, provider, submissions>>

\* updateMany({id, updatedAt}): the write of a refresh, if nothing wrote between.
\* Faulty variant: it writes whatever happened since the read.
BlindWrite(r, status) ==
    LET k == refresh[r].key
    IN  /\ row' = [row EXCEPT ![k].status = status, ![k].claimed = ClaimAfter(status, @)]
        /\ refresh' = [Touch(k) EXCEPT ![r] = NoRefresh]
CheckedWrite(r, status) ==
    LET k == refresh[r].key
    IN  IF refresh[r].unchanged
        THEN /\ row' = [row EXCEPT ![k].status = status, ![k].claimed = ClaimAfter(status, @)]
             /\ refresh' = [Touch(k) EXCEPT ![r] = NoRefresh]
        ELSE /\ refresh' = [refresh EXCEPT ![r] = NoRefresh]
             /\ UNCHANGED row

\* A claim nobody answered becomes UNKNOWN.
RefreshExpire(r) ==
    /\ refresh[r].pc = "expire"
    /\ CheckedWrite(r, "UNKNOWN")
    /\ UNCHANGED <<context, call, provider, submissions>>

\* provider.refresh(): what the provider says now, or nothing that can be told.
Reported(outcome) ==
    CASE outcome = "pending"   -> {"ACCEPTED", "UNKNOWN"}
      [] outcome = "delivered" -> {"DELIVERED", "ACCEPTED", "UNKNOWN"}
      [] outcome = "failed"    -> {"FAILED", "UNKNOWN"}
      [] outcome = "none"      -> {"UNKNOWN"}

RefreshLookup(r) ==
    /\ refresh[r].pc = "lookup"
    /\ \E s \in Reported(provider[refresh[r].key]) :
         refresh' = [refresh EXCEPT ![r].pc = "store", ![r].result = s]
    /\ UNCHANGED <<context, row, call, provider, submissions>>

\* A failed lookup does not erase the acceptance that was read.
KeepAcceptance(seen, result) ==
    IF result = "UNKNOWN" /\ seen = "ACCEPTED" THEN seen ELSE result

RefreshStore(r) ==
    /\ refresh[r].pc = "store"
    /\ CheckedWrite(r, KeepAcceptance(refresh[r].seen, refresh[r].result))
    /\ UNCHANGED <<context, call, provider, submissions>>

\* The refresh fails: its HTTP request or the runner that polls dies.
RefreshCrash(r) ==
    /\ refresh[r].pc # "idle"
    /\ refresh' = [refresh EXCEPT ![r] = NoRefresh]
    /\ UNCHANGED <<context, row, call, provider, submissions>>

--------------------------------------------------------------------------------
\* The provider delivers, or gives up on, a message it accepted.
Settle(k) ==
    /\ provider[k] = "pending"
    /\ \E outcome \in {"delivered", "failed"} : provider' = [provider EXCEPT ![k] = outcome]
    /\ UNCHANGED <<context, row, call, refresh, submissions>>

\* A minute has passed since the claim.
Age(k) ==
    /\ Exists(k)
    /\ ~row[k].old
    /\ row' = [row EXCEPT ![k].old = TRUE]
    /\ UNCHANGED <<context, call, refresh, provider, submissions>>

\* The reservation, its property, link or code changes (revisions, link and code
\* versions and update times only grow), or its readiness does.
Change(n) ==
    /\ \E e \in {context[n].event, context[n].event + 1}, d \in Details, b \in BOOLEAN :
         /\ e <= MaxEvent
         /\ context' = [context EXCEPT ![n] = [event |-> e, detail |-> d, ready |-> b]]
    /\ UNCHANGED <<row, call, refresh, provider, submissions>>

--------------------------------------------------------------------------------
Init ==
    /\ \E d \in [Notices -> Details] :
         context = [n \in Notices |-> [event |-> 0, detail |-> d[n], ready |-> TRUE]]
    /\ row = [k \in Keys |-> None]
    /\ call = [c \in Calls |-> NoCall]
    /\ refresh = [r \in Refreshers |-> NoRefresh]
    /\ provider = [k \in Keys |-> "none"]
    /\ submissions = [k \in Keys |-> 0]

Dispatch(c) ==
    \/ Lookup(c) \/ Claim(c) \/ ClaimDuplicate(c) \/ ClaimKeyTaken(c) \/ ClaimRefused(c)
    \/ Preflight(c) \/ PreflightRefused(c) \/ RecordLocalFailure(c)
    \/ Send(c) \/ Record(c)

RefreshStep(r) ==
    (\E k \in Keys : RefreshRead(r, k)) \/ RefreshExpire(r) \/ RefreshLookup(r) \/ RefreshStore(r)

Next ==
    \/ \E c \in Calls : Start(c) \/ Dispatch(c) \/ Crash(c)
    \/ \E r \in Refreshers : RefreshStep(r) \/ RefreshCrash(r)
    \/ \E k \in Keys : Settle(k) \/ Age(k)
    \/ \E n \in Notices : Change(n)

Spec == Init /\ [][Next]_vars

\* An execution of dispatch() that does not crash goes on; the runner polls every
\* row that has no final outcome, and not every poll crashes; a minute passes.
Fairness ==
    /\ \A c \in Calls : WF_vars(Dispatch(c))
    /\ \A r \in Refreshers : /\ \A k \in Keys : SF_vars(RefreshRead(r, k))
                             /\ SF_vars(RefreshExpire(r))
                             /\ SF_vars(RefreshLookup(r))
                             /\ SF_vars(RefreshStore(r))
    /\ \A k \in Keys : WF_vars(Age(k))

FairSpec == Spec /\ Fairness

--------------------------------------------------------------------------------
\* However requests, refreshes, crashes and lost answers interleave, the provider
\* holds at most one message of an event that was or may still be delivered.
OneNoticePerEvent ==
    \A j, k \in Keys :
        /\ Exists(j) /\ provider[j] \in {"pending", "delivered"}
        /\ Exists(k) /\ provider[k] \in {"pending", "delivered"}
        /\ row[j].notice = row[k].notice /\ row[j].event = row[k].event
        => j = k

\* A key makes at most one request to the provider, retried or crashed or not.
OneSubmissionPerKey == \A k \in Keys : submissions[k] <= 1

\* The table never says more than is known: DELIVERED is delivered, FAILED never
\* reaches the recipient, ACCEPTED was accepted.
TruthfulRows ==
    \A k \in Keys : Exists(k) =>
        /\ row[k].status = "DELIVERED" => provider[k] = "delivered"
        /\ row[k].status = "FAILED"    => provider[k] \in {"none", "failed"}
        /\ row[k].status = "ACCEPTED"  => provider[k] # "none"

\* An older refresh regresses neither a terminal result nor an acceptance.
NoRegression ==
    [][\A k \in Keys : Exists(k) =>
        /\ row[k].status \in {"DELIVERED", "FAILED"} => row'[k].status = row[k].status
        /\ row[k].status = "ACCEPTED" => row'[k].status \in {"ACCEPTED", "DELIVERED", "FAILED"}]_vars

\* A notice only leaves if at its last check the subject was ready and still what
\* was confirmed when the claim was made, however it changed in between.
CheckedBeforeSend ==
    [][\A c \in Calls : call[c].pc = "preflight" /\ call'[c].pc = "send" =>
        LET x == row[call[c].key] IN
        context[call[c].notice] = [event |-> x.event, detail |-> x.detail, ready |-> TRUE]]_vars

\* The service as a NoticeClaims: a row is its key's claim on an event.
Claims == INSTANCE NoticeClaims WITH
    Events    <- Notices \X (0..MaxEvent),
    claim     <- [k \in Keys |-> IF Exists(k) THEN <<row[k].notice, row[k].event>> ELSE None],
    held      <- {k \in Keys : Exists(k) /\ row[k].claimed},
    submitted <- {k \in Keys : submissions[k] > 0},
    fate      <- provider

\* dispatch() and refresh(), with their races, crashes and lost answers, do nothing
\* but claim, submit once, and give up claims that were never or vainly submitted.
KeepsClaims == Claims!NoticeSpec

\* No attempt stays SENDING: its execution records an outcome, or a refresh does.
SendingEnds ==
    \A k \in Keys : (Exists(k) /\ row[k].status = "SENDING")
                      ~> (Exists(k) /\ row[k].status # "SENDING")

\* "The original request key always returns its original outcome": a key that has
\* a row is never answered that its notice was already requested.
OriginalKeyReturnsItsOutcome ==
    [][\A c \in Calls : call[c].pc = "claim" /\ call'[c].answer = "ALREADY_REQUESTED"
                          => ~Exists(call[c].key)]_vars
================================================================================
