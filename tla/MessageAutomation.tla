--------------------------- MODULE MessageAutomation ---------------------------
(***************************************************************************)
(* The automation of notices: runners on several servers wake up every     *)
(* minute and, under a lease in the database, compare every stay and       *)
(* cleaning task with what they observed last, keep jobs for reminders and *)
(* for observed changes, send the jobs that are due through the messaging  *)
(* service and poll its results.                                           *)
(*                                                                         *)
(* A runner may be paused between any two of its steps.  The messaging     *)
(* service is what MessageDispatch shows of it: one attempt per job, whose *)
(* status never regresses.  A subject is a stay or a task.                 *)
(***************************************************************************)
EXTENDS Naturals

CONSTANTS Stays, Tasks,  \* what notices are about
          Reminders,     \* kinds of scheduled notices about a stay
          Workers,       \* runners
          Contents,      \* what else of a subject matters to its recipient
          Results,       \* bound: what may come of a request, of three results
          Lateness,      \* how long after its due time a job may be sent
          MaxTime,       \* bound on the time
          MaxEdits,      \* bound on the changes to subjects
          MaxKey,        \* bound on the rotations of the signing key
          MaxFaults,     \* bound on crashes and database failures
          MaxPauses,     \* bound on the leases that expire under their runner
          None

VARIABLES source,    \* per subject: what readSource() finds now
          now, edits, faults, pauses,
          key,       \* the signing key of this deployment
          state,     \* the MessageAutomationState row
          target,    \* the MessageAutomationTarget table, by subject
          jobs,      \* the MessageAutomationJob table, by job key
          attempts,  \* the MessageDispatch rows under "automatic:" and a job key
          worker     \* the runners

domain == <<source, edits>>
bounds == <<faults, pauses>>
vars == <<source, now, edits, faults, pauses, key, state, target, jobs, attempts, worker>>

Subjects == Stays \cup Tasks
Times == 0..MaxTime
Never == MaxTime + 1  \* after every time there is
Live == {"PENDING", "BLOCKED"}
Final == {"COMPLETED", "FAILED", "UNKNOWN"}
\* ACCEPTED stands for DELIVERED as well, which a job does not tell from it.
AttemptStatuses == {"SENDING", "ACCEPTED", "FAILED", "UNKNOWN"}
ASSUME ResultsAreStatuses == Results \subseteq AttemptStatuses \ {"SENDING"}
ASSUME RemindersAreNoEvents == Reminders \cap {"CHANGE", "CANCEL", "ASSIGNMENT"} = {}
ASSUME BoundsAreNumbers == {MaxTime, MaxEdits, MaxKey, MaxFaults, MaxPauses} \subseteq Nat

\* open: the subject is eligible and not completed, which says nothing of its end.
Source == [version: 0..MaxEdits, content: Contents, due: [Reminders -> Times], end: 0..Never,
           status: {"ACTIVE", "CANCELLED"}, open: BOOLEAN, created: Times]

\* The reminders of a stay precede its end.  A task has none, and does not end with its
\* due time.
Schedules(s) ==
    IF s \in Stays
    THEN {d \in [due: [Reminders -> Times], end: 0..Never] : \A r \in Reminders : d.due[r] < d.end}
    ELSE {[due |-> [r \in Reminders |-> 0], end |-> Never]}

\* By the time t there is nothing more to say about the subject.
Closed(x, t) == ~x.open \/ x.end <= t

\* The HMAC fingerprint: the material fields under the signing key.
\* Faulty variant: one of them is forgotten.
ScheduleFingerprint(x, k) ==
    [key |-> k, content |-> CHOOSE c \in Contents : TRUE, due |-> x.due, end |-> x.end,
     status |-> x.status, open |-> x.open]
Fingerprint(x, k) ==
    [key |-> k, content |-> x.content, due |-> x.due, end |-> x.end, status |-> x.status,
     open |-> x.open]
Prints == [key: 0..MaxKey, content: Contents, due: [Reminders -> Times], end: 0..Never,
           status: {"ACTIVE", "CANCELLED"}, open: BOOLEAN]

\* A reminder's key has no sequence number and no version.
JobKeys == [subject: Subjects, kind: Reminders \cup {"CHANGE", "CANCEL", "ASSIGNMENT"},
            seq: Nat, version: 0..MaxEdits]
Reminder(s, r) == [subject |-> s, kind |-> r, seq |-> 0, version |-> 0]
Job == [version: 0..MaxEdits, print: Prints, due: Times,
        status: Live \cup Final \cup {"SKIPPED"}, dispatched: BOOLEAN]
Target == [print: Prints, seq: Nat]
ASSUME NoneIsNoRow == None \notin Source \cup Target

\* date: the last time the runner asked for, for its tick or for one job.
NoWork == [pc |-> "idle", date |-> 0, rebase |-> FALSE, page |-> <<>>, then |-> "stamp",
           subject |-> None, previous |-> None, free |-> {}, queue |-> <<>>, job |-> None,
           preview |-> None, status |-> "SENDING"]

TypeOK ==
    /\ source \in [Subjects -> Source \cup {None}]
    /\ now \in Times /\ edits \in 0..MaxEdits /\ faults \in 0..MaxFaults
    /\ pauses \in 0..MaxPauses /\ key \in 0..MaxKey
    /\ state \in [key: (0..MaxKey) \cup {None}, activated: Times, owner: Workers \cup {None},
                  valid: BOOLEAN]
    /\ target \in [Subjects -> Target \cup {None}]
    /\ DOMAIN jobs \subseteq JobKeys /\ \A k \in DOMAIN jobs : jobs[k] \in Job
    /\ DOMAIN attempts \subseteq DOMAIN jobs
    /\ \A k \in DOMAIN attempts : attempts[k] \in AttemptStatuses
    /\ \A w \in Workers : DOMAIN worker[w] = DOMAIN NoWork

--------------------------------------------------------------------------------
Renewed(w) == state.owner = w /\ state.valid

\* A runner goes to another place, with some of its local variables changed.
Become(w, x) == worker' = [worker EXCEPT ![w] = x]
Goto(w, l) == Become(w, [worker[w] EXCEPT !.pc = l])

Without(f, x) == [y \in DOMAIN f \ {x} |-> f[y]]
With(f, x, v) == [y \in DOMAIN f \cup {x} |-> IF y = x THEN v ELSE f[y]]

\* recordDispatch() and updateJob() write without a condition.
\* Faulty variants: the status of the attempt is taken over; an unknown one counts as
\* recorded.
RawRecord(k, status) ==
    jobs' = [jobs EXCEPT ![k].dispatched = TRUE, ![k].status = status]
OptimisticRecord(k, status) ==
    jobs' = [jobs EXCEPT ![k].dispatched = TRUE,
                         ![k].status = IF status = "FAILED" THEN "FAILED" ELSE "COMPLETED"]
RecordDispatch(k, status) ==
    jobs' = [jobs EXCEPT ![k].dispatched = TRUE,
                         ![k].status = CASE status \in {"UNKNOWN", "SENDING"} -> "UNKNOWN"
                                         [] status = "FAILED" -> "FAILED"
                                         [] OTHER -> "COMPLETED"]
UpdateJob(k, status) == jobs' = [jobs EXCEPT ![k].status = status]

--------------------------------------------------------------------------------
\* tick() reads the state, creating it at the first activation, before it has the
\* lease, and already knows then whether the key was rotated.
ReadState(w) ==
    /\ worker[w].pc = "idle"
    /\ state' = IF state.key = None THEN [state EXCEPT !.key = key, !.activated = now] ELSE state
    /\ Become(w, [NoWork EXCEPT !.pc = "lease", !.date = now, !.rebase = state'.key # key])
    /\ UNCHANGED <<domain, bounds, now, key, target, jobs, attempts>>

TakeLease(w) ==
    /\ worker[w].pc = "lease"
    /\ IF state.valid THEN Become(w, NoWork) /\ UNCHANGED state
       ELSE Goto(w, "recover") /\ state' = [state EXCEPT !.owner = w, !.valid = TRUE]
    /\ UNCHANGED <<domain, bounds, now, key, target, jobs, attempts>>

\* A step that needs the lease renewed first, and gives up without it.
LeaseLost(w) ==
    /\ \/ worker[w].pc \in {"recover", "stays", "tasks", "observe"}
       \/ worker[w].pc \in {"next", "poll"} /\ worker[w].queue # <<>>
    /\ ~Renewed(w)
    /\ Goto(w, "release")
    /\ UNCHANGED <<domain, bounds, now, key, state, target, jobs, attempts>>

\* recoverAttempts(): the jobs whose attempt was committed but not recorded.
\* Faulty variant: none is found, the keys of the attempts being prefixed.
UnprefixedKeys == [k \in {j \in DOMAIN attempts : FALSE} |-> attempts[k]]
Unrecorded == [k \in {j \in DOMAIN attempts : ~jobs[j].dispatched} |-> attempts[k]]

RecoverRead(w) ==
    /\ worker[w].pc = "recover"
    /\ Renewed(w)
    /\ Become(w, [worker[w] EXCEPT !.queue = Unrecorded,
                    !.pc = IF Unrecorded = <<>> THEN "stays" ELSE "recovering"])
    /\ UNCHANGED <<domain, bounds, now, key, state, target, jobs, attempts>>

RecoverOne(w) ==
    /\ worker[w].pc = "recovering"
    /\ \E k \in DOMAIN worker[w].queue :
         /\ RecordDispatch(k, worker[w].queue[k])
         /\ Become(w, [worker[w] EXCEPT !.queue = Without(@, k),
                         !.pc = IF DOMAIN worker[w].queue = {k} THEN "stays" ELSE @])
    /\ UNCHANGED <<domain, bounds, now, key, state, target, attempts>>

--------------------------------------------------------------------------------
Existing(S) == [s \in {t \in S : source[t] # None} |-> source[s]]

\* reconcile() reads a page of stays, later one of tasks, as they are now.
ReadPage(w) ==
    /\ worker[w].pc \in {"stays", "tasks"}
    /\ Renewed(w)
    /\ LET page == Existing(IF worker[w].pc = "stays" THEN Stays ELSE Tasks)
           then == IF worker[w].pc = "stays" THEN "tasks" ELSE "stamp"
       IN  Become(w, [worker[w] EXCEPT !.pc = IF page = <<>> THEN then ELSE "observe",
                                       !.page = page, !.then = then])
    /\ UNCHANGED <<domain, bounds, now, key, state, target, jobs, attempts>>

\* observe() reads the target, and which reminders may still be changed.
ObserveRead(w) ==
    /\ worker[w].pc = "observe"
    /\ Renewed(w)
    /\ \E s \in DOMAIN worker[w].page :
         Become(w, [worker[w] EXCEPT !.pc = "commit", !.subject = s, !.previous = target[s],
                      !.free = {r \in Reminders :
                                  LET k == Reminder(s, r) IN
                                  k \in DOMAIN jobs => /\ ~jobs[k].dispatched
                                                       /\ jobs[k].status \notin Final}])
    /\ UNCHANGED <<domain, bounds, now, key, state, target, jobs, attempts>>

\* Observations decide by the time t of their tick.

\* A reminder for the schedule that was read; one due before activation or before the
\* stay was booked, or too late, is left to the administrator.
ReminderJob(x, r, t) ==
    [version |-> x.version, print |-> Fingerprint(x, key), due |-> x.due[r],
     status |-> IF \/ x.due[r] < state.activated \/ x.due[r] < x.created
                   \/ t > x.due[r] + Lateness
                THEN "SKIPPED" ELSE "PENDING",
     dispatched |-> FALSE]

EventKind(x) == IF x.status = "CANCELLED" THEN "CANCEL" ELSE "CHANGE"

\* The event job an observation adds, if any: a change of what was observed before,
\* or a task created since the activation.
NewEvents(s, x, p, seq, rebase, t) ==
    CASE ~Closed(x, t) /\ p # None /\ p.print # Fingerprint(x, key) /\ ~rebase ->
           {[subject |-> s, kind |-> EventKind(x), seq |-> seq, version |-> x.version]}
      [] /\ ~Closed(x, t) /\ p = None
         /\ x.status = "ACTIVE" /\ s \in Tasks /\ x.created >= state.activated ->
           {[subject |-> s, kind |-> "ASSIGNMENT", seq |-> seq, version |-> x.version]}
      [] OTHER -> {}

\* Which live jobs an observation skips: all of a closed subject, all but the
\* cancellation of a cancelled one, and the events that a change or a rotated key
\* overtakes.
\* Faulty variant: a change leaves the events before it.
KeptEvents(s, x, p, rebase, t, k) ==
    /\ k.subject = s
    /\ \/ Closed(x, t)
       \/ x.status = "CANCELLED" /\ k.kind # "CANCEL"
       \/ k.kind \notin Reminders /\ p # None /\ rebase
Overtaken(s, x, p, rebase, t, k) ==
    /\ k.subject = s
    /\ \/ Closed(x, t)
       \/ x.status = "CANCELLED" /\ k.kind # "CANCEL"
       \/ k.kind \notin Reminders /\ p # None /\ (rebase \/ p.print # Fingerprint(x, key))

\* A live job of the very state that was read follows its version.
SamePrint(job, x) == job.print = Fingerprint(x, key)

\* The sequence number of an event grows with every change that is observed.
NextSeq(p, x) ==
    IF p = None THEN 0 ELSE p.seq + (IF p.print # Fingerprint(x, key) THEN 1 ELSE 0)

\* The reminders an observation revises: those that may still be changed, of a stay to come.
Revised(s, x, free, t) ==
    {Reminder(s, r) : r \in {q \in free : s \in Stays /\ ~Closed(x, t) /\ x.status = "ACTIVE"}}

\* A job after an observation has written the reminders, the new event (kept if its key
\* exists) and the overtaken jobs.
Observed(s, x, p, free, rebase, t, k) ==
    IF k \in Revised(s, x, free, t)
    THEN [ReminderJob(x, k.kind, t) EXCEPT !.dispatched = k \in DOMAIN jobs /\ jobs[k].dispatched]
    ELSE IF k \notin DOMAIN jobs
    THEN [version |-> x.version, print |-> Fingerprint(x, key), due |-> t,
          status |-> "PENDING", dispatched |-> FALSE]
    ELSE IF ~jobs[k].dispatched /\ jobs[k].status \in Live /\ Overtaken(s, x, p, rebase, t, k)
    THEN [jobs[k] EXCEPT !.status = "SKIPPED"]
    ELSE jobs[k]

Followed(s, x, k, job) ==
    IF k.subject = s /\ ~job.dispatched /\ job.status \in Live /\ SamePrint(job, x)
    THEN [job EXCEPT !.version = x.version] ELSE job

\* observe() writes: the jobs, their versions last, and the target.
ObserveCommit(w) ==
    LET s == worker[w].subject
        x == worker[w].page[s]
        p == worker[w].previous
        free == worker[w].free
        rebase == worker[w].rebase
        t == worker[w].date
        seq == NextSeq(p, x)
    IN  /\ worker[w].pc = "commit"
        /\ jobs' = [k \in DOMAIN jobs \cup Revised(s, x, free, t)
                             \cup NewEvents(s, x, p, seq, rebase, t)
                      |-> Followed(s, x, k, Observed(s, x, p, free, rebase, t, k))]
        /\ target' = [target EXCEPT ![s] = [print |-> Fingerprint(x, key), seq |-> seq]]
        /\ Become(w, [worker[w] EXCEPT !.page = Without(@, s),
                                       !.pc = IF DOMAIN worker[w].page = {s}
                                              THEN worker[w].then ELSE "observe",
                                       !.subject = None, !.previous = None, !.free = {}])
        /\ UNCHANGED <<domain, bounds, now, key, state, attempts>>

\* Everything is observed under this key now.
Stamp(w) ==
    /\ worker[w].pc = "stamp"
    /\ state' = [state EXCEPT !.key = IF state.owner = w THEN key ELSE @]
    /\ Goto(w, "jobs")
    /\ UNCHANGED <<domain, bounds, now, key, target, jobs, attempts>>

--------------------------------------------------------------------------------
\* The live jobs that were due when the tick began, as they are now.
ReadJobs(w) ==
    /\ worker[w].pc = "jobs"
    /\ Become(w, [worker[w] EXCEPT !.pc = "next", !.date = 0,
                    !.queue = [k \in {j \in DOMAIN jobs : /\ jobs[j].status \in Live
                                                          /\ jobs[j].due <= worker[w].date}
                                 |-> jobs[k]]])
    /\ UNCHANGED <<domain, bounds, now, key, state, target, jobs, attempts>>

\* The next job; one with an attempt is only recorded.  The time it is held against is
\* asked for here, and not again.
PickJob(w) ==
    /\ worker[w].pc = "next"
    /\ Renewed(w)
    /\ \E k \in DOMAIN worker[w].queue :
         IF k \in DOMAIN attempts
         THEN Become(w, [worker[w] EXCEPT !.pc = "record", !.job = k, !.status = attempts[k]])
         ELSE Become(w, [worker[w] EXCEPT !.pc = "check", !.date = now, !.job = k])
    /\ UNCHANGED <<domain, bounds, now, key, state, target, jobs, attempts>>

JobDone(w) == [worker[w] EXCEPT !.pc = "next", !.date = 0, !.queue = Without(@, worker[w].job),
                                !.job = None, !.preview = None, !.status = "SENDING"]

\* A job that was late at the time t, or whose subject was closed then or is not what the
\* job was made for, is skipped.
\* Faulty variant: a late one is not.
Changed(job, x, t) ==
    Closed(x, t) \/ Fingerprint(x, key) # job.print \/ x.version # job.version
Outdated(job, x, t) ==
    \/ t > job.due + Lateness \/ Closed(x, t)
    \/ Fingerprint(x, key) # job.print \/ x.version # job.version

Check(w) ==
    LET k == worker[w].job
        stale == Outdated(worker[w].queue[k], source[k.subject], worker[w].date)
    IN  /\ worker[w].pc = "check"
        /\ IF stale THEN UpdateJob(k, "SKIPPED") /\ Become(w, JobDone(w))
           ELSE Goto(w, "preview") /\ UNCHANGED jobs
        /\ UNCHANGED <<domain, bounds, now, key, state, target, attempts>>

\* messaging.preview(); whether links and codes are prepared is not modelled.
Preview(w) ==
    /\ worker[w].pc = "preview"
    /\ \/ UpdateJob(worker[w].job, "BLOCKED") /\ Become(w, JobDone(w))
       \/ /\ Become(w, IF Renewed(w)
                       THEN [worker[w] EXCEPT !.pc = "claim",
                                              !.preview = source[worker[w].job.subject]]
                       ELSE JobDone(w))
          /\ UNCHANGED jobs
    /\ UNCHANGED <<domain, bounds, now, key, state, target, attempts>>

\* messaging.sendAutomatic() claims the job's key if the subject has the job's version
\* and is what was previewed, eligible, and cancelled exactly for a cancellation.  Neither
\* the end of the stay nor the window of the job is looked at again.
\* Faulty variant: only what was previewed counts.
PreviewOnly(k, job, preview) ==
    LET x == source[k.subject]
    IN  x = preview /\ x.open /\ (x.status = "CANCELLED" <=> k.kind = "CANCEL")
Sendable(k, job, preview) ==
    LET x == source[k.subject]
    IN  /\ x = preview /\ x.open /\ (x.status = "CANCELLED" <=> k.kind = "CANCEL")
        /\ x.version = job.version

Claim(w) ==
    LET k == worker[w].job
    IN  /\ worker[w].pc = "claim"
        /\ \/ /\ k \in DOMAIN attempts
              /\ Become(w, [worker[w] EXCEPT !.pc = "record", !.status = attempts[k]])
              /\ UNCHANGED attempts
           \/ /\ k \notin DOMAIN attempts
              /\ Sendable(k, worker[w].queue[k], worker[w].preview)
              /\ attempts' = With(attempts, k, "SENDING")
              /\ Goto(w, "sending")
           \/ k \notin DOMAIN attempts /\ Goto(w, "caught") /\ UNCHANGED attempts
        /\ UNCHANGED <<domain, bounds, now, key, state, target, jobs>>

\* ... and sends, or fails before it can record what came of it.
Send(w) ==
    LET k == worker[w].job
    IN  /\ worker[w].pc = "sending"
        /\ \/ \E a \in Results :
                /\ attempts' = [attempts EXCEPT ![k] = a]
                /\ Become(w, [worker[w] EXCEPT !.pc = "record", !.status = a])
           \/ Goto(w, "caught") /\ UNCHANGED attempts
        /\ UNCHANGED <<domain, bounds, now, key, state, target, jobs>>

\* A failed send is only BLOCKED if there is no attempt.
Caught(w) ==
    LET k == worker[w].job
    IN  /\ worker[w].pc = "caught"
        /\ IF k \in DOMAIN attempts
           THEN /\ Become(w, [worker[w] EXCEPT !.pc = "record", !.status = attempts[k]])
                /\ UNCHANGED jobs
           ELSE UpdateJob(k, "BLOCKED") /\ Become(w, JobDone(w))
        /\ UNCHANGED <<domain, bounds, now, key, state, target, attempts>>

Record(w) ==
    /\ worker[w].pc = "record"
    /\ RecordDispatch(worker[w].job, worker[w].status)
    /\ Become(w, JobDone(w))
    /\ UNCHANGED <<domain, bounds, now, key, state, target, attempts>>

--------------------------------------------------------------------------------
\* What a lookup may find of an attempt, as messaging.refresh() leaves it.
Refreshed(a) ==
    CASE a = "SENDING"  -> {"SENDING", "UNKNOWN"}
      [] a = "ACCEPTED" -> {"ACCEPTED"} \cup (Results \ {"UNKNOWN"})
      [] a = "UNKNOWN"  -> {"UNKNOWN"} \cup Results
      [] a = "FAILED"   -> {"FAILED"}

\* refreshResults(): the attempts without a final result, one by one; a lookup that
\* fails is left to a later tick.
ReadResults(w) ==
    /\ worker[w].pc = "next"
    /\ worker[w].queue = <<>>
    /\ Become(w, [worker[w] EXCEPT !.pc = "poll",
                    !.queue = [k \in {j \in DOMAIN attempts : attempts[j] # "FAILED"} |-> None]])
    /\ UNCHANGED <<domain, bounds, now, key, state, target, jobs, attempts>>

Poll(w) ==
    /\ worker[w].pc = "poll"
    /\ Renewed(w)
    /\ \E k \in DOMAIN worker[w].queue :
         \/ \E a \in Refreshed(attempts[k]) :
              /\ attempts' = [attempts EXCEPT ![k] = a]
              /\ Become(w, [worker[w] EXCEPT !.pc = "polled", !.job = k, !.status = a])
         \/ Become(w, [worker[w] EXCEPT !.queue = Without(@, k)]) /\ UNCHANGED attempts
    /\ UNCHANGED <<domain, bounds, now, key, state, target, jobs>>

\* Only a job that knows its attempt is found by it.
Polled(w) ==
    LET k == worker[w].job
    IN  /\ worker[w].pc = "polled"
        /\ IF jobs[k].dispatched THEN RecordDispatch(k, worker[w].status) ELSE UNCHANGED jobs
        /\ Become(w, [JobDone(w) EXCEPT !.pc = "poll"])
        /\ UNCHANGED <<domain, bounds, now, key, state, target, attempts>>

PollDone(w) ==
    /\ worker[w].pc = "poll"
    /\ worker[w].queue = <<>>
    /\ Goto(w, "release")
    /\ UNCHANGED <<domain, bounds, now, key, state, target, jobs, attempts>>

\* finally: a lease that is still its own is given back.
Release(w) ==
    /\ worker[w].pc = "release"
    /\ state' = IF state.owner = w THEN [state EXCEPT !.owner = None, !.valid = FALSE] ELSE state
    /\ Become(w, NoWork)
    /\ UNCHANGED <<domain, bounds, now, key, target, jobs, attempts>>

--------------------------------------------------------------------------------
\* A query fails, or the module is being destroyed: the lease is given back.
Throw(w) ==
    /\ worker[w].pc \notin {"idle", "lease", "release"}
    /\ faults < MaxFaults
    /\ faults' = faults + 1
    /\ Goto(w, "release")
    /\ UNCHANGED <<domain, pauses, now, key, state, target, jobs, attempts>>

\* The process dies: the lease stays until it expires.
Crash(w) ==
    /\ worker[w].pc # "idle"
    /\ faults < MaxFaults
    /\ faults' = faults + 1
    /\ Become(w, NoWork)
    /\ UNCHANGED <<domain, pauses, now, key, state, target, jobs, attempts>>

\* Two minutes without a renewal: its runner died, or was paused for that long.
Expire ==
    LET gone == worker[state.owner].pc \in {"idle", "lease"}
    IN  /\ state.valid
        /\ gone \/ pauses < MaxPauses
        /\ pauses' = IF gone THEN pauses ELSE pauses + 1
        /\ state' = [state EXCEPT !.valid = FALSE]
        /\ UNCHANGED <<domain, faults, now, key, target, jobs, attempts, worker>>

\* An administrator refreshes an attempt.
ManualRefresh(k) ==
    /\ \E a \in Refreshed(attempts[k]) : attempts' = [attempts EXCEPT ![k] = a]
    /\ UNCHANGED <<domain, bounds, now, key, state, target, jobs, worker>>

\* A stay, task, property or staff member changes.  Only a revision changes the schedule
\* or the status.
Edit(s) ==
    /\ edits < MaxEdits /\ source[s] # None
    /\ edits' = edits + 1
    /\ \E n \in {0, 1}, c \in Contents, d \in Schedules(s), status \in {"ACTIVE", "CANCELLED"},
          open \in BOOLEAN :
         LET x == [source[s] EXCEPT !.version = @ + n, !.content = c, !.due = d.due, !.end = d.end,
                                    !.status = status, !.open = open]
         IN  /\ x # source[s]
             /\ n = 0 => /\ x.due = source[s].due /\ x.end = source[s].end
                         /\ x.status = source[s].status
             /\ source' = [source EXCEPT ![s] = x]
    /\ UNCHANGED <<bounds, now, key, state, target, jobs, attempts, worker>>

\* A stay is booked, or a task planned.
Create(s) ==
    /\ source[s] = None
    /\ \E c \in Contents, d \in Schedules(s) :
         source' = [source EXCEPT ![s] = [version |-> 0, content |-> c, due |-> d.due,
                                          end |-> d.end, status |-> "ACTIVE", open |-> TRUE,
                                          created |-> now]]
    /\ UNCHANGED <<edits, bounds, now, key, state, target, jobs, attempts, worker>>

PassTime ==
    /\ now < MaxTime
    /\ now' = now + 1
    /\ UNCHANGED <<domain, bounds, key, state, target, jobs, attempts, worker>>

\* A deployment with a new signing key: every server restarts.
Rotate ==
    /\ key < MaxKey
    /\ key' = key + 1
    /\ worker' = [w \in Workers |-> NoWork]
    /\ UNCHANGED <<domain, bounds, now, state, target, jobs, attempts>>

--------------------------------------------------------------------------------
Init ==
    /\ source = [s \in Subjects |-> None]
    /\ now = 0 /\ edits = 0 /\ faults = 0 /\ pauses = 0 /\ key = 0
    /\ state = [key |-> None, activated |-> 0, owner |-> None, valid |-> FALSE]
    /\ target = [s \in Subjects |-> None]
    /\ jobs = <<>> /\ attempts = <<>>
    /\ worker = [w \in Workers |-> NoWork]

Tick(w) ==
    \/ ReadState(w) \/ TakeLease(w) \/ LeaseLost(w)
    \/ RecoverRead(w) \/ RecoverOne(w)
    \/ ReadPage(w) \/ ObserveRead(w) \/ ObserveCommit(w) \/ Stamp(w)
    \/ ReadJobs(w) \/ PickJob(w) \/ Check(w) \/ Preview(w) \/ Claim(w) \/ Send(w)
    \/ Caught(w) \/ Record(w)
    \/ ReadResults(w) \/ Poll(w) \/ Polled(w) \/ PollDone(w) \/ Release(w)

Next ==
    \/ \E w \in Workers : Tick(w) \/ Throw(w) \/ Crash(w)
    \/ Expire \/ PassTime \/ Rotate
    \/ \E k \in DOMAIN attempts : ManualRefresh(k)
    \/ \E s \in Subjects : Create(s) \/ Edit(s)

Spec == Init /\ [][Next]_vars

\* Runners wake up every minute for ever, time passes, and a lease that is not renewed
\* expires.
Fairness == (\A w \in Workers : WF_vars(Tick(w))) /\ WF_vars(PassTime) /\ WF_vars(Expire)

FairSpec == Spec /\ Fairness

--------------------------------------------------------------------------------
IsEvent(k) == k.kind \notin Reminders

\* However long ago the job was read: a reminder is only requested when it is due under
\* the schedule as it stands then, nothing is requested about a subject that is not
\* eligible, and a stay that is over by the schedule it still has was not over yet when
\* its job was picked.  (The stay may end between the pick and the claim.)
SentAsScheduled ==
    [][\A k \in DOMAIN attempts' \ DOMAIN attempts :
         LET x == source[k.subject]
         IN  /\ x.open
             /\ IsEvent(k) \/ (x.status = "ACTIVE" /\ x.due[k.kind] <= now)
             /\ \E w \in Workers : /\ worker[w].pc = "claim" /\ worker'[w].pc = "sending"
                                    /\ worker[w].job = k /\ worker[w].date < x.end]_vars

\* What is queued about a subject is the change that was observed last.
QueuedEventsAreCurrent ==
    \A k \in DOMAIN jobs :
        IsEvent(k) /\ jobs[k].status \in Live /\ ~jobs[k].dispatched
        => jobs[k].print = target[k.subject].print /\ k.seq = target[k.subject].seq

\* A job that knows its attempt says no more about it than is true, and never again that
\* it is pending, blocked or skipped.
TruthfulJobs ==
    \A k \in DOMAIN jobs :
        /\ jobs[k].dispatched <=> jobs[k].status \in Final
        /\ jobs[k].dispatched => k \in DOMAIN attempts
        /\ jobs[k].status = "FAILED" => attempts[k] = "FAILED"
        /\ jobs[k].status = "COMPLETED" => attempts[k] \in {"ACCEPTED", "FAILED"}

\* Every attempt is eventually recorded in its job, whatever crashed in between.
AttemptsAreRecorded ==
    \A s \in Subjects :
        LET unrecorded == \E k \in DOMAIN attempts : k.subject = s /\ ~jobs[k].dispatched
        IN  unrecorded ~> ~unrecorded

\* No job stays queued for ever: sent or blocked, it ends with its window.
LateJobsEnd ==
    \A s \in Subjects :
        LET late == \E k \in DOMAIN jobs : /\ k.subject = s /\ jobs[k].status \in Live
                                           /\ now > jobs[k].due + Lateness
        IN  late ~> ~late

\* A change that lasts, of a subject that is not closed, is eventually noticed: an event job
\* is made for it under the sequence number of its observation.
ChangesAreNoticed ==
    \A s \in Subjects, c \in Contents :
        LET lasts   == source[s] # None /\ ~Closed(source[s], now) /\ source[s].content = c
            changed == /\ lasts /\ target[s] # None
                       /\ target[s].print.key = key /\ target[s].print.content # c
            noticed == \E k \in DOMAIN jobs : /\ k.subject = s /\ IsEvent(k)
                                              /\ k.seq = target[s].seq
                                              /\ jobs[k].print.content = c
        IN  changed ~> (noticed \/ ~lasts)
================================================================================
