------------------------ MODULE MessageAutomationProofs ------------------------
(***************************************************************************)
(* What is proved of the automation: the type invariant; that a reminder   *)
(* is only requested when it is due, however many runners are paused for   *)
(* however long; and that while no lease has expired under its runner only *)
(* one runner is at work, and the jobs and the queued events are true.     *)
(***************************************************************************)
EXTENDS MessageAutomation, TLAPS

--------------------------------------------------------------------------------
\* The places of a runner: where it works on the jobs it read, and on one of them.
Sending == {"next", "check", "preview", "claim", "sending", "caught", "record"}
AtJob == Sending \ {"next"}
Places == {"idle", "lease", "recover", "recovering", "stays", "tasks", "observe", "commit",
           "stamp", "jobs", "poll", "polled", "release"} \cup Sending

Pages == UNION {[S -> Source] : S \in SUBSET Subjects}
Queues == UNION {[K -> Job \cup AttemptStatuses \cup {None}] : K \in SUBSET JobKeys}
Runner == [pc: Places, date: Times, rebase: BOOLEAN, page: Pages, then: {"tasks", "stamp"},
           subject: Subjects \cup {None}, previous: Target \cup {None},
           free: SUBSET Reminders, queue: Queues, job: JobKeys \cup {None},
           preview: Source \cup {None}, status: AttemptStatuses]

\* A reminder's job is due when the schedule it was made for says.
DueAsPrinted(k, job) == k.kind \in Reminders => job.due = job.print.due[k.kind]

RowsOK ==
    /\ source \in [Subjects -> Source \cup {None}]
    /\ now \in Times /\ edits \in 0..MaxEdits /\ faults \in 0..MaxFaults
    /\ pauses \in 0..MaxPauses /\ key \in 0..MaxKey
    /\ state \in [key: (0..MaxKey) \cup {None}, activated: Times, owner: Workers \cup {None},
                  valid: BOOLEAN]
    /\ target \in [Subjects -> Target \cup {None}]
    /\ \A s \in Subjects : source[s] \in Source => source[s].version <= edits

JobsOK ==
    /\ jobs \in [DOMAIN jobs -> Job] /\ DOMAIN jobs \subseteq JobKeys
    /\ \A k \in DOMAIN jobs : /\ source[k.subject] \in Source
                              /\ target[k.subject] \in Target
                              /\ DueAsPrinted(k, jobs[k])

AttemptsOK ==
    /\ attempts \in [DOMAIN attempts -> AttemptStatuses]
    /\ DOMAIN attempts \subseteq DOMAIN jobs

\* What a runner holds of the rows, by its place.
RunnerOK(w) ==
    /\ \A s \in DOMAIN worker[w].page : source[s] \in Source
    /\ worker[w].pc = "commit" => worker[w].subject \in DOMAIN worker[w].page
    /\ worker[w].pc = "recovering" =>
         \A k \in DOMAIN worker[w].queue : /\ k \in DOMAIN attempts
                                           /\ worker[w].queue[k] \in AttemptStatuses
    /\ worker[w].pc \in Sending =>
         \A k \in DOMAIN worker[w].queue : /\ k \in DOMAIN jobs
                                           /\ worker[w].queue[k] \in Job
                                           /\ worker[w].queue[k].due <= now
                                           /\ DueAsPrinted(k, worker[w].queue[k])
    /\ worker[w].pc \in AtJob => worker[w].job \in DOMAIN worker[w].queue
    /\ worker[w].pc \in {"sending", "record", "polled"} => worker[w].job \in DOMAIN attempts
    /\ worker[w].pc \in {"poll", "polled"} => DOMAIN worker[w].queue \subseteq DOMAIN attempts

\* A job was made for the schedule its subject has, unless the version is another by now.
Matches(x, job) ==
    /\ x.version >= job.version
    /\ x.version = job.version => x.due = job.print.due /\ x.end = job.print.end

\* So is a job that was compared with its subject, and the stay was not over when it was
\* picked.
Compared(w) ==
    LET k   == worker[w].job
        job == worker[w].queue[k]
    IN  worker[w].pc \in {"preview", "claim"} =>
          Matches(source[k.subject], job) /\ worker[w].date < job.print.end

AInv ==
    /\ RowsOK /\ JobsOK /\ AttemptsOK
    /\ worker \in [Workers -> Runner]
    /\ \A w \in Workers : RunnerOK(w) /\ Compared(w) /\ worker[w].date <= now

--------------------------------------------------------------------------------
\* What a status that was read still says of an attempt.
StillTrue(k, a) ==
    /\ a = "FAILED" => attempts[k] = "FAILED"
    /\ a = "ACCEPTED" => attempts[k] \in {"ACCEPTED", "FAILED"}

AtWork(w) == worker[w].pc \notin {"idle", "lease"}

\* A runner whose lease never expired under it finds the rows as it read them.
AsRead(w) ==
    /\ AtWork(w) => Renewed(w)
    /\ worker[w].pc = "commit" =>
         /\ worker[w].previous = target[worker[w].subject]
         /\ \A r \in worker[w].free :
              LET k == Reminder(worker[w].subject, r) IN
              k \in DOMAIN jobs => ~jobs[k].dispatched
    /\ worker[w].pc \in Sending =>
         \A k \in DOMAIN worker[w].queue : /\ jobs[k] = worker[w].queue[k]
                                           /\ jobs[k].status \in Live
    /\ worker[w].pc \in {"check", "preview", "claim"} => worker[w].job \notin DOMAIN attempts
    /\ worker[w].pc \in {"record", "polled"} => StillTrue(worker[w].job, worker[w].status)
    /\ worker[w].pc = "recovering" =>
         \A k \in DOMAIN worker[w].queue : StillTrue(k, worker[w].queue[k])

CInv ==
    /\ TruthfulJobs /\ QueuedEventsAreCurrent
    /\ \A w \in Workers : AsRead(w)

--------------------------------------------------------------------------------
\* The bounds, one by one.
LEMMA Bounds == MaxTime \in Nat /\ MaxEdits \in Nat /\ MaxKey \in Nat /\ MaxFaults \in Nat
                /\ MaxPauses \in Nat
BY BoundsAreNumbers

\* A runner at rest.
LEMMA NoWorkIsRunner == NoWork \in Runner
<1>1. <<>> \in [{} -> Source] /\ <<>> \in [{} -> Job \cup AttemptStatuses \cup {None}]
  OBVIOUS
<1>2. <<>> \in Pages /\ <<>> \in Queues
  BY <1>1 DEF Pages, Queues
<1>3. "idle" \in Places /\ "SENDING" \in AttemptStatuses /\ 0 \in Times
  BY Bounds DEF Places, AttemptStatuses, Times
<1> QED BY <1>2, <1>3 DEF NoWork, Runner

\* A page and a queue are functions, and stay so without one of their elements.
LEMMA PageLess ==
    ASSUME NEW f \in Pages, NEW x
    PROVE  /\ DOMAIN f \subseteq Subjects
           /\ \A s \in DOMAIN f : f[s] \in Source
           /\ Without(f, x) \in Pages
           /\ DOMAIN Without(f, x) = DOMAIN f \ {x}
           /\ \A s \in DOMAIN f \ {x} : Without(f, x)[s] = f[s]
<1>1. PICK S \in SUBSET Subjects : f \in [S -> Source]
  BY DEF Pages
<1>2. Without(f, x) \in [S \ {x} -> Source]
  BY <1>1 DEF Without
<1>3. S \ {x} \in SUBSET Subjects
  OBVIOUS
<1> QED BY <1>1, <1>2, <1>3 DEF Pages, Without

LEMMA QueueLess ==
    ASSUME NEW f \in Queues, NEW x
    PROVE  /\ DOMAIN f \subseteq JobKeys
           /\ Without(f, x) \in Queues
           /\ DOMAIN Without(f, x) = DOMAIN f \ {x}
           /\ \A k \in DOMAIN f \ {x} : Without(f, x)[k] = f[k]
<1>1. PICK K \in SUBSET JobKeys : f \in [K -> Job \cup AttemptStatuses \cup {None}]
  BY DEF Queues
<1>2. Without(f, x) \in [K \ {x} -> Job \cup AttemptStatuses \cup {None}]
  BY <1>1 DEF Without
<1>3. K \ {x} \in SUBSET JobKeys
  OBVIOUS
<1> QED BY <1>1, <1>2, <1>3 DEF Queues, Without

\* A runner that becomes x is x then, and the others are what they were.
LEMMA Moved ==
    ASSUME worker \in [Workers -> Runner], NEW w \in Workers, NEW x \in Runner, Become(w, x)
    PROVE  /\ worker' \in [Workers -> Runner]
           /\ worker'[w] = x
           /\ \A v \in Workers \ {w} : worker'[v] = worker[v]
BY DEF Become

\* Where a runner goes without anything else.
LEMMA Going ==
    ASSUME worker \in [Workers -> Runner], NEW w \in Workers, NEW l \in Places
    PROVE  /\ [worker[w] EXCEPT !.pc = l] \in Runner
           /\ [worker[w] EXCEPT !.pc = l].pc = l
           /\ [worker[w] EXCEPT !.pc = l].date = worker[w].date
           /\ [worker[w] EXCEPT !.pc = l].page = worker[w].page
           /\ [worker[w] EXCEPT !.pc = l].queue = worker[w].queue
           /\ [worker[w] EXCEPT !.pc = l].job = worker[w].job
           /\ [worker[w] EXCEPT !.pc = l].subject = worker[w].subject
           /\ [worker[w] EXCEPT !.pc = l].status = worker[w].status
<1>1. worker[w] \in Runner
  OBVIOUS
<1> QED BY <1>1 DEF Runner

--------------------------------------------------------------------------------
\* What every step does to the rows: none disappears, a due time passes for good, and a
\* subject changes its schedule with its version only.
Grows ==
    /\ DOMAIN jobs \subseteq DOMAIN jobs' /\ DOMAIN attempts \subseteq DOMAIN attempts'
    /\ now <= now'
    /\ \A s \in Subjects : source[s] \in Source =>
         /\ source'[s] \in Source
         /\ source'[s].version >= source[s].version
         /\ source'[s].version = source[s].version =>
              source'[s].due = source[s].due /\ source'[s].end = source[s].end

\* A runner that does nothing keeps what it holds.
LEMMA OthersKeep ==
    ASSUME AInv, now' \in Nat, Grows, NEW v \in Workers, worker'[v] = worker[v]
    PROVE  RunnerOK(v)' /\ Compared(v)' /\ worker'[v].date <= now'
<1> DEFINE r == worker[v]
<1>1. r \in Runner /\ RunnerOK(v) /\ Compared(v)
  BY DEF AInv
<1>2. r.page \in Pages /\ r.queue \in Queues
  BY <1>1 DEF Runner
<1>3. DOMAIN r.page \subseteq Subjects /\ DOMAIN r.queue \subseteq JobKeys
  BY <1>2, PageLess, QueueLess
<1>4. \A s \in DOMAIN r.page : source'[s] \in Source
  BY <1>1, <1>3 DEF RunnerOK, Grows
<1>5. now \in Nat
  BY Bounds DEF AInv, RowsOK, Times
<1>6. RunnerOK(v)'
  <2>1. (worker[v].pc = "commit" => worker[v].subject \in DOMAIN worker[v].page)'
    BY <1>1 DEF RunnerOK
  <2>2. r.pc = "recovering" =>
         \A k \in DOMAIN r.queue : k \in DOMAIN attempts' /\ r.queue[k] \in AttemptStatuses
    BY <1>1 DEF RunnerOK, Grows
  <2>3. r.pc \in Sending =>
         \A k \in DOMAIN r.queue : /\ k \in DOMAIN jobs' /\ r.queue[k] \in Job
                                    /\ r.queue[k].due <= now' /\ DueAsPrinted(k, r.queue[k])
    <3> SUFFICES ASSUME r.pc \in Sending, NEW k \in DOMAIN r.queue
                 PROVE  /\ k \in DOMAIN jobs' /\ r.queue[k] \in Job
                        /\ r.queue[k].due <= now' /\ DueAsPrinted(k, r.queue[k])
      OBVIOUS
    <3>1. k \in DOMAIN jobs /\ r.queue[k] \in Job /\ r.queue[k].due <= now
          /\ DueAsPrinted(k, r.queue[k])
      BY <1>1 DEF RunnerOK
    <3>2. r.queue[k].due \in Nat
      BY <3>1 DEF Job, Times
    <3> QED BY <3>1, <3>2, <1>5 DEF Grows
  <2>4. r.pc \in AtJob => r.job \in DOMAIN r.queue
    BY <1>1 DEF RunnerOK
  <2>5. /\ r.pc \in {"sending", "record", "polled"} => r.job \in DOMAIN attempts'
        /\ r.pc \in {"poll", "polled"} => DOMAIN r.queue \subseteq DOMAIN attempts'
    BY <1>1 DEF RunnerOK, Grows
  <2> QED BY <1>4, <2>1, <2>2, <2>3, <2>4, <2>5 DEF RunnerOK, DueAsPrinted
<1>7. Compared(v)'
  <2> SUFFICES ASSUME r.pc \in {"preview", "claim"}
               PROVE  /\ Matches(source'[r.job.subject], r.queue[r.job])
                      /\ r.date < r.queue[r.job].print.end
    BY DEF Compared, Matches
  <2>1. r.job \in DOMAIN r.queue /\ r.job \in DOMAIN jobs /\ r.queue[r.job] \in Job
    BY <1>1 DEF RunnerOK, AtJob, Sending
  <2>2. source[r.job.subject] \in Source /\ r.job.subject \in Subjects
    BY <2>1, <1>3 DEF AInv, JobsOK, JobKeys
  <2>3. source[r.job.subject].version \in Nat /\ source'[r.job.subject].version \in Nat
        /\ r.queue[r.job].version \in Nat
    BY <2>1, <2>2 DEF Grows, Source, Job
  <2>4. Matches(source[r.job.subject], r.queue[r.job]) /\ r.date < r.queue[r.job].print.end
    BY <1>1 DEF Compared
  <2>5. /\ source'[r.job.subject].version >= source[r.job.subject].version
        /\ source'[r.job.subject].version = source[r.job.subject].version =>
             /\ source'[r.job.subject].due = source[r.job.subject].due
             /\ source'[r.job.subject].end = source[r.job.subject].end
    BY <2>2 DEF Grows
  <2> QED BY <2>3, <2>4, <2>5 DEF Matches
<1>8. worker'[v].date <= now'
  <2>1. r.date \in Nat /\ r.date <= now
    BY <1>1, Bounds DEF Runner, Times, AInv
  <2> QED BY <2>1, <1>5 DEF Grows
<1> QED BY <1>6, <1>7, <1>8

\* A step of one runner keeps the invariant if it does for the rows and for itself.
LEMMA RunnerSteps ==
    ASSUME AInv, NEW w \in Workers, NEW x \in Runner, Become(w, x),
           x.date \in {0, now, worker[w].date},
           RowsOK', JobsOK', AttemptsOK', Grows, (RunnerOK(w) /\ Compared(w))'
    PROVE  AInv'
<1>1. /\ worker' \in [Workers -> Runner] /\ worker'[w] = x
      /\ \A v \in Workers \ {w} : worker'[v] = worker[v]
  BY Moved DEF AInv
<1>2. now \in Nat /\ now' \in Nat
  BY Bounds DEF AInv, RowsOK, Times
<1>3. \A v \in Workers \ {w} : RunnerOK(v)' /\ Compared(v)' /\ worker'[v].date <= now'
  BY <1>1, <1>2, OthersKeep
<1>4. worker'[w].date <= now'
  <2>1. worker[w].date \in Nat /\ worker[w].date <= now
    BY Bounds DEF AInv, Runner, Times
  <2> QED BY <1>1, <1>2, <2>1 DEF Grows
<1> QED BY <1>1, <1>3, <1>4 DEF AInv

\* Steps that write no row but that of the state.
LEMMA RowsStay ==
    ASSUME AInv, UNCHANGED <<source, now, edits, key, target, jobs, attempts>>,
           faults' \in 0..MaxFaults, pauses' \in 0..MaxPauses,
           state' \in [key: (0..MaxKey) \cup {None}, activated: Times,
                       owner: Workers \cup {None}, valid: BOOLEAN]
    PROVE  RowsOK' /\ JobsOK' /\ AttemptsOK' /\ Grows
<1>1. RowsOK' /\ JobsOK' /\ AttemptsOK'
  BY DEF AInv, RowsOK, JobsOK, AttemptsOK, DueAsPrinted
<1>2. now \in Nat /\ \A s \in Subjects : source[s] \in Source => source[s].version \in Nat
  BY Bounds DEF AInv, RowsOK, Times, Source
<1> QED BY <1>1, <1>2 DEF Grows

\* Where a runner depends on no row but those of its page.
Quiet == {"idle", "lease", "recover", "stays", "tasks", "observe", "stamp", "jobs", "release"}

LEMMA QuietPlaces ==
    ASSUME AInv, Grows, NEW w \in Workers, NEW x \in Runner, Become(w, x), x.pc \in Quiet,
           \A s \in DOMAIN x.page : source[s] \in Source
    PROVE  (RunnerOK(w) /\ Compared(w))'
<1>1. worker'[w] = x
  BY Moved DEF AInv
<1>2. x.page \in Pages
  BY DEF Runner
<1>3. \A s \in DOMAIN x.page : source'[s] \in Source
  BY <1>2, PageLess DEF Grows
<1>4. x.pc \notin Sending \cup AtJob \cup {"commit", "recovering", "polled", "poll"}
  BY DEF Quiet, Sending, AtJob
<1> QED BY <1>1, <1>3, <1>4 DEF RunnerOK, Compared, Sending, AtJob

\* A runner that only goes to such a place, or stops working.
LEMMA QuietSteps ==
    ASSUME AInv, NEW w \in Workers,
           RowsOK', JobsOK', AttemptsOK', Grows,
           \/ Become(w, NoWork)
           \/ \E l \in Quiet : Goto(w, l)
    PROVE  AInv'
<1>1. CASE Become(w, NoWork)
  <2>1. NoWork.pc \in Quiet /\ DOMAIN NoWork.page = {} /\ NoWork.date = 0
    BY DEF NoWork, Quiet
  <2> QED BY <1>1, <2>1, NoWorkIsRunner, QuietPlaces, RunnerSteps
<1>2. CASE \E l \in Quiet : Goto(w, l)
  <2>1. PICK l \in Quiet : Goto(w, l)
    BY <1>2
  <2> DEFINE x == [worker[w] EXCEPT !.pc = l]
  <2>2. l \in Places
    BY DEF Quiet, Places
  <2>3. worker \in [Workers -> Runner] /\ RunnerOK(w)
    BY DEF AInv
  <2>4. x \in Runner /\ x.pc = l /\ x.page = worker[w].page /\ x.date = worker[w].date
    BY <2>2, <2>3, Going
  <2>5. \A s \in DOMAIN x.page : source[s] \in Source
    BY <2>3, <2>4 DEF RunnerOK
  <2>6. Become(w, x)
    BY <2>1 DEF Goto
  <2> HIDE DEF x
  <2> QED BY <2>4, <2>5, <2>6, QuietPlaces, RunnerSteps
<1> QED BY <1>1, <1>2

--------------------------------------------------------------------------------
\* No row and no runner at work at the start.
LEMMA InitAInv == Init => AInv
<1> SUFFICES ASSUME Init PROVE AInv
  OBVIOUS
<1>1. RowsOK
  BY Bounds, NoneIsNoRow DEF Init, RowsOK, Times
<1>2. DOMAIN jobs = {} /\ DOMAIN attempts = {}
  BY DEF Init
<1>3. JobsOK /\ AttemptsOK
  BY <1>2 DEF Init, JobsOK, AttemptsOK
<1>4. worker \in [Workers -> Runner]
  BY NoWorkIsRunner DEF Init
<1>5. \A w \in Workers : RunnerOK(w) /\ Compared(w) /\ worker[w].date <= now
  BY DEF Init, NoWork, RunnerOK, Compared, Sending, AtJob
<1> QED BY <1>1, <1>3, <1>4, <1>5 DEF AInv

LEMMA ReadStateStep == ASSUME AInv, NEW w \in Workers, ReadState(w) PROVE AInv'
<1>1. RowsOK' /\ JobsOK' /\ AttemptsOK' /\ Grows
  <2>1. state' \in [key: (0..MaxKey) \cup {None}, activated: Times,
                    owner: Workers \cup {None}, valid: BOOLEAN]
    BY DEF ReadState, AInv, RowsOK
  <2>2. faults' \in 0..MaxFaults /\ pauses' \in 0..MaxPauses
    BY DEF ReadState, AInv, RowsOK, bounds
  <2> QED BY <2>1, <2>2, RowsStay DEF ReadState, domain
<1> DEFINE x == [NoWork EXCEPT !.pc = "lease", !.date = now, !.rebase = state'.key # key]
<1>2. x \in Runner /\ x.pc \in Quiet /\ DOMAIN x.page = {} /\ x.date = now
  <2>1. NoWork \in Runner /\ "lease" \in Places /\ (state'.key # key) \in BOOLEAN
        /\ now \in Times
    BY NoWorkIsRunner DEF Places, AInv, RowsOK
  <2>2. x \in Runner /\ x.pc = "lease" /\ x.page = NoWork.page /\ x.date = now
    BY <2>1 DEF Runner
  <2>3. NoWork.page = <<>>
    BY DEF NoWork
  <2> QED BY <2>2, <2>3 DEF Quiet
<1>3. Become(w, x)
  BY DEF ReadState
<1> HIDE DEF x
<1> QED BY <1>1, <1>2, <1>3, QuietPlaces, RunnerSteps

LEMMA TakeLeaseStep == ASSUME AInv, NEW w \in Workers, TakeLease(w) PROVE AInv'
<1>1. RowsOK' /\ JobsOK' /\ AttemptsOK' /\ Grows
  <2>1. state' \in [key: (0..MaxKey) \cup {None}, activated: Times,
                    owner: Workers \cup {None}, valid: BOOLEAN]
    BY DEF TakeLease, AInv, RowsOK
  <2>2. faults' \in 0..MaxFaults /\ pauses' \in 0..MaxPauses
    BY DEF TakeLease, AInv, RowsOK, bounds
  <2> QED BY <2>1, <2>2, RowsStay DEF TakeLease, domain
<1>2. Become(w, NoWork) \/ Goto(w, "recover")
  BY DEF TakeLease
<1> QED BY <1>1, <1>2, QuietSteps DEF Quiet

LEMMA StampStep == ASSUME AInv, NEW w \in Workers, Stamp(w) PROVE AInv'
<1>1. RowsOK' /\ JobsOK' /\ AttemptsOK' /\ Grows
  <2>1. state' \in [key: (0..MaxKey) \cup {None}, activated: Times,
                    owner: Workers \cup {None}, valid: BOOLEAN]
    BY DEF Stamp, AInv, RowsOK
  <2>2. faults' \in 0..MaxFaults /\ pauses' \in 0..MaxPauses
    BY DEF Stamp, AInv, RowsOK, bounds
  <2> QED BY <2>1, <2>2, RowsStay DEF Stamp, domain
<1>2. Goto(w, "jobs")
  BY DEF Stamp
<1> QED BY <1>1, <1>2, QuietSteps DEF Quiet

LEMMA ReleaseStep == ASSUME AInv, NEW w \in Workers, Release(w) PROVE AInv'
<1>1. RowsOK' /\ JobsOK' /\ AttemptsOK' /\ Grows
  <2>1. state' \in [key: (0..MaxKey) \cup {None}, activated: Times,
                    owner: Workers \cup {None}, valid: BOOLEAN]
    BY DEF Release, AInv, RowsOK
  <2>2. faults' \in 0..MaxFaults /\ pauses' \in 0..MaxPauses
    BY DEF Release, AInv, RowsOK, bounds
  <2> QED BY <2>1, <2>2, RowsStay DEF Release, domain
<1> QED BY <1>1, QuietSteps DEF Release

\* A runner that gives up: it lost its lease, is done, failed, or died.
LEMMA StopSteps ==
    ASSUME AInv, NEW w \in Workers, LeaseLost(w) \/ PollDone(w) \/ Throw(w) \/ Crash(w)
    PROVE  AInv'
<1>1. UNCHANGED <<source, now, edits, key, state, target, jobs, attempts>>
  BY DEF LeaseLost, PollDone, Throw, Crash, domain
<1>2. faults' \in 0..MaxFaults /\ pauses' \in 0..MaxPauses
  BY Bounds DEF LeaseLost, PollDone, Throw, Crash, bounds, AInv, RowsOK
<1>3. RowsOK' /\ JobsOK' /\ AttemptsOK' /\ Grows
  BY <1>1, <1>2, RowsStay DEF AInv, RowsOK
<1>4. Goto(w, "release") \/ Become(w, NoWork)
  BY DEF LeaseLost, PollDone, Throw, Crash
<1> QED BY <1>3, <1>4, QuietSteps DEF Quiet

\* A lease that expires.
LEMMA ExpireStep == ASSUME AInv, Expire PROVE AInv'
<1>1. RowsOK' /\ JobsOK' /\ AttemptsOK' /\ Grows
  <2>1. state' \in [key: (0..MaxKey) \cup {None}, activated: Times,
                    owner: Workers \cup {None}, valid: BOOLEAN]
    BY DEF Expire, AInv, RowsOK
  <2>2. faults' \in 0..MaxFaults /\ pauses' \in 0..MaxPauses
    BY Bounds DEF Expire, AInv, RowsOK
  <2> QED BY <2>1, <2>2, RowsStay DEF Expire, domain
<1>2. now' \in Nat /\ worker' = worker
  BY <1>1, Bounds DEF Expire, RowsOK, Times
<1>3. \A v \in Workers : RunnerOK(v)' /\ Compared(v)' /\ worker'[v].date <= now'
  BY <1>1, <1>2, OthersKeep
<1> QED BY <1>1, <1>2, <1>3 DEF AInv

--------------------------------------------------------------------------------
\* The time is a number, whatever the step.
LEMMA TimesAreNumbers == ASSUME RowsOK' PROVE now' \in Nat
BY Bounds DEF RowsOK, Times

\* What a runner read of the jobs holds after any step.
LEMMA QueueKeeps ==
    ASSUME AInv, RowsOK', Grows, NEW w \in Workers, worker[w].pc \in Sending,
           NEW k \in DOMAIN worker[w].queue
    PROVE  /\ k \in DOMAIN jobs' /\ worker[w].queue[k] \in Job
           /\ worker[w].queue[k].due <= now' /\ DueAsPrinted(k, worker[w].queue[k])
<1>1. /\ k \in DOMAIN jobs /\ worker[w].queue[k] \in Job
      /\ worker[w].queue[k].due <= now /\ DueAsPrinted(k, worker[w].queue[k])
  BY DEF AInv, RunnerOK
<1>2. worker[w].queue[k].due \in Nat /\ now \in Nat /\ now' \in Nat
  BY <1>1, Bounds, TimesAreNumbers DEF Job, Times, AInv, RowsOK
<1> QED BY <1>1, <1>2 DEF Grows

\* The pages of subjects that exist, now and later.
LEMMA PageKeeps ==
    ASSUME AInv, Grows, NEW w \in Workers
    PROVE  /\ DOMAIN worker[w].page \subseteq Subjects
           /\ \A s \in DOMAIN worker[w].page : source'[s] \in Source
<1>1. worker[w].page \in Pages /\ RunnerOK(w)
  BY DEF AInv, Runner
<1> QED BY <1>1, PageLess DEF RunnerOK, Grows

\* A runner at a job is at one that exists.
LEMMA JobAtHand ==
    ASSUME AInv, NEW w \in Workers, worker[w].pc \in AtJob
    PROVE  /\ worker[w].job \in DOMAIN worker[w].queue
           /\ worker[w].job \in DOMAIN jobs
           /\ worker[w].job \in JobKeys
           /\ worker[w].job.subject \in Subjects
           /\ worker[w].queue[worker[w].job] \in Job
           /\ source[worker[w].job.subject] \in Source
<1>1. worker[w].job \in DOMAIN worker[w].queue
  BY DEF AInv, RunnerOK
<1>2. worker[w].job \in DOMAIN jobs /\ worker[w].queue[worker[w].job] \in Job
  BY <1>1 DEF AInv, RunnerOK, AtJob
<1>3. worker[w].job \in JobKeys /\ source[worker[w].job.subject] \in Source
  BY <1>2 DEF AInv, JobsOK
<1> QED BY <1>1, <1>2, <1>3 DEF JobKeys

\* A runner that has dealt with its job goes on with the rest of the queue.
LEMMA DoneIsRunner ==
    ASSUME AInv, NEW w \in Workers
    PROVE  /\ JobDone(w) \in Runner
           /\ JobDone(w).pc = "next" /\ JobDone(w).date = 0
           /\ JobDone(w).page = worker[w].page
           /\ JobDone(w).queue = Without(worker[w].queue, worker[w].job)
           /\ JobDone(w).subject = worker[w].subject
           /\ JobDone(w).then = worker[w].then
<1>1. worker[w] \in Runner /\ worker[w].queue \in Queues
  BY DEF AInv, Runner
<1>2. Without(worker[w].queue, worker[w].job) \in Queues
  BY <1>1, QueueLess
<1>3. "next" \in Places /\ "SENDING" \in AttemptStatuses /\ 0 \in Times
  BY Bounds DEF Places, Sending, AttemptStatuses, Times
<1> QED BY <1>1, <1>2, <1>3 DEF JobDone, Runner

LEMMA NextJob ==
    ASSUME AInv, NEW w \in Workers, worker[w].pc \in Sending,
           RowsOK', JobsOK', AttemptsOK', Grows, Become(w, JobDone(w))
    PROVE  AInv'
<1> DEFINE x == JobDone(w)
<1>1. x \in Runner /\ worker'[w] = x /\ x.pc = "next" /\ x.page = worker[w].page
      /\ x.queue = Without(worker[w].queue, worker[w].job) /\ x.date = 0
  BY DoneIsRunner, Moved DEF AInv
<1> HIDE DEF x
<1>2. worker[w].queue \in Queues
  BY DEF AInv, Runner
<1>3. /\ DOMAIN x.queue \subseteq DOMAIN worker[w].queue
      /\ \A k \in DOMAIN x.queue : x.queue[k] = worker[w].queue[k]
  <2> DEFINE rest == Without(worker[w].queue, worker[w].job)
  <2>1. /\ DOMAIN rest = DOMAIN worker[w].queue \ {worker[w].job}
        /\ \A k \in DOMAIN worker[w].queue \ {worker[w].job} : rest[k] = worker[w].queue[k]
    BY <1>2, QueueLess
  <2> HIDE DEF rest
  <2>2. x.queue = rest
    BY <1>1 DEF rest
  <2> QED BY <2>1, <2>2
<1>4. \A k \in DOMAIN x.queue : /\ k \in DOMAIN jobs' /\ x.queue[k] \in Job
                                /\ x.queue[k].due <= now' /\ DueAsPrinted(k, x.queue[k])
  BY <1>3, QueueKeeps
<1>5. (RunnerOK(w) /\ Compared(w))'
  BY <1>1, <1>4, PageKeeps DEF RunnerOK, Compared, AtJob, DueAsPrinted
<1> QED BY <1>1, <1>5, RunnerSteps DEF x

\* A job that is updated or recorded stays one, under the same schedule.
LEMMA JobWrites ==
    ASSUME AInv, NEW k \in DOMAIN jobs, NEW a,
           \/ UpdateJob(k, a) /\ a \in {"SKIPPED", "BLOCKED"}
           \/ RecordDispatch(k, a),
           UNCHANGED <<source, now, edits, faults, pauses, key, state, target, attempts>>
    PROVE  /\ RowsOK' /\ JobsOK' /\ AttemptsOK' /\ Grows
           /\ DOMAIN jobs' = DOMAIN jobs
           /\ \A j \in DOMAIN jobs \ {k} : jobs'[j] = jobs[j]
<1>1. jobs \in [DOMAIN jobs -> Job] /\ jobs[k] \in Job
  BY DEF AInv, JobsOK
<1>2. PICK d \in BOOLEAN, st \in Live \cup Final \cup {"SKIPPED"} :
        jobs' = [jobs EXCEPT ![k] = [jobs[k] EXCEPT !.dispatched = d, !.status = st]]
  <2>1. CASE UpdateJob(k, a) /\ a \in {"SKIPPED", "BLOCKED"}
    <3>1. jobs' = [jobs EXCEPT ![k] = [jobs[k] EXCEPT !.dispatched = jobs[k].dispatched,
                                                      !.status = a]]
      BY <1>1, <2>1 DEF UpdateJob, Job
    <3>2. jobs[k].dispatched \in BOOLEAN /\ a \in Live \cup Final \cup {"SKIPPED"}
      BY <1>1, <2>1 DEF Job, Live
    <3> QED BY <3>1, <3>2
  <2>2. CASE RecordDispatch(k, a)
    <3> DEFINE st == CASE a \in {"UNKNOWN", "SENDING"} -> "UNKNOWN"
                       [] a = "FAILED" -> "FAILED"
                       [] OTHER -> "COMPLETED"
    <3>1. jobs' = [jobs EXCEPT ![k] = [jobs[k] EXCEPT !.dispatched = TRUE, !.status = st]]
      BY <1>1, <2>2 DEF RecordDispatch, Job
    <3>2. st \in Final
      BY DEF Final
    <3> HIDE DEF st
    <3> QED BY <3>1, <3>2
  <2> QED BY <2>1, <2>2
<1> DEFINE y == [jobs[k] EXCEPT !.dispatched = d, !.status = st]
<1>3. y \in Job /\ y.due = jobs[k].due /\ y.print = jobs[k].print
  BY <1>1 DEF Job
<1>4. jobs' = [jobs EXCEPT ![k] = y]
  BY <1>2
<1> HIDE DEF y
<1>5. /\ DOMAIN jobs' = DOMAIN jobs /\ jobs' \in [DOMAIN jobs -> Job] /\ jobs'[k] = y
      /\ \A j \in DOMAIN jobs \ {k} : jobs'[j] = jobs[j]
  BY <1>1, <1>3, <1>4
<1>6. RowsOK'
  BY DEF AInv, RowsOK
<1>7. \A j \in DOMAIN jobs : DueAsPrinted(j, jobs'[j])
  BY <1>3, <1>5 DEF DueAsPrinted, AInv, JobsOK
<1>8. JobsOK'
  BY <1>5, <1>7 DEF AInv, JobsOK, DueAsPrinted
<1>9. AttemptsOK'
  BY <1>5 DEF AInv, AttemptsOK
<1>10. Grows
  <2>1. now \in Nat /\ \A s \in Subjects : source[s] \in Source => source[s].version \in Nat
    BY Bounds DEF AInv, RowsOK, Times, Source
  <2> QED BY <1>5, <2>1 DEF Grows
<1> QED BY <1>5, <1>6, <1>8, <1>9, <1>10

\* An attempt that is made or refreshed.
LEMMA AttemptWrites ==
    ASSUME AInv, NEW k \in DOMAIN jobs, NEW a \in AttemptStatuses,
           \/ attempts' = With(attempts, k, a)
           \/ k \in DOMAIN attempts /\ attempts' = [attempts EXCEPT ![k] = a],
           UNCHANGED <<source, now, edits, faults, pauses, key, state, target, jobs>>
    PROVE  /\ RowsOK' /\ JobsOK' /\ AttemptsOK' /\ Grows
           /\ DOMAIN attempts' = DOMAIN attempts \cup {k}
           /\ attempts'[k] = a
           /\ \A j \in DOMAIN attempts \ {k} : attempts'[j] = attempts[j]
<1>1. attempts \in [DOMAIN attempts -> AttemptStatuses] /\ DOMAIN attempts \subseteq DOMAIN jobs
  BY DEF AInv, AttemptsOK
<1>2. /\ attempts' \in [DOMAIN attempts \cup {k} -> AttemptStatuses]
      /\ attempts'[k] = a
      /\ \A j \in DOMAIN attempts \ {k} : attempts'[j] = attempts[j]
  BY <1>1 DEF With
<1>3. AttemptsOK'
  BY <1>1, <1>2 DEF AttemptsOK
<1>4. RowsOK' /\ JobsOK'
  BY DEF AInv, RowsOK, JobsOK, DueAsPrinted
<1>5. Grows
  <2>1. now \in Nat /\ \A s \in Subjects : source[s] \in Source => source[s].version \in Nat
    BY Bounds DEF AInv, RowsOK, Times, Source
  <2> QED BY <1>2, <2>1 DEF Grows
<1> QED BY <1>2, <1>3, <1>4, <1>5

--------------------------------------------------------------------------------
\* A runner that reads, and writes no row.
LEMMA NothingWritten ==
    ASSUME AInv, UNCHANGED <<source, now, edits, faults, pauses, key, state, target, jobs, attempts>>
    PROVE  RowsOK' /\ JobsOK' /\ AttemptsOK' /\ Grows
BY RowsStay DEF AInv, RowsOK

LEMMA RecoverReadStep == ASSUME AInv, NEW w \in Workers, RecoverRead(w) PROVE AInv'
<1>1. RowsOK' /\ JobsOK' /\ AttemptsOK' /\ Grows
  BY NothingWritten DEF RecoverRead, domain, bounds
<1> DEFINE l == IF Unrecorded = <<>> THEN "stays" ELSE "recovering"
           x == [worker[w] EXCEPT !.queue = Unrecorded, !.pc = l]
<1>2. Unrecorded \in Queues
  <2>1. DOMAIN Unrecorded \in SUBSET JobKeys /\ DOMAIN Unrecorded \subseteq DOMAIN attempts
        /\ \A k \in DOMAIN Unrecorded : Unrecorded[k] \in AttemptStatuses
    BY DEF Unrecorded, AInv, AttemptsOK, JobsOK
  <2>2. Unrecorded \in [DOMAIN Unrecorded -> Job \cup AttemptStatuses \cup {None}]
    BY <2>1 DEF Unrecorded
  <2> QED BY <2>1, <2>2 DEF Queues
<1>3. worker[w] \in Runner /\ l \in Places
  BY DEF AInv, Places
<1>4. x \in Runner /\ x.pc = l /\ x.page = worker[w].page /\ x.queue = Unrecorded
      /\ x.date = worker[w].date
  BY <1>2, <1>3 DEF Runner
<1>5. Become(w, x)
  BY DEF RecoverRead
<1>6. x.pc \in {"stays", "recovering"}
  BY <1>4
<1> HIDE DEF x, l
<1>7. worker'[w] = x
  BY <1>4, <1>5, Moved DEF AInv
<1>8. \A k \in DOMAIN x.queue : k \in DOMAIN attempts' /\ x.queue[k] \in AttemptStatuses
  BY <1>1, <1>4 DEF Unrecorded, AInv, AttemptsOK, Grows
<1>9. (RunnerOK(w) /\ Compared(w))'
  BY <1>4, <1>6, <1>7, <1>8, <1>1, PageKeeps DEF RunnerOK, Compared, Sending, AtJob
<1> QED BY <1>1, <1>4, <1>5, <1>9, RunnerSteps

LEMMA RecoverOneStep == ASSUME AInv, NEW w \in Workers, RecoverOne(w) PROVE AInv'
<1>1. PICK k \in DOMAIN worker[w].queue :
         /\ RecordDispatch(k, worker[w].queue[k])
         /\ Become(w, [worker[w] EXCEPT !.queue = Without(@, k),
                         !.pc = IF DOMAIN worker[w].queue = {k} THEN "stays" ELSE @])
  BY DEF RecoverOne
<1>2. worker[w].pc = "recovering" /\ worker[w] \in Runner /\ RunnerOK(w)
  BY DEF RecoverOne, AInv
<1>3. k \in DOMAIN jobs
  BY <1>2 DEF RunnerOK, AInv, AttemptsOK
<1>4. RowsOK' /\ JobsOK' /\ AttemptsOK' /\ Grows
  BY <1>1, <1>3, JobWrites DEF RecoverOne, domain, bounds
<1> DEFINE l == IF DOMAIN worker[w].queue = {k} THEN "stays" ELSE "recovering"
           rest == Without(worker[w].queue, k)
           x == [worker[w] EXCEPT !.queue = rest, !.pc = l]
<1>5. /\ rest \in Queues
      /\ DOMAIN rest = DOMAIN worker[w].queue \ {k}
      /\ \A j \in DOMAIN worker[w].queue \ {k} : rest[j] = worker[w].queue[j]
  <2>1. worker[w].queue \in Queues
    BY <1>2 DEF Runner
  <2> QED BY <2>1, QueueLess
<1>6. Become(w, x) /\ l \in Places /\ l \in {"stays", "recovering"}
  BY <1>1, <1>2 DEF Places
<1> HIDE DEF rest, l
<1>7. x \in Runner /\ x.pc = l /\ x.page = worker[w].page /\ x.queue = rest
      /\ x.date = worker[w].date
  BY <1>2, <1>5, <1>6 DEF Runner
<1> HIDE DEF x
<1>8. worker'[w] = x
  BY <1>6, <1>7, Moved DEF AInv
<1>9. \A j \in DOMAIN x.queue : j \in DOMAIN attempts' /\ x.queue[j] \in AttemptStatuses
  BY <1>2, <1>4, <1>5, <1>7 DEF RunnerOK, Grows
<1>10. (RunnerOK(w) /\ Compared(w))'
  BY <1>4, <1>6, <1>7, <1>8, <1>9, PageKeeps DEF RunnerOK, Compared, Sending, AtJob
<1> QED BY <1>4, <1>6, <1>7, <1>10, RunnerSteps

LEMMA ReadPageStep == ASSUME AInv, NEW w \in Workers, ReadPage(w) PROVE AInv'
<1>1. RowsOK' /\ JobsOK' /\ AttemptsOK' /\ Grows
  BY NothingWritten DEF ReadPage, domain, bounds
<1> DEFINE page == Existing(IF worker[w].pc = "stays" THEN Stays ELSE Tasks)
           then == IF worker[w].pc = "stays" THEN "tasks" ELSE "stamp"
           l == IF page = <<>> THEN then ELSE "observe"
           x == [worker[w] EXCEPT !.pc = l, !.page = page, !.then = then]
<1>2. /\ page \in Pages
      /\ \A s \in DOMAIN page : source[s] \in Source
  <2>1. \A s \in DOMAIN page : s \in Subjects /\ page[s] = source[s] /\ source[s] \in Source
    BY DEF Existing, Subjects, AInv, RowsOK
  <2>2. page \in [DOMAIN page -> Source] /\ DOMAIN page \in SUBSET Subjects
    BY <2>1 DEF Existing
  <2> HIDE DEF page
  <2> QED BY <2>1, <2>2 DEF Pages
<1>3. worker[w] \in Runner /\ then \in {"tasks", "stamp"}
  BY DEF AInv
<1>4. l \in Quiet /\ l \in Places /\ Become(w, x)
  BY DEF ReadPage, Quiet, Places
<1> HIDE DEF page, then, l
<1>5. x \in Runner /\ x.pc = l /\ x.page = page /\ x.date = worker[w].date
  BY <1>2, <1>3, <1>4 DEF Runner
<1> HIDE DEF x
<1>6. (RunnerOK(w) /\ Compared(w))'
  BY <1>1, <1>2, <1>4, <1>5, QuietPlaces
<1> QED BY <1>1, <1>4, <1>5, <1>6, RunnerSteps

LEMMA ObserveReadStep == ASSUME AInv, NEW w \in Workers, ObserveRead(w) PROVE AInv'
<1>1. RowsOK' /\ JobsOK' /\ AttemptsOK' /\ Grows
  BY NothingWritten DEF ObserveRead, domain, bounds
<1>2. PICK s \in DOMAIN worker[w].page, free \in SUBSET Reminders :
        Become(w, [worker[w] EXCEPT !.pc = "commit", !.subject = s, !.previous = target[s],
                                    !.free = free])
  <2> DEFINE ok(s, r) == LET k == Reminder(s, r) IN
                         k \in DOMAIN jobs => ~jobs[k].dispatched /\ jobs[k].status \notin Final
  <2>1. PICK s \in DOMAIN worker[w].page :
          Become(w, [worker[w] EXCEPT !.pc = "commit", !.subject = s, !.previous = target[s],
                                      !.free = {r \in Reminders : ok(s, r)}])
    BY DEF ObserveRead
  <2>2. {r \in Reminders : ok(s, r)} \in SUBSET Reminders
    OBVIOUS
  <2> QED BY <2>1, <2>2
<1> DEFINE x == [worker[w] EXCEPT !.pc = "commit", !.subject = s, !.previous = target[s],
                                  !.free = free]
<1>3. worker[w] \in Runner /\ s \in Subjects /\ "commit" \in Places
  BY <1>1, PageKeeps DEF AInv, Places
<1>4. target[s] \in Target \cup {None}
  BY <1>3 DEF AInv, RowsOK
<1>5. x \in Runner /\ x.pc = "commit" /\ x.page = worker[w].page /\ x.subject = s
      /\ x.date = worker[w].date
  BY <1>3, <1>4 DEF Runner
<1>6. Become(w, x)
  BY <1>2
<1> HIDE DEF x
<1>7. worker'[w] = x
  BY <1>5, <1>6, Moved DEF AInv
<1>8. (RunnerOK(w) /\ Compared(w))'
  BY <1>1, <1>5, <1>7, PageKeeps DEF RunnerOK, Compared, Sending, AtJob
<1> QED BY <1>1, <1>5, <1>6, <1>8, RunnerSteps

--------------------------------------------------------------------------------
\* A runner that goes on with a job of its queue.
LEMMA WorkSteps ==
    ASSUME AInv, NEW w \in Workers, worker[w].pc \in Sending,
           RowsOK', JobsOK', AttemptsOK', Grows,
           NEW x \in Runner, Become(w, x), x.page = worker[w].page, x.queue = worker[w].queue,
           x.date \in {now, worker[w].date}, x.pc \in AtJob, x.job \in DOMAIN x.queue,
           x.pc \in {"sending", "record"} => x.job \in DOMAIN attempts',
           x.pc \in {"preview", "claim"} =>
             /\ Matches(source'[x.job.subject], x.queue[x.job])
             /\ x.date < x.queue[x.job].print.end
    PROVE  AInv'
<1>1. worker'[w] = x
  BY Moved DEF AInv
<1>2. \A k \in DOMAIN x.queue : /\ k \in DOMAIN jobs' /\ x.queue[k] \in Job
                                /\ x.queue[k].due <= now' /\ DueAsPrinted(k, x.queue[k])
  BY QueueKeeps
<1>3. RunnerOK(w)'
  BY <1>1, <1>2, PageKeeps DEF RunnerOK, AtJob, Sending, DueAsPrinted
<1>4. Compared(w)'
  BY <1>1 DEF Compared, Matches
<1> QED BY <1>3, <1>4, RunnerSteps

\* A job that was compared stays so.
LEMMA StillCompared ==
    ASSUME AInv, RowsOK', Grows, NEW w \in Workers, worker[w].pc \in {"preview", "claim"},
           NEW k, NEW job, k = worker[w].job, job = worker[w].queue[k]
    PROVE  Matches(source'[k.subject], job) /\ worker[w].date < job.print.end
<1>1. worker[w].pc \in AtJob
  BY DEF AtJob, Sending
<1>2. k.subject \in Subjects /\ source[k.subject] \in Source /\ job \in Job
  BY <1>1, JobAtHand
<1>3. source[k.subject].version \in Nat /\ source'[k.subject].version \in Nat /\ job.version \in Nat
  BY <1>2 DEF Grows, Source, Job
<1>4. Matches(source[k.subject], job) /\ worker[w].date < job.print.end
  BY DEF AInv, Compared
<1> QED BY <1>2, <1>3, <1>4 DEF Grows, Matches

LEMMA ReadJobsStep == ASSUME AInv, NEW w \in Workers, ReadJobs(w) PROVE AInv'
<1>1. RowsOK' /\ JobsOK' /\ AttemptsOK' /\ Grows
  BY NothingWritten DEF ReadJobs, domain, bounds
<1> DEFINE q == [k \in {j \in DOMAIN jobs : /\ jobs[j].status \in Live
                                            /\ jobs[j].due <= worker[w].date}
                   |-> jobs[k]]
           x == [worker[w] EXCEPT !.pc = "next", !.date = 0, !.queue = q]
<1>2. \A k \in DOMAIN q : /\ k \in DOMAIN jobs /\ q[k] = jobs[k] /\ q[k] \in Job
                          /\ q[k].due <= now /\ DueAsPrinted(k, q[k])
  <2>1. worker[w].date \in Nat /\ worker[w].date <= now /\ now \in Nat
    BY Bounds DEF AInv, Runner, RowsOK, Times
  <2>2. \A k \in DOMAIN q : /\ k \in DOMAIN jobs /\ q[k] = jobs[k] /\ q[k] \in Job
                            /\ q[k].due <= worker[w].date /\ DueAsPrinted(k, q[k])
    BY DEF AInv, JobsOK
  <2>3. \A k \in DOMAIN q : q[k].due \in Nat
    BY <2>2, Bounds DEF Job, Times
  <2> HIDE DEF q
  <2> QED BY <2>1, <2>2, <2>3
<1>3. q \in Queues
  <2>1. q \in [DOMAIN q -> Job \cup AttemptStatuses \cup {None}]
    BY <1>2
  <2>2. DOMAIN q \in SUBSET JobKeys
    BY <1>2 DEF AInv, JobsOK
  <2> QED BY <2>1, <2>2 DEF Queues
<1>4. worker[w] \in Runner /\ "next" \in Places /\ 0 \in Times /\ Become(w, x)
  BY Bounds DEF AInv, Places, Sending, Times, ReadJobs
<1> HIDE DEF q
<1>5. x \in Runner /\ x.pc = "next" /\ x.page = worker[w].page /\ x.queue = q /\ x.date = 0
  BY <1>3, <1>4 DEF Runner
<1> HIDE DEF x
<1>6. worker'[w] = x
  BY <1>4, <1>5, Moved DEF AInv
<1>7. \A k \in DOMAIN x.queue : /\ k \in DOMAIN jobs' /\ x.queue[k] \in Job
                                /\ x.queue[k].due <= now' /\ DueAsPrinted(k, x.queue[k])
  BY <1>2, <1>5 DEF ReadJobs
<1>8. (RunnerOK(w) /\ Compared(w))'
  BY <1>1, <1>5, <1>6, <1>7, PageKeeps DEF RunnerOK, Compared, AtJob, DueAsPrinted
<1> QED BY <1>1, <1>4, <1>5, <1>8, RunnerSteps

LEMMA PickJobStep == ASSUME AInv, NEW w \in Workers, PickJob(w) PROVE AInv'
<1>1. RowsOK' /\ JobsOK' /\ AttemptsOK' /\ Grows
  BY NothingWritten DEF PickJob, domain, bounds
<1>2. worker[w].pc = "next" /\ worker[w].pc \in Sending /\ worker[w] \in Runner
  BY DEF PickJob, Sending, AInv
<1>3. PICK k \in DOMAIN worker[w].queue :
         IF k \in DOMAIN attempts
         THEN Become(w, [worker[w] EXCEPT !.pc = "record", !.job = k, !.status = attempts[k]])
         ELSE Become(w, [worker[w] EXCEPT !.pc = "check", !.date = now, !.job = k])
  BY DEF PickJob
<1>4. k \in JobKeys
  <2>1. worker[w].queue \in Queues
    BY <1>2 DEF Runner
  <2> QED BY <2>1, QueueLess
<1>5. CASE k \in DOMAIN attempts
  <2> DEFINE x == [worker[w] EXCEPT !.pc = "record", !.job = k, !.status = attempts[k]]
  <2>1. attempts[k] \in AttemptStatuses /\ "record" \in Places
    BY <1>5 DEF AInv, AttemptsOK, Places, Sending
  <2>2. x \in Runner /\ x.pc = "record" /\ x.page = worker[w].page /\ x.queue = worker[w].queue
        /\ x.job = k /\ x.date = worker[w].date
    BY <1>2, <1>4, <2>1 DEF Runner
  <2>3. Become(w, x) /\ k \in DOMAIN attempts'
    BY <1>1, <1>3, <1>5 DEF Grows
  <2> HIDE DEF x
  <2> QED BY <1>1, <1>2, <2>2, <2>3, WorkSteps DEF AtJob, Sending
<1>6. CASE k \notin DOMAIN attempts
  <2> DEFINE x == [worker[w] EXCEPT !.pc = "check", !.date = now, !.job = k]
  <2>1. "check" \in Places /\ now \in Times
    BY DEF Places, Sending, AInv, RowsOK
  <2>2. x \in Runner /\ x.pc = "check" /\ x.page = worker[w].page /\ x.queue = worker[w].queue
        /\ x.job = k /\ x.date = now
    BY <1>2, <1>4, <2>1 DEF Runner
  <2>3. Become(w, x)
    BY <1>3, <1>6
  <2> HIDE DEF x
  <2> QED BY <1>1, <1>2, <2>2, <2>3, WorkSteps DEF AtJob, Sending
<1> QED BY <1>5, <1>6

LEMMA CheckStep == ASSUME AInv, NEW w \in Workers, Check(w) PROVE AInv'
<1> DEFINE k == worker[w].job
           job == worker[w].queue[k]
<1>1. worker[w].pc = "check" /\ worker[w].pc \in AtJob /\ worker[w].pc \in Sending
      /\ worker[w] \in Runner
  BY DEF Check, AtJob, Sending, AInv
<1>2. /\ k \in DOMAIN worker[w].queue /\ k \in DOMAIN jobs /\ k.subject \in Subjects
      /\ job \in Job /\ source[k.subject] \in Source
  BY <1>1, JobAtHand
<1>3. CASE Outdated(job, source[k.subject], worker[w].date)
  <2>1. UpdateJob(k, "SKIPPED") /\ Become(w, JobDone(w))
    BY <1>3 DEF Check
  <2>2. RowsOK' /\ JobsOK' /\ AttemptsOK' /\ Grows
    BY <1>2, <2>1, JobWrites DEF Check, domain, bounds
  <2> QED BY <1>1, <2>1, <2>2, NextJob
<1>4. CASE ~Outdated(job, source[k.subject], worker[w].date)
  <2> DEFINE x == [worker[w] EXCEPT !.pc = "preview"]
  <2>1. RowsOK' /\ JobsOK' /\ AttemptsOK' /\ Grows
    BY <1>4, NothingWritten DEF Check, domain, bounds
  <2>2. x \in Runner /\ x.pc = "preview" /\ x.page = worker[w].page /\ x.queue = worker[w].queue
        /\ x.job = k /\ x.date = worker[w].date
    <3>1. "preview" \in Places /\ worker \in [Workers -> Runner]
      BY DEF Places, Sending, AInv
    <3> QED BY <3>1, Going
  <2>3. Become(w, x)
    BY <1>4 DEF Check, Goto
  <2>4. /\ source[k.subject].version = job.version /\ job.version \in Nat
        /\ source[k.subject].due = job.print.due /\ source[k.subject].end = job.print.end
    BY <1>2, <1>4 DEF Outdated, Fingerprint, Job
  <2>5. source' = source
    BY DEF Check, domain
  <2>6. Matches(source'[k.subject], job)
    BY <2>4, <2>5 DEF Matches
  <2>7. worker[w].date < job.print.end
    <3>1. worker[w].date \in Nat /\ source[k.subject].end \in Nat
      BY <1>1, <1>2, Bounds DEF Runner, Source, Times, Never
    <3>2. ~(source[k.subject].end <= worker[w].date)
      BY <1>4 DEF Outdated, Closed
    <3> QED BY <2>4, <3>1, <3>2
  <2> HIDE DEF x
  <2> QED BY <1>1, <1>2, <2>1, <2>2, <2>3, <2>6, <2>7, WorkSteps DEF AtJob, Sending
<1> QED BY <1>3, <1>4

LEMMA PreviewStep == ASSUME AInv, NEW w \in Workers, Preview(w) PROVE AInv'
<1> DEFINE k == worker[w].job
           x == [worker[w] EXCEPT !.pc = "claim", !.preview = source[k.subject]]
<1>1. worker[w].pc = "preview" /\ worker[w].pc \in AtJob /\ worker[w].pc \in Sending
      /\ worker[w] \in Runner
  BY DEF Preview, AtJob, Sending, AInv
<1>2. /\ k \in DOMAIN worker[w].queue /\ k \in DOMAIN jobs /\ source[k.subject] \in Source
  BY <1>1, JobAtHand
<1>3. CASE UpdateJob(k, "BLOCKED") /\ Become(w, JobDone(w))
  <2>1. RowsOK' /\ JobsOK' /\ AttemptsOK' /\ Grows
    BY <1>2, <1>3, JobWrites DEF Preview, domain, bounds
  <2> QED BY <1>1, <1>3, <2>1, NextJob
<1>4. CASE UNCHANGED jobs /\ Become(w, JobDone(w))
  <2>1. RowsOK' /\ JobsOK' /\ AttemptsOK' /\ Grows
    BY <1>4, NothingWritten DEF Preview, domain, bounds
  <2> QED BY <1>1, <1>4, <2>1, NextJob
<1>5. CASE UNCHANGED jobs /\ Become(w, x)
  <2>1. RowsOK' /\ JobsOK' /\ AttemptsOK' /\ Grows
    BY <1>5, NothingWritten DEF Preview, domain, bounds
  <2>2. "claim" \in Places
    BY DEF Places, Sending
  <2>3. x \in Runner /\ x.pc = "claim" /\ x.page = worker[w].page /\ x.queue = worker[w].queue
        /\ x.job = k /\ x.date = worker[w].date
    BY <1>1, <1>2, <2>2 DEF Runner
  <2>4. /\ Matches(source'[k.subject], worker[w].queue[k])
        /\ worker[w].date < worker[w].queue[k].print.end
    BY <1>1, <2>1, StillCompared
  <2> HIDE DEF x
  <2> QED BY <1>1, <1>2, <1>5, <2>1, <2>3, <2>4, WorkSteps DEF AtJob, Sending
<1> QED BY <1>3, <1>4, <1>5 DEF Preview

--------------------------------------------------------------------------------
\* What a lookup finds is a status, and never contradicts a result that is known.
LEMMA RefreshedStatus ==
    ASSUME NEW a \in AttemptStatuses, NEW b \in Refreshed(a)
    PROVE  /\ b \in AttemptStatuses
           /\ a = "FAILED" => b = "FAILED"
           /\ a = "ACCEPTED" => b \in {"ACCEPTED", "FAILED"}
<1>1. Results \subseteq {"ACCEPTED", "FAILED", "UNKNOWN"}
  BY ResultsAreStatuses DEF AttemptStatuses
<1>2. CASE a = "SENDING"
  BY <1>2 DEF Refreshed, AttemptStatuses
<1>3. CASE a = "ACCEPTED"
  BY <1>1, <1>3 DEF Refreshed, AttemptStatuses
<1>4. CASE a = "UNKNOWN"
  BY <1>1, <1>4 DEF Refreshed, AttemptStatuses
<1>5. CASE a = "FAILED"
  BY <1>5 DEF Refreshed, AttemptStatuses
<1> QED BY <1>2, <1>3, <1>4, <1>5 DEF AttemptStatuses

\* A runner that goes to record the status of the attempt under its job.
LEMMA Recording ==
    ASSUME AInv, NEW w \in Workers, worker[w].pc \in AtJob,
           RowsOK', JobsOK', AttemptsOK', Grows, NEW a \in AttemptStatuses,
           worker[w].job \in DOMAIN attempts',
           Become(w, [worker[w] EXCEPT !.pc = "record", !.status = a])
    PROVE  AInv'
<1> DEFINE x == [worker[w] EXCEPT !.pc = "record", !.status = a]
<1>1. worker[w] \in Runner /\ "record" \in Places /\ worker[w].pc \in Sending
  BY DEF AInv, Places, Sending, AtJob
<1>2. x \in Runner /\ x.pc = "record" /\ x.page = worker[w].page /\ x.queue = worker[w].queue
      /\ x.job = worker[w].job /\ x.date = worker[w].date
  BY <1>1 DEF Runner
<1>3. Become(w, x)
  OBVIOUS
<1>4. worker[w].job \in DOMAIN worker[w].queue
  BY JobAtHand
<1> HIDE DEF x
<1> QED BY <1>1, <1>2, <1>3, <1>4, WorkSteps DEF AtJob, Sending

\* A runner that goes on within its job.
LEMMA GoingOn ==
    ASSUME AInv, NEW w \in Workers, worker[w].pc \in AtJob,
           RowsOK', JobsOK', AttemptsOK', Grows, NEW l \in {"sending", "caught"},
           l = "sending" => worker[w].job \in DOMAIN attempts',
           Goto(w, l)
    PROVE  AInv'
<1> DEFINE x == [worker[w] EXCEPT !.pc = l]
<1>1. worker \in [Workers -> Runner] /\ l \in Places /\ worker[w].pc \in Sending
  BY DEF AInv, Places, Sending, AtJob
<1>2. x \in Runner /\ x.pc = l /\ x.page = worker[w].page /\ x.queue = worker[w].queue
      /\ x.job = worker[w].job /\ x.date = worker[w].date
  BY <1>1, Going
<1>3. Become(w, x)
  BY DEF Goto
<1>4. worker[w].job \in DOMAIN worker[w].queue
  BY JobAtHand
<1> HIDE DEF x
<1> QED BY <1>1, <1>2, <1>3, <1>4, WorkSteps DEF AtJob, Sending

LEMMA ClaimStep == ASSUME AInv, NEW w \in Workers, Claim(w) PROVE AInv'
<1> DEFINE k == worker[w].job
<1>1. worker[w].pc \in AtJob
  BY DEF Claim, AtJob, Sending
<1>2. k \in DOMAIN jobs
  BY <1>1, JobAtHand
<1>3. CASE /\ k \in DOMAIN attempts /\ UNCHANGED attempts
           /\ Become(w, [worker[w] EXCEPT !.pc = "record", !.status = attempts[k]])
  <2>1. RowsOK' /\ JobsOK' /\ AttemptsOK' /\ Grows
    BY <1>3, NothingWritten DEF Claim, domain, bounds
  <2>2. attempts[k] \in AttemptStatuses /\ k \in DOMAIN attempts'
    BY <1>3 DEF AInv, AttemptsOK
  <2> QED BY <1>1, <1>3, <2>1, <2>2, Recording
<1>4. CASE attempts' = With(attempts, k, "SENDING") /\ Goto(w, "sending")
  <2>1. "SENDING" \in AttemptStatuses
    BY DEF AttemptStatuses
  <2>2. RowsOK' /\ JobsOK' /\ AttemptsOK' /\ Grows /\ k \in DOMAIN attempts'
    BY <1>2, <1>4, <2>1, AttemptWrites DEF Claim, domain, bounds
  <2> QED BY <1>1, <1>4, <2>2, GoingOn
<1>5. CASE Goto(w, "caught") /\ UNCHANGED attempts
  <2>1. RowsOK' /\ JobsOK' /\ AttemptsOK' /\ Grows
    BY <1>5, NothingWritten DEF Claim, domain, bounds
  <2> QED BY <1>1, <1>5, <2>1, GoingOn
<1> QED BY <1>3, <1>4, <1>5 DEF Claim

LEMMA SendStep == ASSUME AInv, NEW w \in Workers, Send(w) PROVE AInv'
<1> DEFINE k == worker[w].job
<1>1. worker[w].pc \in AtJob
  BY DEF Send, AtJob, Sending
<1>2. k \in DOMAIN jobs /\ k \in DOMAIN attempts
  <2>1. worker[w].pc = "sending"
    BY DEF Send
  <2> QED BY <1>1, <2>1, JobAtHand DEF AInv, RunnerOK
<1>3. CASE \E a \in Results :
             /\ attempts' = [attempts EXCEPT ![k] = a]
             /\ Become(w, [worker[w] EXCEPT !.pc = "record", !.status = a])
  <2>1. PICK a \in Results : /\ attempts' = [attempts EXCEPT ![k] = a]
                             /\ Become(w, [worker[w] EXCEPT !.pc = "record", !.status = a])
    BY <1>3
  <2>2. a \in AttemptStatuses
    BY ResultsAreStatuses
  <2>3. RowsOK' /\ JobsOK' /\ AttemptsOK' /\ Grows /\ k \in DOMAIN attempts'
    BY <1>2, <2>1, <2>2, AttemptWrites DEF Send, domain, bounds
  <2> QED BY <1>1, <2>1, <2>2, <2>3, Recording
<1>4. CASE Goto(w, "caught") /\ UNCHANGED attempts
  <2>1. RowsOK' /\ JobsOK' /\ AttemptsOK' /\ Grows
    BY <1>4, NothingWritten DEF Send, domain, bounds
  <2> QED BY <1>1, <1>4, <2>1, GoingOn
<1> QED BY <1>3, <1>4 DEF Send

LEMMA CaughtStep == ASSUME AInv, NEW w \in Workers, Caught(w) PROVE AInv'
<1> DEFINE k == worker[w].job
<1>1. worker[w].pc \in AtJob /\ worker[w].pc \in Sending
  BY DEF Caught, AtJob, Sending
<1>2. k \in DOMAIN jobs
  BY <1>1, JobAtHand
<1>3. CASE k \in DOMAIN attempts
  <2>1. /\ Become(w, [worker[w] EXCEPT !.pc = "record", !.status = attempts[k]])
        /\ UNCHANGED jobs
    BY <1>3 DEF Caught
  <2>2. RowsOK' /\ JobsOK' /\ AttemptsOK' /\ Grows
    BY <2>1, NothingWritten DEF Caught, domain, bounds
  <2>3. attempts[k] \in AttemptStatuses /\ k \in DOMAIN attempts'
    BY <1>3, <2>2 DEF AInv, AttemptsOK, Grows
  <2> QED BY <1>1, <2>1, <2>2, <2>3, Recording
<1>4. CASE k \notin DOMAIN attempts
  <2>1. UpdateJob(k, "BLOCKED") /\ Become(w, JobDone(w))
    BY <1>4 DEF Caught
  <2>2. RowsOK' /\ JobsOK' /\ AttemptsOK' /\ Grows
    BY <1>2, <2>1, JobWrites DEF Caught, domain, bounds
  <2> QED BY <1>1, <2>1, <2>2, NextJob
<1> QED BY <1>3, <1>4

LEMMA RecordStep == ASSUME AInv, NEW w \in Workers, Record(w) PROVE AInv'
<1>1. worker[w].pc \in AtJob /\ worker[w].pc \in Sending
  BY DEF Record, AtJob, Sending
<1>2. worker[w].job \in DOMAIN jobs
  BY <1>1, JobAtHand
<1>3. RecordDispatch(worker[w].job, worker[w].status) /\ Become(w, JobDone(w))
  BY DEF Record
<1>4. RowsOK' /\ JobsOK' /\ AttemptsOK' /\ Grows
  BY <1>2, <1>3, JobWrites DEF Record, domain, bounds
<1> QED BY <1>1, <1>3, <1>4, NextJob

--------------------------------------------------------------------------------
\* A runner that polls the results.
LEMMA PollSteps ==
    ASSUME AInv, NEW w \in Workers, RowsOK', JobsOK', AttemptsOK', Grows,
           NEW x \in Runner, Become(w, x), x.page = worker[w].page, x.date \in {0, worker[w].date},
           x.pc \in {"poll", "polled"}, DOMAIN x.queue \subseteq DOMAIN attempts',
           x.pc = "polled" => x.job \in DOMAIN attempts'
    PROVE  AInv'
<1>1. worker'[w] = x
  BY Moved DEF AInv
<1>2. (RunnerOK(w) /\ Compared(w))'
  BY <1>1, PageKeeps DEF RunnerOK, Compared, AtJob, Sending
<1> QED BY <1>2, RunnerSteps

LEMMA ReadResultsStep == ASSUME AInv, NEW w \in Workers, ReadResults(w) PROVE AInv'
<1>1. RowsOK' /\ JobsOK' /\ AttemptsOK' /\ Grows
  BY NothingWritten DEF ReadResults, domain, bounds
<1> DEFINE q == [k \in {j \in DOMAIN attempts : attempts[j] # "FAILED"} |-> None]
           x == [worker[w] EXCEPT !.pc = "poll", !.queue = q]
<1>2. DOMAIN q \subseteq DOMAIN attempts
  OBVIOUS
<1>3. q \in Queues
  <2>1. q \in [DOMAIN q -> Job \cup AttemptStatuses \cup {None}]
    OBVIOUS
  <2>2. DOMAIN q \in SUBSET JobKeys
    BY <1>2 DEF AInv, JobsOK, AttemptsOK
  <2> QED BY <2>1, <2>2 DEF Queues
<1>4. worker[w] \in Runner /\ "poll" \in Places /\ Become(w, x)
  BY DEF AInv, Places, ReadResults
<1> HIDE DEF q
<1>5. x \in Runner /\ x.pc = "poll" /\ x.page = worker[w].page /\ x.queue = q
      /\ x.date = worker[w].date
  BY <1>3, <1>4 DEF Runner
<1>6. DOMAIN q \subseteq DOMAIN attempts'
  BY <1>1, <1>2 DEF Grows
<1> HIDE DEF x
<1> QED BY <1>1, <1>4, <1>5, <1>6, PollSteps

LEMMA PollStep == ASSUME AInv, NEW w \in Workers, Poll(w) PROVE AInv'
<1>1. worker[w].pc = "poll" /\ worker[w] \in Runner /\ worker[w].queue \in Queues
      /\ DOMAIN worker[w].queue \subseteq DOMAIN attempts
  BY DEF Poll, AInv, Runner, RunnerOK
<1>2. PICK k \in DOMAIN worker[w].queue :
         \/ \E a \in Refreshed(attempts[k]) :
              /\ attempts' = [attempts EXCEPT ![k] = a]
              /\ Become(w, [worker[w] EXCEPT !.pc = "polled", !.job = k, !.status = a])
         \/ Become(w, [worker[w] EXCEPT !.queue = Without(@, k)]) /\ UNCHANGED attempts
  BY DEF Poll
<1>3. k \in DOMAIN attempts /\ k \in DOMAIN jobs /\ k \in JobKeys /\ attempts[k] \in AttemptStatuses
  BY <1>1 DEF AInv, AttemptsOK, JobsOK
<1>4. CASE \E a \in Refreshed(attempts[k]) :
              /\ attempts' = [attempts EXCEPT ![k] = a]
              /\ Become(w, [worker[w] EXCEPT !.pc = "polled", !.job = k, !.status = a])
  <2>1. PICK a \in Refreshed(attempts[k]) :
              /\ attempts' = [attempts EXCEPT ![k] = a]
              /\ Become(w, [worker[w] EXCEPT !.pc = "polled", !.job = k, !.status = a])
    BY <1>4
  <2>2. a \in AttemptStatuses
    BY <1>3, RefreshedStatus
  <2>3. RowsOK' /\ JobsOK' /\ AttemptsOK' /\ Grows
    BY <1>3, <2>1, <2>2, AttemptWrites DEF Poll, domain, bounds
  <2> DEFINE x == [worker[w] EXCEPT !.pc = "polled", !.job = k, !.status = a]
  <2>4. "polled" \in Places
    BY DEF Places
  <2>5. x \in Runner /\ x.pc = "polled" /\ x.page = worker[w].page /\ x.queue = worker[w].queue
        /\ x.job = k /\ x.date = worker[w].date
    BY <1>1, <1>3, <2>2, <2>4 DEF Runner
  <2>6. DOMAIN worker[w].queue \subseteq DOMAIN attempts' /\ k \in DOMAIN attempts'
    BY <1>1, <1>3, <2>3 DEF Grows
  <2>7. Become(w, x)
    BY <2>1
  <2> HIDE DEF x
  <2> QED BY <2>3, <2>5, <2>6, <2>7, PollSteps
<1>5. CASE Become(w, [worker[w] EXCEPT !.queue = Without(@, k)]) /\ UNCHANGED attempts
  <2>1. RowsOK' /\ JobsOK' /\ AttemptsOK' /\ Grows
    BY <1>5, NothingWritten DEF Poll, domain, bounds
  <2> DEFINE rest == Without(worker[w].queue, k)
             x == [worker[w] EXCEPT !.queue = rest]
  <2>2. rest \in Queues /\ DOMAIN rest = DOMAIN worker[w].queue \ {k}
    BY <1>1, QueueLess
  <2>3. Become(w, x)
    BY <1>5
  <2> HIDE DEF rest
  <2>4. x \in Runner /\ x.pc = "poll" /\ x.page = worker[w].page /\ x.queue = rest
        /\ x.date = worker[w].date
    BY <1>1, <2>2 DEF Runner
  <2>5. DOMAIN rest \subseteq DOMAIN attempts'
    BY <1>1, <2>1, <2>2 DEF Grows
  <2> HIDE DEF x
  <2> QED BY <2>1, <2>3, <2>4, <2>5, PollSteps
<1> QED BY <1>2, <1>4, <1>5

LEMMA PolledStep == ASSUME AInv, NEW w \in Workers, Polled(w) PROVE AInv'
<1> DEFINE k == worker[w].job
           x == [JobDone(w) EXCEPT !.pc = "poll"]
<1>1. worker[w].pc = "polled" /\ worker[w] \in Runner /\ worker[w].queue \in Queues
      /\ DOMAIN worker[w].queue \subseteq DOMAIN attempts /\ k \in DOMAIN attempts
      /\ k \in DOMAIN jobs
  BY DEF Polled, AInv, Runner, RunnerOK, AttemptsOK
<1>2. RowsOK' /\ JobsOK' /\ AttemptsOK' /\ Grows
  <2>1. CASE jobs[k].dispatched
    <3>1. RecordDispatch(k, worker[w].status)
      BY <2>1 DEF Polled
    <3> QED BY <1>1, <3>1, JobWrites DEF Polled, domain, bounds
  <2>2. CASE ~jobs[k].dispatched
    BY <2>2, NothingWritten DEF Polled, domain, bounds
  <2> QED BY <2>1, <2>2
<1> DEFINE rest == Without(worker[w].queue, k)
           y == JobDone(w)
<1>3. rest \in Queues /\ DOMAIN rest = DOMAIN worker[w].queue \ {k}
  BY <1>1, QueueLess
<1>4. y \in Runner /\ y.page = worker[w].page /\ y.queue = rest /\ y.date = 0
  BY DoneIsRunner
<1>5. Become(w, [y EXCEPT !.pc = "poll"]) /\ "poll" \in Places
  BY DEF Polled, Places
<1> HIDE DEF rest, y
<1>6. [y EXCEPT !.pc = "poll"] \in Runner /\ [y EXCEPT !.pc = "poll"].pc = "poll"
      /\ [y EXCEPT !.pc = "poll"].page = worker[w].page /\ [y EXCEPT !.pc = "poll"].queue = rest
      /\ [y EXCEPT !.pc = "poll"].date = 0
  BY <1>4, <1>5 DEF Runner
<1>7. DOMAIN rest \subseteq DOMAIN attempts'
  BY <1>1, <1>2, <1>3 DEF Grows
<1> QED BY <1>2, <1>5, <1>6, <1>7, PollSteps

--------------------------------------------------------------------------------
\* Steps of nobody's runner.
LEMMA OutsideSteps ==
    ASSUME AInv, RowsOK', JobsOK', AttemptsOK', Grows, worker' = worker
    PROVE  AInv'
<1>1. \A v \in Workers : RunnerOK(v)' /\ Compared(v)' /\ worker'[v].date <= now'
  BY OthersKeep, TimesAreNumbers
<1> QED BY <1>1 DEF AInv

LEMMA ManualRefreshStep ==
    ASSUME AInv, NEW k \in DOMAIN attempts, ManualRefresh(k)
    PROVE  AInv'
<1>1. k \in DOMAIN jobs /\ attempts[k] \in AttemptStatuses
  BY DEF AInv, AttemptsOK
<1>2. PICK a \in Refreshed(attempts[k]) : attempts' = [attempts EXCEPT ![k] = a]
  BY DEF ManualRefresh
<1>3. a \in AttemptStatuses
  BY <1>1, RefreshedStatus
<1>4. RowsOK' /\ JobsOK' /\ AttemptsOK' /\ Grows
  BY <1>1, <1>2, <1>3, AttemptWrites DEF ManualRefresh, domain, bounds
<1> QED BY <1>4, OutsideSteps DEF ManualRefresh

LEMMA PassTimeStep == ASSUME AInv, PassTime PROVE AInv'
<1>1. now \in Nat /\ now' = now + 1 /\ now' \in Times /\ now <= now'
  BY Bounds DEF PassTime, AInv, RowsOK, Times
<1>2. RowsOK' /\ JobsOK' /\ AttemptsOK'
  BY <1>1 DEF PassTime, domain, bounds, AInv, RowsOK, JobsOK, AttemptsOK, DueAsPrinted
<1>3. Grows
  BY <1>1, Bounds DEF PassTime, domain, Grows, Source
<1> QED BY <1>2, <1>3, OutsideSteps DEF PassTime

LEMMA RotateStep == ASSUME AInv, Rotate PROVE AInv'
<1>1. key' \in 0..MaxKey /\ UNCHANGED <<source, now, edits, faults, pauses, state, target, jobs, attempts>>
  BY Bounds DEF Rotate, domain, bounds, AInv, RowsOK
<1>2. RowsOK' /\ JobsOK' /\ AttemptsOK'
  BY <1>1 DEF AInv, RowsOK, JobsOK, AttemptsOK, DueAsPrinted
<1>3. worker' \in [Workers -> Runner]
  BY NoWorkIsRunner DEF Rotate
<1>4. \A w \in Workers : (RunnerOK(w) /\ Compared(w) /\ worker[w].date <= now)'
  <2>1. now' \in Nat
    BY <1>2, TimesAreNumbers
  <2> QED BY <2>1 DEF Rotate, NoWork, RunnerOK, Compared, Sending, AtJob
<1> QED BY <1>2, <1>3, <1>4 DEF AInv

\* A subject that appears or changes.
LEMMA SubjectWrites ==
    ASSUME AInv, NEW s \in Subjects, NEW x \in Source, source' = [source EXCEPT ![s] = x],
           edits' \in 0..MaxEdits, edits <= edits', x.version <= edits',
           source[s] \in Source =>
             /\ x.version >= source[s].version
             /\ x.version = source[s].version => x.due = source[s].due /\ x.end = source[s].end,
           UNCHANGED <<now, faults, pauses, key, state, target, jobs, attempts, worker>>
    PROVE  AInv'
<1>1. /\ source' \in [Subjects -> Source \cup {None}] /\ source'[s] = x
      /\ \A t \in Subjects \ {s} : source'[t] = source[t]
  BY DEF AInv, RowsOK
<1>2. /\ \A t \in Subjects : source[t] \in Source => source[t].version \in Nat
      /\ now \in Nat /\ edits \in Nat /\ edits' \in Nat
  BY Bounds DEF AInv, RowsOK, Source, Times
<1>3. \A t \in Subjects : source'[t] \in Source => source'[t].version <= edits'
  BY <1>1, <1>2 DEF AInv, RowsOK
<1>4. RowsOK'
  BY <1>1, <1>3 DEF AInv, RowsOK
<1>5. Grows
  BY <1>1, <1>2 DEF Grows
<1>6. \A k \in DOMAIN jobs : source'[k.subject] \in Source
  BY <1>5 DEF AInv, JobsOK, JobKeys, Grows
<1>7. JobsOK' /\ AttemptsOK'
  BY <1>6 DEF AInv, JobsOK, AttemptsOK, DueAsPrinted
<1> QED BY <1>4, <1>5, <1>7, OutsideSteps

\* The parts of a schedule are times.
LEMMA ScheduleParts ==
    ASSUME NEW s, NEW d \in Schedules(s)
    PROVE  d.due \in [Reminders -> Times] /\ d.end \in 0..Never
BY Bounds DEF Schedules, Times, Never

LEMMA CreateStep == ASSUME AInv, NEW s \in Subjects, Create(s) PROVE AInv'
<1>1. PICK c \in Contents, d \in Schedules(s) :
         source' = [source EXCEPT ![s] = [version |-> 0, content |-> c, due |-> d.due,
                                          end |-> d.end, status |-> "ACTIVE", open |-> TRUE,
                                          created |-> now]]
  BY DEF Create
<1> DEFINE x == [version |-> 0, content |-> c, due |-> d.due, end |-> d.end,
                 status |-> "ACTIVE", open |-> TRUE, created |-> now]
<1>2. d.due \in [Reminders -> Times] /\ d.end \in 0..Never
  BY ScheduleParts
<1>3. x \in Source /\ x.version = 0
  BY <1>2, Bounds DEF AInv, RowsOK, Source
<1>4. source[s] \notin Source
  BY NoneIsNoRow DEF Create
<1>5. source' = [source EXCEPT ![s] = x]
  BY <1>1
<1> HIDE DEF x
<1>6. edits' = edits /\ edits \in 0..MaxEdits
  BY DEF Create, AInv, RowsOK
<1>7. edits' \in 0..MaxEdits /\ edits <= edits' /\ x.version <= edits'
  BY <1>3, <1>6, Bounds
<1>8. UNCHANGED <<now, faults, pauses, key, state, target, jobs, attempts, worker>>
  BY DEF Create, bounds
<1> QED BY <1>3, <1>4, <1>5, <1>7, <1>8, SubjectWrites

LEMMA EditStep == ASSUME AInv, NEW s \in Subjects, Edit(s) PROVE AInv'
<1>1. source[s] \in Source /\ source[s].version \in Nat /\ source[s].version <= edits
      /\ edits \in Nat /\ edits' = edits + 1 /\ edits' \in 0..MaxEdits
  BY Bounds DEF Edit, AInv, RowsOK, Source
<1>2. PICK n \in {0, 1}, c \in Contents, d \in Schedules(s), status \in {"ACTIVE", "CANCELLED"},
           open \in BOOLEAN :
         LET y == [source[s] EXCEPT !.version = @ + n, !.content = c, !.due = d.due, !.end = d.end,
                                    !.status = status, !.open = open]
         IN  /\ y # source[s]
             /\ n = 0 => /\ y.due = source[s].due /\ y.end = source[s].end
                         /\ y.status = source[s].status
             /\ source' = [source EXCEPT ![s] = y]
  BY Zenon DEF Edit
<1> DEFINE x == [source[s] EXCEPT !.version = @ + n, !.content = c, !.due = d.due, !.end = d.end,
                                  !.status = status, !.open = open]
<1>3. d.due \in [Reminders -> Times] /\ d.end \in 0..Never
  BY ScheduleParts
<1>4. x.version = source[s].version + n
  BY <1>1 DEF Source
<1>5. x.version \in 0..MaxEdits /\ x.version <= edits' /\ x.version >= source[s].version
      /\ edits <= edits'
  BY <1>1, <1>4, Bounds
<1>6. x \in Source
  BY <1>1, <1>3, <1>4, <1>5 DEF Source
<1>7. x.version = source[s].version => x.due = source[s].due /\ x.end = source[s].end
  BY <1>1, <1>2, <1>4
<1>8. source' = [source EXCEPT ![s] = x]
  BY <1>2
<1> HIDE DEF x
<1> QED BY <1>1, <1>5, <1>6, <1>7, <1>8, SubjectWrites DEF Edit, bounds

--------------------------------------------------------------------------------
\* What an observation writes: the reminders it revises are reminders of its subject,
\* the event it adds is one of this subject and this sequence number.
LEMMA FingerprintIsPrint ==
    ASSUME AInv, NEW x \in Source
    PROVE  Fingerprint(x, key) \in Prints /\ Fingerprint(x, key).due = x.due
BY DEF AInv, RowsOK, Fingerprint, Prints, Source

LEMMA NextSeqIsNumber ==
    ASSUME NEW p \in Target \cup {None}, NEW x
    PROVE  NextSeq(p, x) \in Nat
<1>1. CASE p = None
  BY <1>1 DEF NextSeq
<1>2. CASE p # None
  BY <1>2 DEF NextSeq, Target
<1> QED BY <1>1, <1>2

LEMMA RevisedKeys ==
    ASSUME NEW s \in Subjects, NEW x \in Source, NEW free \in SUBSET Reminders,
           NEW t, NEW k \in Revised(s, x, free, t)
    PROVE  /\ k \in JobKeys /\ k.subject = s /\ k.kind \in free /\ k = Reminder(s, k.kind)
           /\ ~IsEvent(k)
<1>1. PICK r \in free : k = Reminder(s, r)
  BY DEF Revised
<1>2. k.subject = s /\ k.kind = r
  BY <1>1 DEF Reminder
<1>3. k \in JobKeys
  BY <1>1, Bounds DEF Reminder, JobKeys
<1> QED BY <1>1, <1>2, <1>3 DEF IsEvent

LEMMA NewEventKeys ==
    ASSUME NEW s \in Subjects, NEW x \in Source, NEW p, NEW seq \in Nat, NEW rebase \in BOOLEAN,
           NEW t, NEW k \in NewEvents(s, x, p, seq, rebase, t)
    PROVE  k \in JobKeys /\ k.subject = s /\ IsEvent(k) /\ k.seq = seq
<1>1. PICK kind \in {"CHANGE", "CANCEL", "ASSIGNMENT"} :
        k = [subject |-> s, kind |-> kind, seq |-> seq, version |-> x.version]
  BY DEF NewEvents, EventKind
<1>2. kind \notin Reminders
  BY RemindersAreNoEvents
<1>3. x.version \in 0..MaxEdits
  BY DEF Source
<1> QED BY <1>1, <1>2, <1>3 DEF JobKeys, IsEvent

LEMMA ObservedIsJob ==
    ASSUME AInv, NEW s \in Subjects, NEW x \in Source, NEW p, NEW free \in SUBSET Reminders,
           NEW rebase \in BOOLEAN, NEW t \in Times, NEW k,
           k \in DOMAIN jobs \cup Revised(s, x, free, t) \/ IsEvent(k)
    PROVE  /\ Observed(s, x, p, free, rebase, t, k) \in Job
           /\ DueAsPrinted(k, Observed(s, x, p, free, rebase, t, k))
<1> DEFINE new == Observed(s, x, p, free, rebase, t, k)
<1> SUFFICES new \in Job /\ DueAsPrinted(k, new)
  OBVIOUS
<1>1. Fingerprint(x, key) \in Prints /\ Fingerprint(x, key).due = x.due
  BY FingerprintIsPrint
<1>2. x.version \in 0..MaxEdits /\ x.due \in [Reminders -> Times]
  BY DEF Source
<1>3. CASE k \in Revised(s, x, free, t)
  <2> DEFINE st == IF \/ x.due[k.kind] < state.activated \/ x.due[k.kind] < x.created
                      \/ t > x.due[k.kind] + Lateness
                   THEN "SKIPPED" ELSE "PENDING"
             d == k \in DOMAIN jobs /\ jobs[k].dispatched
  <2>1. k.kind \in Reminders
    BY <1>3, RevisedKeys
  <2>2. x.due[k.kind] \in Times
    BY <1>2, <2>1
  <2>3. d \in BOOLEAN
    BY DEF AInv, JobsOK, Job
  <2>4. st \in Live \cup Final \cup {"SKIPPED"}
    BY DEF Live
  <2>5. new = [version |-> x.version, print |-> Fingerprint(x, key), due |-> x.due[k.kind],
               status |-> st, dispatched |-> d]
    BY <1>3 DEF Observed, ReminderJob
  <2> HIDE DEF new, st, d
  <2> QED BY <1>1, <1>2, <2>2, <2>3, <2>4, <2>5 DEF Job, DueAsPrinted
<1>4. CASE k \notin Revised(s, x, free, t) /\ k \notin DOMAIN jobs
  <2>1. new = [version |-> x.version, print |-> Fingerprint(x, key), due |-> t,
               status |-> "PENDING", dispatched |-> FALSE]
    BY <1>4 DEF Observed
  <2>2. k.kind \notin Reminders
    BY <1>4 DEF IsEvent
  <2> HIDE DEF new
  <2> QED BY <1>1, <1>2, <2>1, <2>2 DEF Job, DueAsPrinted, Live
<1>5. CASE k \notin Revised(s, x, free, t) /\ k \in DOMAIN jobs
  <2>1. jobs[k] \in Job /\ DueAsPrinted(k, jobs[k])
    BY <1>5 DEF AInv, JobsOK
  <2>2. new = jobs[k] \/ new = [jobs[k] EXCEPT !.status = "SKIPPED"]
    BY <1>5 DEF Observed
  <2> HIDE DEF new
  <2> QED BY <2>1, <2>2 DEF Job, DueAsPrinted
<1> QED BY <1>3, <1>4, <1>5

LEMMA FollowedIsJob ==
    ASSUME NEW s, NEW x \in Source, NEW k, NEW job \in Job
    PROVE  /\ Followed(s, x, k, job) \in Job
           /\ Followed(s, x, k, job).due = job.due
           /\ Followed(s, x, k, job).print = job.print
           /\ Followed(s, x, k, job).status = job.status
           /\ Followed(s, x, k, job).dispatched = job.dispatched
<1>1. x.version \in 0..MaxEdits
  BY DEF Source
<1>2. Followed(s, x, k, job) = job \/ Followed(s, x, k, job) = [job EXCEPT !.version = x.version]
  BY DEF Followed
<1> QED BY <1>1, <1>2 DEF Job

LEMMA ObserveCommitStep == ASSUME AInv, NEW w \in Workers, ObserveCommit(w) PROVE AInv'
<1> DEFINE s == worker[w].subject
           x == worker[w].page[s]
           p == worker[w].previous
           free == worker[w].free
           rebase == worker[w].rebase
           t == worker[w].date
           seq == NextSeq(p, x)
           D == DOMAIN jobs \cup Revised(s, x, free, t) \cup NewEvents(s, x, p, seq, rebase, t)
<1>1. worker[w].pc = "commit" /\ worker[w] \in Runner /\ s \in DOMAIN worker[w].page
      /\ worker[w].page \in Pages
  BY DEF ObserveCommit, AInv, RunnerOK, Runner
<1>2. /\ s \in Subjects /\ x \in Source /\ p \in Target \cup {None} /\ free \in SUBSET Reminders
      /\ rebase \in BOOLEAN /\ t \in Times /\ source[s] \in Source
      /\ worker[w].then \in {"tasks", "stamp"}
  BY <1>1, PageLess DEF AInv, RunnerOK, Runner
<1>3. seq \in Nat /\ Fingerprint(x, key) \in Prints
  BY <1>2, NextSeqIsNumber, FingerprintIsPrint
<1>4. /\ jobs' = [k \in D |-> Followed(s, x, k, Observed(s, x, p, free, rebase, t, k))]
      /\ target' = [target EXCEPT ![s] = [print |-> Fingerprint(x, key), seq |-> seq]]
      /\ Become(w, [worker[w] EXCEPT !.page = Without(@, s),
                                     !.pc = IF DOMAIN worker[w].page = {s}
                                            THEN worker[w].then ELSE "observe",
                                     !.subject = None, !.previous = None, !.free = {}])
      /\ UNCHANGED <<source, edits, faults, pauses, now, key, state, attempts>>
  BY DEF ObserveCommit, domain, bounds
<1> HIDE DEF s, x, p, free, rebase, t, seq
<1>5. \A k \in D : k \in JobKeys /\ source[k.subject] \in Source
  <2>1. \A k \in DOMAIN jobs : k \in JobKeys /\ source[k.subject] \in Source
    BY DEF AInv, JobsOK
  <2> QED BY <1>2, <1>3, <2>1, RevisedKeys, NewEventKeys
<1>6. \A k \in D : jobs'[k] \in Job /\ DueAsPrinted(k, jobs'[k])
  <2> SUFFICES ASSUME NEW k \in D PROVE jobs'[k] \in Job /\ DueAsPrinted(k, jobs'[k])
    OBVIOUS
  <2> DEFINE job == Observed(s, x, p, free, rebase, t, k)
  <2>1. k \in DOMAIN jobs \cup Revised(s, x, free, t) \/ IsEvent(k)
    BY <1>2, <1>3, NewEventKeys
  <2>2. job \in Job /\ DueAsPrinted(k, job)
    BY <1>2, <2>1, ObservedIsJob
  <2>3. jobs'[k] = Followed(s, x, k, job)
    BY <1>4
  <2> HIDE DEF job
  <2> QED BY <1>2, <2>2, <2>3, FollowedIsJob DEF DueAsPrinted
<1>7. [print |-> Fingerprint(x, key), seq |-> seq] \in Target
  BY <1>3 DEF Target
<1>8. target' \in [Subjects -> Target \cup {None}]
      /\ \A o \in Subjects : target'[o] \in Target \/ (o # s /\ target'[o] = target[o])
  BY <1>2, <1>4, <1>7 DEF AInv, RowsOK
<1>9. \A k \in D : target'[k.subject] \in Target
  <2>1. \A k \in DOMAIN jobs : k.subject \in Subjects /\ target[k.subject] \in Target
    BY DEF AInv, JobsOK, JobKeys
  <2>2. \A k \in D \ DOMAIN jobs : k.subject = s
    BY <1>2, <1>3, RevisedKeys, NewEventKeys
  <2> QED BY <1>2, <1>4, <1>7, <1>8, <2>1, <2>2 DEF AInv, RowsOK
<1>10. RowsOK'
  BY <1>4, <1>8 DEF AInv, RowsOK
<1>11. JobsOK'
  BY <1>4, <1>5, <1>6, <1>9 DEF JobsOK, DueAsPrinted
<1>12. AttemptsOK'
  BY <1>4 DEF AInv, AttemptsOK
<1>13. Grows
  <2>1. now \in Nat /\ \A o \in Subjects : source[o] \in Source => source[o].version \in Nat
    BY Bounds DEF AInv, RowsOK, Times, Source
  <2> QED BY <1>4, <2>1 DEF Grows
<1> DEFINE rest == Without(worker[w].page, s)
           l == IF DOMAIN worker[w].page = {s} THEN worker[w].then ELSE "observe"
           y == [worker[w] EXCEPT !.page = rest, !.pc = l, !.subject = None,
                                  !.previous = None, !.free = {}]
<1>14. rest \in Pages /\ DOMAIN rest \subseteq DOMAIN worker[w].page
  BY <1>1, PageLess
<1>15. Become(w, y) /\ l \in Places /\ l \in Quiet
  BY <1>2, <1>4 DEF Places, Quiet
<1> HIDE DEF rest, l
<1>16. y \in Runner /\ y.pc = l /\ y.page = rest /\ y.date = worker[w].date
  BY <1>1, <1>14, <1>15 DEF Runner
<1> HIDE DEF y
<1>17. \A o \in DOMAIN y.page : source[o] \in Source
  BY <1>14, <1>16 DEF AInv, RunnerOK
<1>18. (RunnerOK(w) /\ Compared(w))'
  BY <1>13, <1>15, <1>16, <1>17, QuietPlaces
<1> QED BY <1>10, <1>11, <1>12, <1>13, <1>15, <1>16, <1>18, RunnerSteps

--------------------------------------------------------------------------------
\* Every step keeps the invariant.
LEMMA TickStep == ASSUME AInv, NEW w \in Workers, Tick(w) PROVE AInv'
BY ReadStateStep, TakeLeaseStep, StopSteps, RecoverReadStep, RecoverOneStep, ReadPageStep,
   ObserveReadStep, ObserveCommitStep, StampStep, ReadJobsStep, PickJobStep, CheckStep,
   PreviewStep, ClaimStep, SendStep, CaughtStep, RecordStep, ReadResultsStep, PollStep,
   PolledStep, ReleaseStep
   DEF Tick

LEMMA NextAInv == AInv /\ [Next]_vars => AInv'
<1> SUFFICES ASSUME AInv, [Next]_vars PROVE AInv'
  OBVIOUS
<1>1. CASE \E w \in Workers : Tick(w) \/ Throw(w) \/ Crash(w)
  BY <1>1, TickStep, StopSteps
<1>2. CASE Expire \/ PassTime \/ Rotate
  BY <1>2, ExpireStep, PassTimeStep, RotateStep
<1>3. CASE \E k \in DOMAIN attempts : ManualRefresh(k)
  BY <1>3, ManualRefreshStep
<1>4. CASE \E s \in Subjects : Create(s) \/ Edit(s)
  BY <1>4, CreateStep, EditStep
<1>5. CASE UNCHANGED vars
  <2>1. UNCHANGED <<source, now, edits, faults, pauses, key, state, target, jobs, attempts, worker>>
    BY <1>5 DEF vars
  <2>2. RowsOK' /\ JobsOK' /\ AttemptsOK' /\ Grows
    BY <2>1, NothingWritten
  <2> QED BY <2>1, <2>2, OutsideSteps
<1> QED BY <1>1, <1>2, <1>3, <1>4, <1>5 DEF Next

LEMMA SpecAInv == Spec => []AInv
BY InitAInv, NextAInv, PTL DEF Spec

\* The tables, the state row and the runners stay well-formed: every job has one of its
\* statuses and belongs to a subject, and every attempt belongs to a job
\* (message-automation.service.ts).
THEOREM AutomationTypesAreCorrect == Spec => []TypeOK
<1>1. AInv => TypeOK
  <2> SUFFICES ASSUME AInv PROVE TypeOK
    OBVIOUS
  <2>1. \A w \in Workers : DOMAIN worker[w] = DOMAIN NoWork
    <3> SUFFICES ASSUME NEW w \in Workers PROVE DOMAIN worker[w] = DOMAIN NoWork
      OBVIOUS
    <3>1. worker[w] \in Runner /\ NoWork \in Runner
      BY NoWorkIsRunner DEF AInv
    <3>2. ASSUME NEW r \in Runner
          PROVE  DOMAIN r = {"pc", "date", "rebase", "page", "then", "subject", "previous",
                             "free", "queue", "job", "preview", "status"}
      BY DEF Runner
    <3> QED BY <3>1, <3>2
  <2>2. /\ \A k \in DOMAIN jobs : jobs[k] \in Job
        /\ \A k \in DOMAIN attempts : attempts[k] \in AttemptStatuses
    BY DEF AInv, JobsOK, AttemptsOK
  <2> QED BY <2>1, <2>2 DEF TypeOK, AInv, RowsOK, JobsOK, AttemptsOK
<1> QED BY <1>1, SpecAInv, PTL

--------------------------------------------------------------------------------
\* Only a claim adds an attempt.
LEMMA ClaimsAdd ==
    ASSUME AInv, [Next]_vars, NEW k \in DOMAIN attempts' \ DOMAIN attempts
    PROVE  \E w \in Workers : /\ worker[w].pc = "claim" /\ worker'[w].pc = "sending"
                              /\ k = worker[w].job
                              /\ Sendable(k, worker[w].queue[k], worker[w].preview)
                              /\ now' = now
<1>1. PICK w \in Workers : Tick(w)
  <2>1. attempts \in [DOMAIN attempts -> AttemptStatuses]
    BY DEF AInv, AttemptsOK
  <2>2. ASSUME NEW j \in DOMAIN attempts, ManualRefresh(j) PROVE FALSE
    <3>1. PICK a : attempts' = [attempts EXCEPT ![j] = a]
      BY <2>2 DEF ManualRefresh
    <3> QED BY <2>1, <3>1
  <2> QED BY <2>2 DEF Next, vars, Throw, Crash, Expire, PassTime, Rotate, Create, Edit
<1>2. CASE Claim(w)
  <2>1. attempts' = With(attempts, worker[w].job, "SENDING")
        /\ Sendable(worker[w].job, worker[w].queue[worker[w].job], worker[w].preview)
    BY <1>2 DEF Claim, With
  <2>2. DOMAIN attempts' = DOMAIN attempts \cup {worker[w].job}
    BY <2>1 DEF With
  <2>3. Goto(w, "sending")
    <3>1. k \in DOMAIN attempts' /\ k \notin DOMAIN attempts
      OBVIOUS
    <3> QED BY <1>2, <3>1 DEF Claim
  <2>4. "sending" \in Places /\ worker \in [Workers -> Runner]
    BY DEF Places, Sending, AInv
  <2> DEFINE y == [worker[w] EXCEPT !.pc = "sending"]
  <2>5. y \in Runner /\ y.pc = "sending" /\ Become(w, y)
    BY <2>3, <2>4, Going DEF Goto
  <2> HIDE DEF y
  <2>6. worker'[w].pc = "sending"
    BY <2>4, <2>5, Moved
  <2> QED BY <1>2, <2>1, <2>2, <2>6 DEF Claim
<1>3. CASE Send(w) \/ Poll(w)
  <2>1. PICK j, a : attempts' = [attempts EXCEPT ![j] = a] \/ attempts' = attempts
    BY <1>3 DEF Send, Poll
  <2>2. attempts \in [DOMAIN attempts -> AttemptStatuses]
    BY DEF AInv, AttemptsOK
  <2> QED BY <2>1, <2>2
<1>4. CASE ~Claim(w) /\ ~Send(w) /\ ~Poll(w)
  BY <1>1, <1>4 DEF Tick, ReadState, TakeLease, LeaseLost, RecoverRead, RecoverOne, ReadPage,
     ObserveRead, ObserveCommit, Stamp, ReadJobs, PickJob, Check, Preview, Caught, Record,
     ReadResults, Polled, PollDone, Release
<1> QED BY <1>2, <1>3, <1>4

\* A reminder is requested only when it is due under the schedule its stay has then,
\* nothing is requested about a subject that is not eligible, and nothing about a stay that
\* was over, by the schedule it still has, when its job was picked, however long its runner
\* was paused after it read the job and whoever holds the lease by then.  The stay may end
\* between the pick and the claim: the claim compares the subject with the preview, and
\* leaves its end to the comparison before (isStale in message-automation.service.ts,
\* assertReady and sendAutomatic in messaging.service.ts).
THEOREM RemindersAreSentAsScheduled == Spec => SentAsScheduled
<1> DEFINE Right(k) ==
             LET x == source[k.subject]
             IN  /\ x.open
                 /\ IsEvent(k) \/ (x.status = "ACTIVE" /\ x.due[k.kind] <= now)
                 /\ \E w \in Workers : /\ worker[w].pc = "claim" /\ worker'[w].pc = "sending"
                                        /\ worker[w].job = k /\ worker[w].date < x.end
<1>1. AInv /\ [Next]_vars => [\A k \in DOMAIN attempts' \ DOMAIN attempts : Right(k)]_vars
  <2> SUFFICES ASSUME AInv, [Next]_vars, NEW k \in DOMAIN attempts' \ DOMAIN attempts
               PROVE  Right(k)
    OBVIOUS
  <2>1. PICK w \in Workers : /\ worker[w].pc = "claim" /\ worker'[w].pc = "sending"
                             /\ k = worker[w].job
                             /\ Sendable(k, worker[w].queue[k], worker[w].preview)
    BY ClaimsAdd
  <2> DEFINE job == worker[w].queue[k]
             x == source[k.subject]
  <2>2. worker[w].pc \in AtJob /\ worker[w].pc \in Sending
    BY <2>1 DEF AtJob, Sending
  <2>3. k \in DOMAIN worker[w].queue /\ k \in JobKeys /\ job \in Job /\ x \in Source
    BY <2>1, <2>2, JobAtHand
  <2>4. x.open /\ (x.status = "CANCELLED" <=> k.kind = "CANCEL") /\ x.version = job.version
    BY <2>1 DEF Sendable
  <2>5. /\ x.due = job.print.due /\ x.end = job.print.end
        /\ worker[w].date < job.print.end
    BY <2>1, <2>4 DEF AInv, Compared, Matches
  <2>6. CASE IsEvent(k)
    BY <2>1, <2>4, <2>5, <2>6
  <2>7. CASE ~IsEvent(k)
    <3>1. k.kind \in Reminders /\ k.kind # "CANCEL"
      BY <2>7, RemindersAreNoEvents DEF IsEvent
    <3>2. x.status = "ACTIVE"
      BY <2>3, <2>4, <3>1 DEF Source
    <3>3. job.due <= now /\ job.due = job.print.due[k.kind]
      BY <2>2, <2>3, <3>1 DEF AInv, RunnerOK, DueAsPrinted
    <3> QED BY <2>1, <2>4, <2>5, <3>2, <3>3
  <2> QED BY <2>6, <2>7
<1>2. QED BY <1>1, SpecAInv, PTL DEF Spec, SentAsScheduled

--------------------------------------------------------------------------------
\* While no lease has expired under its runner, at most one runner is at work.
LEMMA Alone ==
    ASSUME CInv, NEW w \in Workers, AtWork(w)
    PROVE  Renewed(w) /\ \A v \in Workers \ {w} : ~AtWork(v)
BY DEF CInv, AsRead, Renewed

\* A step of the runner at work.
LEMMA CalmSteps ==
    ASSUME AInv, CInv, NEW w \in Workers, AtWork(w), NEW x \in Runner, Become(w, x),
           TruthfulJobs', QueuedEventsAreCurrent', AsRead(w)'
    PROVE  CInv'
<1>1. \A v \in Workers \ {w} : worker'[v] = worker[v] /\ ~AtWork(v)
  BY Moved, Alone DEF AInv
<1>2. \A v \in Workers \ {w} : AsRead(v)'
  BY <1>1 DEF AtWork, AsRead, Sending
<1> QED BY <1>2 DEF CInv

\* What nothing but a write to the jobs, the attempts or the targets can change.
LEMMA TruthsStay ==
    ASSUME CInv, UNCHANGED <<target, jobs, attempts>>
    PROVE  TruthfulJobs' /\ QueuedEventsAreCurrent'
BY DEF CInv, TruthfulJobs, QueuedEventsAreCurrent

\* An attempt that is made for a new key, gets a result, or is looked up, changes nothing
\* that a job says.
LEMMA AttemptsStayTrue ==
    ASSUME AInv, CInv, UNCHANGED <<target, jobs>>,
           DOMAIN attempts \subseteq DOMAIN attempts',
           \A k \in DOMAIN attempts : \/ attempts'[k] = attempts[k]
                                      \/ attempts'[k] \in Refreshed(attempts[k])
                                      \/ ~jobs[k].dispatched
    PROVE  TruthfulJobs' /\ QueuedEventsAreCurrent'
<1>1. QueuedEventsAreCurrent'
  BY DEF CInv, QueuedEventsAreCurrent
<1>2. TruthfulJobs'
  <2> SUFFICES ASSUME NEW k \in DOMAIN jobs
               PROVE  /\ jobs[k].dispatched <=> jobs[k].status \in Final
                      /\ jobs[k].dispatched => k \in DOMAIN attempts'
                      /\ jobs[k].status = "FAILED" => attempts'[k] = "FAILED"
                      /\ jobs[k].status = "COMPLETED" => attempts'[k] \in {"ACCEPTED", "FAILED"}
    BY DEF TruthfulJobs
  <2>1. /\ jobs[k].dispatched <=> jobs[k].status \in Final
        /\ jobs[k].dispatched => k \in DOMAIN attempts
        /\ jobs[k].status = "FAILED" => attempts[k] = "FAILED"
        /\ jobs[k].status = "COMPLETED" => attempts[k] \in {"ACCEPTED", "FAILED"}
    BY DEF CInv, TruthfulJobs
  <2>2. CASE jobs[k].dispatched
    <3>1. k \in DOMAIN attempts /\ attempts[k] \in AttemptStatuses
      BY <2>1, <2>2 DEF AInv, AttemptsOK
    <3>2. attempts'[k] = attempts[k] \/ attempts'[k] \in Refreshed(attempts[k])
      BY <2>2, <3>1
    <3>3. /\ attempts[k] = "FAILED" => attempts'[k] = "FAILED"
          /\ attempts[k] = "ACCEPTED" => attempts'[k] \in {"ACCEPTED", "FAILED"}
      BY <3>1, <3>2, RefreshedStatus
    <3> QED BY <2>1, <2>2, <3>1, <3>3
  <2>3. CASE ~jobs[k].dispatched
    BY <2>1, <2>3 DEF Final
  <2> QED BY <2>2, <2>3
<1> QED BY <1>1, <1>2

\* A live job that is skipped or blocked.
LEMMA UpdatesStayTrue ==
    ASSUME AInv, CInv, NEW k \in DOMAIN jobs, NEW a \in {"SKIPPED", "BLOCKED"}, UpdateJob(k, a),
           jobs[k].status \in Live, UNCHANGED <<target, attempts>>
    PROVE  TruthfulJobs' /\ QueuedEventsAreCurrent'
<1>1. jobs \in [DOMAIN jobs -> Job]
  BY DEF AInv, JobsOK
<1>2. ~jobs[k].dispatched
  BY DEF CInv, TruthfulJobs, Live, Final
<1>3. /\ DOMAIN jobs' = DOMAIN jobs
      /\ \A j \in DOMAIN jobs \ {k} : jobs'[j] = jobs[j]
      /\ jobs'[k].status = a /\ jobs'[k].dispatched = jobs[k].dispatched
      /\ jobs'[k].print = jobs[k].print
  BY <1>1 DEF UpdateJob, Job
<1>4. TruthfulJobs'
  <2> SUFFICES ASSUME NEW j \in DOMAIN jobs
               PROVE  /\ jobs'[j].dispatched <=> jobs'[j].status \in Final
                      /\ jobs'[j].dispatched => j \in DOMAIN attempts
                      /\ jobs'[j].status = "FAILED" => attempts[j] = "FAILED"
                      /\ jobs'[j].status = "COMPLETED" => attempts[j] \in {"ACCEPTED", "FAILED"}
    BY <1>3 DEF TruthfulJobs
  <2>1. CASE j = k
    BY <1>2, <1>3, <2>1 DEF Final
  <2>2. CASE j # k
    BY <1>3, <2>2 DEF CInv, TruthfulJobs
  <2> QED BY <2>1, <2>2
<1>5. QueuedEventsAreCurrent'
  BY <1>2, <1>3 DEF CInv, QueuedEventsAreCurrent
<1> QED BY <1>4, <1>5

\* An attempt that is recorded with a status that is still true.
LEMMA RecordsStayTrue ==
    ASSUME AInv, CInv, NEW k \in DOMAIN jobs, NEW a, RecordDispatch(k, a),
           k \in DOMAIN attempts, a \in AttemptStatuses, StillTrue(k, a),
           UNCHANGED <<target, attempts>>
    PROVE  TruthfulJobs' /\ QueuedEventsAreCurrent'
<1>1. jobs \in [DOMAIN jobs -> Job]
  BY DEF AInv, JobsOK
<1> DEFINE st == CASE a \in {"UNKNOWN", "SENDING"} -> "UNKNOWN"
                   [] a = "FAILED" -> "FAILED"
                   [] OTHER -> "COMPLETED"
<1>2. jobs' = [jobs EXCEPT ![k].dispatched = TRUE, ![k].status = st]
  BY DEF RecordDispatch
<1>3. /\ st \in Final
      /\ st = "FAILED" => attempts[k] = "FAILED"
      /\ st = "COMPLETED" => attempts[k] \in {"ACCEPTED", "FAILED"}
  BY DEF Final, StillTrue, AttemptStatuses
<1> HIDE DEF st
<1>4. /\ DOMAIN jobs' = DOMAIN jobs
      /\ \A j \in DOMAIN jobs \ {k} : jobs'[j] = jobs[j]
      /\ jobs'[k].status = st /\ jobs'[k].dispatched = TRUE
  BY <1>1, <1>2 DEF Job
<1>5. TruthfulJobs'
  <2> SUFFICES ASSUME NEW j \in DOMAIN jobs
               PROVE  /\ jobs'[j].dispatched <=> jobs'[j].status \in Final
                      /\ jobs'[j].dispatched => j \in DOMAIN attempts
                      /\ jobs'[j].status = "FAILED" => attempts[j] = "FAILED"
                      /\ jobs'[j].status = "COMPLETED" => attempts[j] \in {"ACCEPTED", "FAILED"}
    BY <1>4 DEF TruthfulJobs
  <2>1. CASE j = k
    BY <1>3, <1>4, <2>1
  <2>2. CASE j # k
    BY <1>4, <2>2 DEF CInv, TruthfulJobs
  <2> QED BY <2>1, <2>2
<1>6. QueuedEventsAreCurrent'
  BY <1>4 DEF CInv, QueuedEventsAreCurrent
<1> QED BY <1>5, <1>6

\* A runner at a place where what it read does not matter.
LEMMA CalmPlaces ==
    ASSUME AInv, CInv, NEW w \in Workers, AtWork(w), NEW x \in Runner, Become(w, x),
           x.pc \in Quiet \cup {"poll"},
           x.pc \notin {"idle", "lease"} => UNCHANGED <<state.owner, state.valid>>,
           TruthfulJobs', QueuedEventsAreCurrent'
    PROVE  CInv'
<1>1. worker'[w] = x
  BY Moved DEF AInv
<1>2. Renewed(w)
  BY Alone
<1>3. AsRead(w)'
  BY <1>1, <1>2 DEF AsRead, AtWork, Renewed, Quiet, Sending
<1> QED BY <1>3, CalmSteps

LEMMA CalmGoing ==
    ASSUME AInv, CInv, NEW w \in Workers, AtWork(w), UNCHANGED <<target, jobs, attempts>>,
           \/ Become(w, NoWork)
           \/ /\ UNCHANGED <<state.owner, state.valid>>
              /\ \E l \in Quiet : Goto(w, l)
    PROVE  CInv'
<1>1. TruthfulJobs' /\ QueuedEventsAreCurrent'
  BY TruthsStay
<1>2. CASE Become(w, NoWork)
  <2>1. NoWork.pc = "idle"
    BY DEF NoWork
  <2> QED BY <1>1, <1>2, <2>1, NoWorkIsRunner, CalmPlaces DEF Quiet
<1>3. CASE UNCHANGED <<state.owner, state.valid>> /\ \E l \in Quiet : Goto(w, l)
  <2>1. PICK l \in Quiet : Goto(w, l)
    BY <1>3
  <2> DEFINE x == [worker[w] EXCEPT !.pc = l]
  <2>2. l \in Places /\ worker \in [Workers -> Runner]
    BY DEF Quiet, Places, AInv
  <2>3. x \in Runner /\ x.pc = l /\ Become(w, x)
    BY <2>1, <2>2, Going DEF Goto
  <2> HIDE DEF x
  <2> QED BY <1>1, <1>3, <2>3, CalmPlaces
<1> QED BY <1>2, <1>3

--------------------------------------------------------------------------------
\* The state's row is a record: what a step writes of it.
LEMMA StateFields ==
    ASSUME AInv
    PROVE  DOMAIN state = {"key", "activated", "owner", "valid"}
           /\ state \in [key: (0..MaxKey) \cup {None}, activated: Times,
                         owner: Workers \cup {None}, valid: BOOLEAN]
<1>1. state \in [key: (0..MaxKey) \cup {None}, activated: Times,
                 owner: Workers \cup {None}, valid: BOOLEAN]
  BY DEF AInv, RowsOK
<1> QED BY <1>1

\* A runner that is not at work yet; one that takes the lease finds nobody at work.
LEMMA CalmReadState == ASSUME AInv, CInv, NEW w \in Workers, ReadState(w) PROVE CInv'
<1>1. TruthfulJobs' /\ QueuedEventsAreCurrent'
  BY TruthsStay DEF ReadState
<1>2. UNCHANGED <<state.owner, state.valid, target, jobs, attempts>>
  BY StateFields DEF ReadState
<1>3. /\ worker'[w].pc = "lease"
      /\ \A v \in Workers \ {w} : worker'[v] = worker[v]
  BY DEF ReadState, Become, AInv, NoWork
<1>4. AsRead(w)'
  BY <1>3 DEF AsRead, AtWork, Sending
<1>5. \A v \in Workers \ {w} : AsRead(v)'
  BY <1>2, <1>3 DEF CInv, AsRead, AtWork, Renewed, StillTrue
<1> QED BY <1>1, <1>4, <1>5 DEF CInv

LEMMA CalmTakeLease == ASSUME AInv, CInv, NEW w \in Workers, TakeLease(w) PROVE CInv'
<1>1. TruthfulJobs' /\ QueuedEventsAreCurrent'
  BY TruthsStay DEF TakeLease
<1>2. worker \in [Workers -> Runner] /\ worker[w].pc = "lease"
  BY DEF AInv, TakeLease
<1>3. CASE state.valid
  <2>1. UNCHANGED <<state, target, jobs, attempts>> /\ Become(w, NoWork)
    BY <1>3 DEF TakeLease
  <2>2. worker'[w].pc = "idle" /\ \A v \in Workers \ {w} : worker'[v] = worker[v]
    BY <1>2, <2>1 DEF Become, NoWork
  <2>3. AsRead(w)'
    BY <2>2 DEF AsRead, AtWork, Sending
  <2>4. \A v \in Workers \ {w} : AsRead(v)'
    BY <2>1, <2>2 DEF CInv, AsRead, AtWork, Renewed, StillTrue
  <2> QED BY <1>1, <2>3, <2>4 DEF CInv
<1>4. CASE ~state.valid
  <2>1. Goto(w, "recover") /\ state' = [state EXCEPT !.owner = w, !.valid = TRUE]
    BY <1>4 DEF TakeLease
  <2>2. state'.owner = w /\ state'.valid
    BY <2>1, StateFields
  <2>3. worker'[w].pc = "recover" /\ \A v \in Workers \ {w} : worker'[v] = worker[v]
    <3> DEFINE x == [worker[w] EXCEPT !.pc = "recover"]
    <3>1. "recover" \in Places
      BY DEF Places
    <3>2. x.pc = "recover" /\ worker' = [worker EXCEPT ![w] = x]
      BY <1>2, <2>1, <3>1, Going DEF Goto, Become
    <3> HIDE DEF x
    <3> QED BY <1>2, <3>2
  <2>4. \A v \in Workers \ {w} : ~AtWork(v)
    BY <1>4 DEF CInv, AsRead, Renewed
  <2>5. AsRead(w)'
    BY <2>2, <2>3 DEF AsRead, Renewed, Sending
  <2>6. \A v \in Workers \ {w} : AsRead(v)'
    BY <2>3, <2>4 DEF AsRead, AtWork, Sending
  <2> QED BY <1>1, <2>5, <2>6 DEF CInv
<1> QED BY <1>3, <1>4

\* A runner that stops, or only reads what it needs no more.
LEMMA CalmStops ==
    ASSUME AInv, CInv, NEW w \in Workers,
           LeaseLost(w) \/ PollDone(w) \/ Throw(w) \/ Stamp(w) \/ Release(w)
    PROVE  CInv'
<1>1. AtWork(w)
  BY DEF LeaseLost, PollDone, Throw, Stamp, Release, AtWork
<1>2. UNCHANGED <<target, jobs, attempts>>
  BY DEF LeaseLost, PollDone, Throw, Stamp, Release
<1>3. CASE LeaseLost(w) \/ PollDone(w) \/ Throw(w)
  <2>1. state' = state /\ Goto(w, "release")
    BY <1>3 DEF LeaseLost, PollDone, Throw
  <2> QED BY <1>1, <1>2, <2>1, CalmGoing DEF Quiet
<1>4. CASE Stamp(w)
  <2>1. Goto(w, "jobs") /\ state' = [state EXCEPT !.key = IF state.owner = w THEN key ELSE @]
    BY <1>4 DEF Stamp
  <2>2. UNCHANGED <<state.owner, state.valid>>
    BY <2>1, StateFields
  <2> QED BY <1>1, <1>2, <2>1, <2>2, CalmGoing DEF Quiet
<1>5. CASE Release(w)
  BY <1>1, <1>2, <1>5, CalmGoing DEF Release
<1> QED BY <1>3, <1>4, <1>5

LEMMA CalmCrash == ASSUME AInv, CInv, NEW w \in Workers, Crash(w) PROVE CInv'
<1>1. UNCHANGED <<state, target, jobs, attempts>> /\ Become(w, NoWork)
  BY DEF Crash
<1>2. CASE AtWork(w)
  BY <1>1, <1>2, CalmGoing
<1>3. CASE ~AtWork(w)
  <2>1. worker'[w].pc = "idle" /\ \A v \in Workers \ {w} : worker'[v] = worker[v]
    BY <1>1 DEF AInv, Become, NoWork
  <2>2. AsRead(w)'
    BY <2>1 DEF AsRead, AtWork, Sending
  <2>3. \A v \in Workers \ {w} : AsRead(v)'
    BY <1>1, <2>1 DEF CInv, AsRead, AtWork, Renewed, StillTrue
  <2> QED BY <1>1, <2>2, <2>3, TruthsStay DEF CInv
<1> QED BY <1>2, <1>3

LEMMA CalmRecoverRead == ASSUME AInv, CInv, NEW w \in Workers, RecoverRead(w) PROVE CInv'
<1> DEFINE l == IF Unrecorded = <<>> THEN "stays" ELSE "recovering"
           x == [worker[w] EXCEPT !.queue = Unrecorded, !.pc = l]
<1>1. worker[w] \in Runner /\ worker \in [Workers -> Runner] /\ AtWork(w)
  BY DEF AInv, AtWork, RecoverRead
<1>2. l \in {"stays", "recovering"}
  OBVIOUS
<1>3. worker' = [worker EXCEPT ![w] = x] /\ UNCHANGED <<state, target, jobs, attempts>>
  BY DEF RecoverRead, Become
<1> HIDE DEF l
<1>4. x.pc = l /\ x.queue = Unrecorded
  BY <1>1 DEF Runner
<1> HIDE DEF x
<1>5. worker'[w] = x /\ \A v \in Workers \ {w} : worker'[v] = worker[v]
  BY <1>1, <1>3
<1>6. \A k \in DOMAIN Unrecorded : StillTrue(k, Unrecorded[k])
  BY DEF Unrecorded, StillTrue
<1>7. Renewed(w)
  BY <1>1, Alone
<1>8. AsRead(w)'
  BY <1>2, <1>3, <1>4, <1>5, <1>6, <1>7 DEF AsRead, Renewed, Sending, StillTrue
<1>9. \A v \in Workers \ {w} : AsRead(v)'
  BY <1>1, <1>5, Alone DEF AtWork, AsRead, Sending
<1> QED BY <1>3, <1>8, <1>9, TruthsStay DEF CInv

LEMMA CalmReadPage == ASSUME AInv, CInv, NEW w \in Workers, ReadPage(w) PROVE CInv'
<1>1. worker[w] \in Runner /\ worker \in [Workers -> Runner] /\ AtWork(w) /\ Renewed(w)
  BY DEF AInv, AtWork, ReadPage
<1>2. UNCHANGED <<state, target, jobs, attempts>>
  BY DEF ReadPage
<1>3. worker'[w].pc \in {"tasks", "stamp", "observe"}
      /\ \A v \in Workers \ {w} : worker'[v] = worker[v]
  <2>1. PICK l, page, then :
          /\ l \in {"tasks", "stamp", "observe"}
          /\ worker' = [worker EXCEPT ![w] = [worker[w] EXCEPT !.pc = l, !.page = page,
                                                              !.then = then]]
    BY DEF ReadPage, Become
  <2>2. [worker[w] EXCEPT !.pc = l, !.page = page, !.then = then].pc = l
    BY <1>1 DEF Runner
  <2> QED BY <1>1, <2>1, <2>2
<1>4. AsRead(w)'
  BY <1>1, <1>2, <1>3 DEF AsRead, Renewed, Sending
<1>5. \A v \in Workers \ {w} : AsRead(v)'
  BY <1>1, <1>3, Alone DEF AtWork, AsRead, Sending
<1> QED BY <1>2, <1>4, <1>5, TruthsStay DEF CInv

--------------------------------------------------------------------------------
\* A step that leaves the state's row to its runner.
LEMMA CalmReading ==
    ASSUME AInv, CInv, NEW w \in Workers, AtWork(w), NEW x \in Runner, Become(w, x),
           UNCHANGED state, TruthfulJobs', QueuedEventsAreCurrent',
           x.pc = "commit" =>
             /\ x.previous = target'[x.subject]
             /\ \A r \in x.free : Reminder(x.subject, r) \in DOMAIN jobs' =>
                                    ~jobs'[Reminder(x.subject, r)].dispatched,
           x.pc \in Sending => \A k \in DOMAIN x.queue : /\ jobs'[k] = x.queue[k]
                                                         /\ jobs'[k].status \in Live,
           x.pc \in {"check", "preview", "claim"} => x.job \notin DOMAIN attempts',
           x.pc \in {"record", "polled"} =>
             /\ x.status = "FAILED" => attempts'[x.job] = "FAILED"
             /\ x.status = "ACCEPTED" => attempts'[x.job] \in {"ACCEPTED", "FAILED"},
           x.pc = "recovering" => \A k \in DOMAIN x.queue :
             /\ x.queue[k] = "FAILED" => attempts'[k] = "FAILED"
             /\ x.queue[k] = "ACCEPTED" => attempts'[k] \in {"ACCEPTED", "FAILED"}
    PROVE  CInv'
<1>1. worker'[w] = x
  BY Moved DEF AInv
<1>2. Renewed(w)
  BY Alone
<1>3. AsRead(w)'
  <2>1. (AtWork(w) => Renewed(w))'
    BY <1>2 DEF Renewed
  <2>2. (worker[w].pc = "commit" =>
          /\ worker[w].previous = target[worker[w].subject]
          /\ \A r \in worker[w].free :
               LET k == Reminder(worker[w].subject, r) IN
               k \in DOMAIN jobs => ~jobs[k].dispatched)'
    BY <1>1 DEF Reminder
  <2>3. (worker[w].pc \in Sending =>
          \A k \in DOMAIN worker[w].queue : /\ jobs[k] = worker[w].queue[k]
                                            /\ jobs[k].status \in Live)'
    BY <1>1 DEF Sending, Live
  <2>4. (worker[w].pc \in {"check", "preview", "claim"} => worker[w].job \notin DOMAIN attempts)'
    BY <1>1
  <2>5. (worker[w].pc \in {"record", "polled"} => StillTrue(worker[w].job, worker[w].status))'
    BY <1>1 DEF StillTrue
  <2>6. (worker[w].pc = "recovering" =>
          \A k \in DOMAIN worker[w].queue : StillTrue(k, worker[w].queue[k]))'
    BY <1>1 DEF StillTrue
  <2> QED BY <2>1, <2>2, <2>3, <2>4, <2>5, <2>6 DEF AsRead
<1> QED BY <1>3, CalmSteps

LEMMA CalmRecoverOne == ASSUME AInv, CInv, NEW w \in Workers, RecoverOne(w) PROVE CInv'
<1>1. PICK k \in DOMAIN worker[w].queue :
         /\ RecordDispatch(k, worker[w].queue[k])
         /\ Become(w, [worker[w] EXCEPT !.queue = Without(@, k),
                         !.pc = IF DOMAIN worker[w].queue = {k} THEN "stays" ELSE @])
  BY DEF RecoverOne
<1>2. /\ worker[w].pc = "recovering" /\ worker[w] \in Runner /\ RunnerOK(w) /\ AtWork(w)
      /\ UNCHANGED <<state, target, attempts>>
  BY DEF RecoverOne, AInv, AtWork
<1>3. k \in DOMAIN jobs /\ k \in DOMAIN attempts /\ worker[w].queue[k] \in AttemptStatuses
  BY <1>2 DEF RunnerOK, AInv, AttemptsOK
<1>4. \A j \in DOMAIN worker[w].queue : StillTrue(j, worker[w].queue[j])
  BY <1>2 DEF CInv, AsRead
<1>5. TruthfulJobs' /\ QueuedEventsAreCurrent'
  BY <1>1, <1>2, <1>3, <1>4, RecordsStayTrue
<1> DEFINE l == IF DOMAIN worker[w].queue = {k} THEN "stays" ELSE "recovering"
           rest == Without(worker[w].queue, k)
           x == [worker[w] EXCEPT !.queue = rest, !.pc = l]
<1>6. /\ rest \in Queues
      /\ DOMAIN rest = DOMAIN worker[w].queue \ {k}
      /\ \A j \in DOMAIN worker[w].queue \ {k} : rest[j] = worker[w].queue[j]
  <2>1. worker[w].queue \in Queues
    BY <1>2 DEF Runner
  <2> QED BY <2>1, QueueLess
<1>7. Become(w, x) /\ l \in Places /\ l \in {"stays", "recovering"}
  BY <1>1, <1>2 DEF Places
<1> HIDE DEF rest, l
<1>8. x \in Runner /\ x.pc = l /\ x.queue = rest
  BY <1>2, <1>6, <1>7 DEF Runner
<1> HIDE DEF x
<1>9. \A j \in DOMAIN x.queue :
             /\ x.queue[j] = "FAILED" => attempts'[j] = "FAILED"
             /\ x.queue[j] = "ACCEPTED" => attempts'[j] \in {"ACCEPTED", "FAILED"}
  BY <1>2, <1>4, <1>6, <1>8 DEF StillTrue
<1>10. x.pc \notin Sending \cup {"commit", "check", "preview", "claim", "record", "polled"}
  BY <1>7, <1>8 DEF Sending
<1> QED BY <1>2, <1>5, <1>7, <1>8, <1>9, <1>10, CalmReading

LEMMA CalmObserveRead == ASSUME AInv, CInv, NEW w \in Workers, ObserveRead(w) PROVE CInv'
<1>1. worker[w] \in Runner /\ AtWork(w) /\ UNCHANGED <<state, target, jobs, attempts>>
  BY DEF AInv, AtWork, ObserveRead
<1> DEFINE ok(s, r) == LET k == Reminder(s, r) IN
                       k \in DOMAIN jobs => ~jobs[k].dispatched /\ jobs[k].status \notin Final
           free(s) == {r \in Reminders : ok(s, r)}
<1>2. PICK s \in DOMAIN worker[w].page :
        Become(w, [worker[w] EXCEPT !.pc = "commit", !.subject = s, !.previous = target[s],
                                    !.free = free(s)])
  BY DEF ObserveRead
<1> DEFINE f == free(s)
           x == [worker[w] EXCEPT !.pc = "commit", !.subject = s, !.previous = target[s],
                                  !.free = f]
<1>3. f \in SUBSET Reminders
      /\ \A r \in f : Reminder(s, r) \in DOMAIN jobs => ~jobs[Reminder(s, r)].dispatched
  OBVIOUS
<1>4. Become(w, x)
  BY <1>2
<1> HIDE DEF f
<1>5. s \in Subjects /\ "commit" \in Places
  BY <1>1, PageLess DEF Runner, Places
<1>6. target[s] \in Target \cup {None}
  BY <1>5 DEF AInv, RowsOK
<1>7. x \in Runner /\ x.pc = "commit" /\ x.subject = s /\ x.previous = target[s] /\ x.free = f
  BY <1>1, <1>3, <1>5, <1>6 DEF Runner
<1> HIDE DEF x
<1>8. TruthfulJobs' /\ QueuedEventsAreCurrent'
  BY <1>1, TruthsStay
<1>9. x.previous = target'[x.subject]
  BY <1>1, <1>7
<1>10. \A r \in x.free : Reminder(x.subject, r) \in DOMAIN jobs' =>
                           ~jobs'[Reminder(x.subject, r)].dispatched
  BY <1>1, <1>3, <1>7
<1>11. x.pc \notin Sending \cup {"check", "preview", "claim", "record", "polled", "recovering"}
  BY <1>7 DEF Sending
<1> QED BY <1>1, <1>4, <1>7, <1>8, <1>9, <1>10, <1>11, CalmReading

LEMMA CalmReadJobs == ASSUME AInv, CInv, NEW w \in Workers, ReadJobs(w) PROVE CInv'
<1>1. worker[w] \in Runner /\ AtWork(w) /\ UNCHANGED <<state, target, jobs, attempts>>
  BY DEF AInv, AtWork, ReadJobs
<1> DEFINE q == [k \in {j \in DOMAIN jobs : /\ jobs[j].status \in Live
                                            /\ jobs[j].due <= worker[w].date}
                   |-> jobs[k]]
           x == [worker[w] EXCEPT !.pc = "next", !.date = 0, !.queue = q]
<1>2. \A k \in DOMAIN q : k \in JobKeys /\ q[k] = jobs[k] /\ q[k] \in Job /\ jobs[k].status \in Live
  BY DEF AInv, JobsOK
<1>3. q \in Queues
  <2>1. q \in [DOMAIN q -> Job \cup AttemptStatuses \cup {None}]
    BY <1>2
  <2>2. DOMAIN q \in SUBSET JobKeys
    BY <1>2
  <2> QED BY <2>1, <2>2 DEF Queues
<1>4. "next" \in Places /\ 0 \in Times /\ Become(w, x)
  BY Bounds DEF Places, Sending, Times, ReadJobs
<1> HIDE DEF q
<1>5. x \in Runner /\ x.pc = "next" /\ x.queue = q
  BY <1>1, <1>3, <1>4 DEF Runner
<1> HIDE DEF x
<1>6. \A k \in DOMAIN x.queue : jobs'[k] = x.queue[k] /\ jobs'[k].status \in Live
  BY <1>1, <1>2, <1>5
<1>7. TruthfulJobs' /\ QueuedEventsAreCurrent'
  BY <1>1, TruthsStay
<1> QED BY <1>1, <1>4, <1>5, <1>6, <1>7, CalmReading

LEMMA CalmReadResults == ASSUME AInv, CInv, NEW w \in Workers, ReadResults(w) PROVE CInv'
<1>1. worker[w] \in Runner /\ AtWork(w) /\ UNCHANGED <<state, target, jobs, attempts>>
  BY DEF AInv, AtWork, ReadResults
<1> DEFINE q == [k \in {j \in DOMAIN attempts : attempts[j] # "FAILED"} |-> None]
           x == [worker[w] EXCEPT !.pc = "poll", !.queue = q]
<1>2. q \in Queues
  <2>1. q \in [DOMAIN q -> Job \cup AttemptStatuses \cup {None}]
    OBVIOUS
  <2>2. DOMAIN q \in SUBSET JobKeys
    BY DEF AInv, JobsOK, AttemptsOK
  <2> QED BY <2>1, <2>2 DEF Queues
<1>3. "poll" \in Places /\ Become(w, x)
  BY DEF Places, ReadResults
<1> HIDE DEF q
<1>4. x \in Runner /\ x.pc = "poll"
  BY <1>1, <1>2, <1>3 DEF Runner
<1> HIDE DEF x
<1> QED BY <1>1, <1>3, <1>4, TruthsStay, CalmPlaces

--------------------------------------------------------------------------------
\* The jobs of a queue are as they were read, and the one at hand is still to be sent.
LEMMA CalmQueue ==
    ASSUME AInv, CInv, NEW w \in Workers, worker[w].pc \in Sending
    PROVE  /\ \A k \in DOMAIN worker[w].queue : /\ jobs[k] = worker[w].queue[k]
                                                /\ jobs[k].status \in Live
                                                /\ k \in DOMAIN jobs
           /\ AtWork(w)
BY DEF AInv, CInv, AsRead, RunnerOK, AtWork, Sending

LEMMA CalmNextJob ==
    ASSUME AInv, CInv, NEW w \in Workers, worker[w].pc \in AtJob, Become(w, JobDone(w)),
           UNCHANGED state, TruthfulJobs', QueuedEventsAreCurrent',
           \A j \in DOMAIN jobs \ {worker[w].job} : jobs'[j] = jobs[j]
    PROVE  CInv'
<1> DEFINE x == JobDone(w)
           rest == Without(worker[w].queue, worker[w].job)
<1>1. x \in Runner /\ x.pc = "next" /\ x.queue = rest /\ worker[w].queue \in Queues
  BY DoneIsRunner DEF AInv, Runner
<1>2. /\ DOMAIN rest = DOMAIN worker[w].queue \ {worker[w].job}
      /\ \A k \in DOMAIN worker[w].queue \ {worker[w].job} : rest[k] = worker[w].queue[k]
  BY <1>1, QueueLess
<1>3. worker[w].pc \in Sending
  BY DEF AtJob
<1> HIDE DEF rest
<1>4. \A k \in DOMAIN x.queue : jobs'[k] = x.queue[k] /\ jobs'[k].status \in Live
  BY <1>1, <1>2, <1>3, CalmQueue
<1>5. AtWork(w) /\ Become(w, x)
  BY <1>3, CalmQueue
<1> HIDE DEF x
<1> QED BY <1>1, <1>4, <1>5, CalmReading

\* A runner that goes on with a job while the jobs stay.
LEMMA CalmWork ==
    ASSUME AInv, CInv, NEW w \in Workers, worker[w].pc \in Sending,
           UNCHANGED <<state, jobs>>, TruthfulJobs', QueuedEventsAreCurrent',
           NEW x \in Runner, Become(w, x), x.queue = worker[w].queue, x.pc \in AtJob,
           x.pc \in {"check", "preview", "claim"} => x.job \notin DOMAIN attempts',
           x.pc = "record" =>
             /\ x.status = "FAILED" => attempts'[x.job] = "FAILED"
             /\ x.status = "ACCEPTED" => attempts'[x.job] \in {"ACCEPTED", "FAILED"}
    PROVE  CInv'
<1>1. \A k \in DOMAIN x.queue : jobs'[k] = x.queue[k] /\ jobs'[k].status \in Live
  BY CalmQueue
<1>2. AtWork(w)
  BY CalmQueue
<1>3. x.pc \notin {"commit", "polled", "recovering"}
  BY DEF AtJob, Sending
<1> QED BY <1>1, <1>2, <1>3, CalmReading

LEMMA CalmRecording ==
    ASSUME AInv, CInv, NEW w \in Workers, worker[w].pc \in AtJob,
           UNCHANGED <<state, jobs>>, TruthfulJobs', QueuedEventsAreCurrent',
           NEW a \in AttemptStatuses, attempts'[worker[w].job] = a,
           Become(w, [worker[w] EXCEPT !.pc = "record", !.status = a])
    PROVE  CInv'
<1> DEFINE x == [worker[w] EXCEPT !.pc = "record", !.status = a]
<1>1. worker[w] \in Runner /\ "record" \in Places /\ worker[w].pc \in Sending
  BY DEF AInv, Places, Sending, AtJob
<1>2. x \in Runner /\ x.pc = "record" /\ x.queue = worker[w].queue
      /\ x.job = worker[w].job /\ x.status = a
  BY <1>1 DEF Runner
<1>3. Become(w, x)
  OBVIOUS
<1> HIDE DEF x
<1> QED BY <1>1, <1>2, <1>3, CalmWork DEF AtJob, Sending

LEMMA CalmGoingOn ==
    ASSUME AInv, CInv, NEW w \in Workers, worker[w].pc \in AtJob,
           UNCHANGED <<state, jobs>>, TruthfulJobs', QueuedEventsAreCurrent',
           NEW l \in {"preview", "sending", "caught"}, Goto(w, l),
           l = "preview" => worker[w].job \notin DOMAIN attempts'
    PROVE  CInv'
<1> DEFINE x == [worker[w] EXCEPT !.pc = l]
<1>1. worker \in [Workers -> Runner] /\ l \in Places /\ worker[w].pc \in Sending
  BY DEF AInv, Places, Sending, AtJob
<1>2. x \in Runner /\ x.pc = l /\ x.queue = worker[w].queue /\ x.job = worker[w].job
  BY <1>1, Going
<1>3. Become(w, x)
  BY DEF Goto
<1> HIDE DEF x
<1> QED BY <1>1, <1>2, <1>3, CalmWork DEF AtJob, Sending

LEMMA CalmPickJob == ASSUME AInv, CInv, NEW w \in Workers, PickJob(w) PROVE CInv'
<1>1. worker[w].pc \in Sending /\ worker[w] \in Runner
      /\ UNCHANGED <<state, target, jobs, attempts>>
  BY DEF PickJob, Sending, AInv
<1>2. TruthfulJobs' /\ QueuedEventsAreCurrent'
  BY <1>1, TruthsStay
<1>3. PICK k \in DOMAIN worker[w].queue :
         IF k \in DOMAIN attempts
         THEN Become(w, [worker[w] EXCEPT !.pc = "record", !.job = k, !.status = attempts[k]])
         ELSE Become(w, [worker[w] EXCEPT !.pc = "check", !.date = now, !.job = k])
  BY DEF PickJob
<1>4. k \in JobKeys
  <2>1. worker[w].queue \in Queues
    BY <1>1 DEF Runner
  <2> QED BY <2>1, QueueLess
<1>5. CASE k \in DOMAIN attempts
  <2> DEFINE x == [worker[w] EXCEPT !.pc = "record", !.job = k, !.status = attempts[k]]
  <2>1. attempts[k] \in AttemptStatuses /\ "record" \in Places
    BY <1>5 DEF AInv, AttemptsOK, Places, Sending
  <2>2. x \in Runner /\ x.pc = "record" /\ x.queue = worker[w].queue
        /\ x.job = k /\ x.status = attempts[k]
    BY <1>1, <1>4, <2>1 DEF Runner
  <2>3. Become(w, x)
    BY <1>3, <1>5
  <2> HIDE DEF x
  <2> QED BY <1>1, <1>2, <2>2, <2>3, CalmWork DEF AtJob, Sending
<1>6. CASE k \notin DOMAIN attempts
  <2> DEFINE x == [worker[w] EXCEPT !.pc = "check", !.date = now, !.job = k]
  <2>1. "check" \in Places /\ now \in Times
    BY DEF Places, Sending, AInv, RowsOK
  <2>2. x \in Runner /\ x.pc = "check" /\ x.queue = worker[w].queue /\ x.job = k
    BY <1>1, <1>4, <2>1 DEF Runner
  <2>3. Become(w, x)
    BY <1>3, <1>6
  <2> HIDE DEF x
  <2> QED BY <1>1, <1>2, <1>6, <2>2, <2>3, CalmWork DEF AtJob, Sending
<1> QED BY <1>5, <1>6

LEMMA CalmCheck == ASSUME AInv, CInv, NEW w \in Workers, Check(w) PROVE CInv'
<1> DEFINE k == worker[w].job
<1>1. worker[w].pc = "check" /\ worker[w].pc \in AtJob /\ worker[w].pc \in Sending
      /\ UNCHANGED <<state, target, attempts>>
  BY DEF Check, AtJob, Sending
<1>2. k \in DOMAIN jobs /\ jobs[k].status \in Live /\ k \notin DOMAIN attempts
  BY <1>1, JobAtHand, CalmQueue DEF CInv, AsRead
<1>3. CASE UpdateJob(k, "SKIPPED") /\ Become(w, JobDone(w))
  <2>1. TruthfulJobs' /\ QueuedEventsAreCurrent'
    BY <1>1, <1>2, <1>3, UpdatesStayTrue
  <2>2. \A j \in DOMAIN jobs \ {k} : jobs'[j] = jobs[j]
    BY <1>3 DEF UpdateJob, AInv, JobsOK
  <2> QED BY <1>1, <1>3, <2>1, <2>2, CalmNextJob
<1>4. CASE Goto(w, "preview") /\ UNCHANGED jobs
  <2>1. TruthfulJobs' /\ QueuedEventsAreCurrent'
    BY <1>1, <1>4, TruthsStay
  <2> QED BY <1>1, <1>2, <1>4, <2>1, CalmGoingOn
<1> QED BY <1>3, <1>4 DEF Check

LEMMA CalmPreview == ASSUME AInv, CInv, NEW w \in Workers, Preview(w) PROVE CInv'
<1> DEFINE k == worker[w].job
           x == [worker[w] EXCEPT !.pc = "claim", !.preview = source[k.subject]]
<1>1. worker[w].pc = "preview" /\ worker[w].pc \in AtJob /\ worker[w].pc \in Sending
      /\ UNCHANGED <<state, target, attempts>> /\ worker[w] \in Runner
  BY DEF Preview, AtJob, Sending, AInv
<1>2. k \in DOMAIN jobs /\ jobs[k].status \in Live /\ k \notin DOMAIN attempts
      /\ source[k.subject] \in Source
  BY <1>1, JobAtHand, CalmQueue DEF CInv, AsRead
<1>3. CASE UpdateJob(k, "BLOCKED") /\ Become(w, JobDone(w))
  <2>1. TruthfulJobs' /\ QueuedEventsAreCurrent'
    BY <1>1, <1>2, <1>3, UpdatesStayTrue
  <2>2. \A j \in DOMAIN jobs \ {k} : jobs'[j] = jobs[j]
    BY <1>3 DEF UpdateJob, AInv, JobsOK
  <2> QED BY <1>1, <1>3, <2>1, <2>2, CalmNextJob
<1>4. CASE UNCHANGED jobs /\ Become(w, JobDone(w))
  <2>1. TruthfulJobs' /\ QueuedEventsAreCurrent'
    BY <1>1, <1>4, TruthsStay
  <2> QED BY <1>1, <1>4, <2>1, CalmNextJob
<1>5. CASE UNCHANGED jobs /\ Become(w, x)
  <2>1. TruthfulJobs' /\ QueuedEventsAreCurrent'
    BY <1>1, <1>5, TruthsStay
  <2>2. "claim" \in Places
    BY DEF Places, Sending
  <2>3. x \in Runner /\ x.pc = "claim" /\ x.queue = worker[w].queue /\ x.job = k
    BY <1>1, <1>2, <2>2 DEF Runner
  <2> HIDE DEF x
  <2> QED BY <1>1, <1>2, <1>5, <2>1, <2>3, CalmWork DEF AtJob, Sending
<1> QED BY <1>3, <1>4, <1>5 DEF Preview

--------------------------------------------------------------------------------
LEMMA CalmClaim == ASSUME AInv, CInv, NEW w \in Workers, Claim(w) PROVE CInv'
<1> DEFINE k == worker[w].job
<1>1. worker[w].pc = "claim" /\ worker[w].pc \in AtJob
      /\ UNCHANGED <<state, target, jobs>>
  BY DEF Claim, AtJob, Sending
<1>2. k \notin DOMAIN attempts
  BY <1>1 DEF CInv, AsRead
<1>3. CASE attempts' = With(attempts, k, "SENDING") /\ Goto(w, "sending")
  <2>1. /\ DOMAIN attempts \subseteq DOMAIN attempts'
        /\ \A j \in DOMAIN attempts : attempts'[j] = attempts[j]
    BY <1>2, <1>3 DEF With
  <2>2. TruthfulJobs' /\ QueuedEventsAreCurrent'
    BY <1>1, <2>1, AttemptsStayTrue
  <2> QED BY <1>1, <1>3, <2>2, CalmGoingOn
<1>4. CASE Goto(w, "caught") /\ UNCHANGED attempts
  <2>1. TruthfulJobs' /\ QueuedEventsAreCurrent'
    BY <1>1, <1>4, TruthsStay
  <2> QED BY <1>1, <1>4, <2>1, CalmGoingOn
<1> QED BY <1>2, <1>3, <1>4 DEF Claim

LEMMA CalmSend == ASSUME AInv, CInv, NEW w \in Workers, Send(w) PROVE CInv'
<1> DEFINE k == worker[w].job
<1>1. worker[w].pc = "sending" /\ worker[w].pc \in AtJob /\ worker[w].pc \in Sending
      /\ UNCHANGED <<state, target, jobs>>
  BY DEF Send, AtJob, Sending
<1>2. k \in DOMAIN attempts /\ attempts \in [DOMAIN attempts -> AttemptStatuses]
  BY <1>1 DEF AInv, RunnerOK, AttemptsOK
<1>3. ~jobs[k].dispatched
  <2>1. k \in DOMAIN jobs /\ jobs[k].status \in Live
    BY <1>1, JobAtHand, CalmQueue
  <2> QED BY <2>1 DEF CInv, TruthfulJobs, Live, Final
<1>4. CASE \E a \in Results :
             /\ attempts' = [attempts EXCEPT ![k] = a]
             /\ Become(w, [worker[w] EXCEPT !.pc = "record", !.status = a])
  <2>1. PICK a \in Results : /\ attempts' = [attempts EXCEPT ![k] = a]
                             /\ Become(w, [worker[w] EXCEPT !.pc = "record", !.status = a])
    BY <1>4
  <2>2. a \in AttemptStatuses
    BY ResultsAreStatuses
  <2>3. /\ DOMAIN attempts \subseteq DOMAIN attempts' /\ attempts'[k] = a
        /\ \A j \in DOMAIN attempts : attempts'[j] = attempts[j] \/ j = k
    BY <1>2, <2>1
  <2>4. TruthfulJobs' /\ QueuedEventsAreCurrent'
    BY <1>1, <1>3, <2>3, AttemptsStayTrue
  <2> QED BY <1>1, <2>1, <2>2, <2>3, <2>4, CalmRecording
<1>5. CASE Goto(w, "caught") /\ UNCHANGED attempts
  <2>1. TruthfulJobs' /\ QueuedEventsAreCurrent'
    BY <1>1, <1>5, TruthsStay
  <2> QED BY <1>1, <1>5, <2>1, CalmGoingOn
<1> QED BY <1>4, <1>5 DEF Send

LEMMA CalmCaught == ASSUME AInv, CInv, NEW w \in Workers, Caught(w) PROVE CInv'
<1> DEFINE k == worker[w].job
<1>1. worker[w].pc \in AtJob /\ worker[w].pc \in Sending
      /\ UNCHANGED <<state, target, attempts>>
  BY DEF Caught, AtJob, Sending
<1>2. k \in DOMAIN jobs /\ jobs[k].status \in Live
  BY <1>1, JobAtHand, CalmQueue
<1>3. CASE k \in DOMAIN attempts
  <2>1. /\ Become(w, [worker[w] EXCEPT !.pc = "record", !.status = attempts[k]])
        /\ UNCHANGED jobs
    BY <1>3 DEF Caught
  <2>2. attempts[k] \in AttemptStatuses
    BY <1>3 DEF AInv, AttemptsOK
  <2>3. TruthfulJobs' /\ QueuedEventsAreCurrent'
    BY <1>1, <2>1, TruthsStay
  <2> QED BY <1>1, <2>1, <2>2, <2>3, CalmRecording
<1>4. CASE k \notin DOMAIN attempts
  <2>1. UpdateJob(k, "BLOCKED") /\ Become(w, JobDone(w))
    BY <1>4 DEF Caught
  <2>2. TruthfulJobs' /\ QueuedEventsAreCurrent'
    BY <1>1, <1>2, <2>1, UpdatesStayTrue
  <2>3. \A j \in DOMAIN jobs \ {k} : jobs'[j] = jobs[j]
    BY <2>1 DEF UpdateJob, AInv, JobsOK
  <2> QED BY <1>1, <2>1, <2>2, <2>3, CalmNextJob
<1> QED BY <1>3, <1>4

\* Only the job that is recorded changes.
LEMMA RecordsOne ==
    ASSUME AInv, NEW k \in DOMAIN jobs, NEW a, RecordDispatch(k, a)
    PROVE  \A j \in DOMAIN jobs \ {k} : jobs'[j] = jobs[j]
BY DEF RecordDispatch, AInv, JobsOK

LEMMA CalmRecord == ASSUME AInv, CInv, NEW w \in Workers, Record(w) PROVE CInv'
<1> DEFINE k == worker[w].job
           a == worker[w].status
<1>1. worker[w].pc = "record" /\ worker[w].pc \in AtJob
      /\ UNCHANGED <<state, target, attempts>>
  BY DEF Record, AtJob, Sending
<1>2. k \in DOMAIN jobs /\ k \in DOMAIN attempts /\ a \in AttemptStatuses /\ StillTrue(k, a)
  BY <1>1, JobAtHand DEF AInv, Runner, RunnerOK, CInv, AsRead
<1>3. RecordDispatch(k, a) /\ Become(w, JobDone(w))
  BY DEF Record
<1>4. TruthfulJobs' /\ QueuedEventsAreCurrent'
  BY <1>1, <1>2, <1>3, RecordsStayTrue
<1> QED BY <1>1, <1>2, <1>3, <1>4, RecordsOne, CalmNextJob

LEMMA CalmPoll == ASSUME AInv, CInv, NEW w \in Workers, Poll(w) PROVE CInv'
<1>1. worker[w].pc = "poll" /\ worker[w] \in Runner /\ worker[w].queue \in Queues
      /\ DOMAIN worker[w].queue \subseteq DOMAIN attempts /\ AtWork(w)
      /\ UNCHANGED <<state, target, jobs>>
  BY DEF Poll, AInv, Runner, RunnerOK, AtWork
<1>2. PICK k \in DOMAIN worker[w].queue :
         \/ \E a \in Refreshed(attempts[k]) :
              /\ attempts' = [attempts EXCEPT ![k] = a]
              /\ Become(w, [worker[w] EXCEPT !.pc = "polled", !.job = k, !.status = a])
         \/ Become(w, [worker[w] EXCEPT !.queue = Without(@, k)]) /\ UNCHANGED attempts
  BY DEF Poll
<1>3. k \in DOMAIN attempts /\ k \in JobKeys /\ attempts[k] \in AttemptStatuses
      /\ attempts \in [DOMAIN attempts -> AttemptStatuses]
  BY <1>1 DEF AInv, AttemptsOK, JobsOK
<1>4. CASE \E a \in Refreshed(attempts[k]) :
              /\ attempts' = [attempts EXCEPT ![k] = a]
              /\ Become(w, [worker[w] EXCEPT !.pc = "polled", !.job = k, !.status = a])
  <2>1. PICK a \in Refreshed(attempts[k]) :
              /\ attempts' = [attempts EXCEPT ![k] = a]
              /\ Become(w, [worker[w] EXCEPT !.pc = "polled", !.job = k, !.status = a])
    BY <1>4
  <2>2. a \in AttemptStatuses /\ "polled" \in Places
    BY <1>3, RefreshedStatus DEF Places
  <2>3. /\ DOMAIN attempts \subseteq DOMAIN attempts' /\ attempts'[k] = a
        /\ \A j \in DOMAIN attempts : attempts'[j] = attempts[j]
                                      \/ attempts'[j] \in Refreshed(attempts[j])
    BY <1>3, <2>1
  <2>4. TruthfulJobs' /\ QueuedEventsAreCurrent'
    BY <1>1, <2>3, AttemptsStayTrue
  <2> DEFINE x == [worker[w] EXCEPT !.pc = "polled", !.job = k, !.status = a]
  <2>5. x \in Runner /\ x.pc = "polled" /\ x.job = k /\ x.status = a
    BY <1>1, <1>3, <2>2 DEF Runner
  <2>6. Become(w, x)
    BY <2>1
  <2> HIDE DEF x
  <2>7. x.pc \notin Sending
    BY <2>5 DEF Sending
  <2> QED BY <1>1, <2>3, <2>4, <2>5, <2>6, <2>7, CalmReading
<1>5. CASE Become(w, [worker[w] EXCEPT !.queue = Without(@, k)]) /\ UNCHANGED attempts
  <2> DEFINE rest == Without(worker[w].queue, k)
             x == [worker[w] EXCEPT !.queue = rest]
  <2>1. rest \in Queues
    BY <1>1, QueueLess
  <2>2. Become(w, x)
    BY <1>5
  <2> HIDE DEF rest
  <2>3. x \in Runner /\ x.pc = "poll"
    BY <1>1, <2>1 DEF Runner
  <2> HIDE DEF x
  <2> QED BY <1>1, <1>5, <2>2, <2>3, TruthsStay, CalmPlaces
<1> QED BY <1>2, <1>4, <1>5

LEMMA CalmPolled == ASSUME AInv, CInv, NEW w \in Workers, Polled(w) PROVE CInv'
<1> DEFINE k == worker[w].job
           a == worker[w].status
<1>1. /\ worker[w].pc = "polled" /\ worker[w] \in Runner /\ AtWork(w)
      /\ k \in DOMAIN attempts /\ k \in DOMAIN jobs /\ a \in AttemptStatuses
      /\ UNCHANGED <<state, target, attempts>>
  BY DEF Polled, AInv, Runner, RunnerOK, AttemptsOK, AtWork
<1>2. StillTrue(k, a)
  BY <1>1 DEF CInv, AsRead
<1>3. TruthfulJobs' /\ QueuedEventsAreCurrent'
  <2>1. CASE jobs[k].dispatched
    <3>1. RecordDispatch(k, a)
      BY <2>1 DEF Polled
    <3> QED BY <1>1, <1>2, <3>1, RecordsStayTrue
  <2>2. CASE ~jobs[k].dispatched
    <3>1. UNCHANGED jobs
      BY <2>2 DEF Polled
    <3> QED BY <1>1, <3>1, TruthsStay
  <2> QED BY <2>1, <2>2
<1> DEFINE y == JobDone(w)
<1>4. y \in Runner
  BY DoneIsRunner
<1>5. Become(w, [y EXCEPT !.pc = "poll"]) /\ "poll" \in Places
  BY DEF Polled, Places
<1> HIDE DEF y
<1>6. [y EXCEPT !.pc = "poll"] \in Runner /\ [y EXCEPT !.pc = "poll"].pc = "poll"
  BY <1>4, <1>5 DEF Runner
<1> QED BY <1>1, <1>3, <1>5, <1>6, CalmPlaces

--------------------------------------------------------------------------------
\* An event that an observation keeps queued belongs to what was observed before, which is
\* what is observed now.
LEMMA KeptIsCurrent ==
    ASSUME AInv, CInv, NEW s \in Subjects, NEW x \in Source, NEW rebase \in BOOLEAN,
           NEW t, NEW k \in DOMAIN jobs, k.subject = s, IsEvent(k),
           ~jobs[k].dispatched, jobs[k].status \in Live,
           ~Overtaken(s, x, target[s], rebase, t, k)
    PROVE  jobs[k].print = Fingerprint(x, key) /\ k.seq = NextSeq(target[s], x)
<1>1. target[s] \in Target /\ target[s] # None
  BY NoneIsNoRow DEF AInv, JobsOK
<1>2. target[s].print = Fingerprint(x, key)
  BY <1>1 DEF Overtaken, IsEvent
<1>3. jobs[k].print = target[s].print /\ k.seq = target[s].seq
  BY DEF CInv, QueuedEventsAreCurrent
<1>4. NextSeq(target[s], x) = target[s].seq
  BY <1>1, <1>2 DEF NextSeq, Target
<1> QED BY <1>2, <1>3, <1>4

LEMMA CalmObserveCommit == ASSUME AInv, CInv, NEW w \in Workers, ObserveCommit(w) PROVE CInv'
<1> DEFINE s == worker[w].subject
           x == worker[w].page[s]
           p == worker[w].previous
           free == worker[w].free
           rebase == worker[w].rebase
           t == worker[w].date
           seq == NextSeq(p, x)
           D == DOMAIN jobs \cup Revised(s, x, free, t) \cup NewEvents(s, x, p, seq, rebase, t)
           new(k) == Observed(s, x, p, free, rebase, t, k)
<1>1. worker[w].pc = "commit" /\ worker[w] \in Runner /\ s \in DOMAIN worker[w].page
      /\ worker[w].page \in Pages /\ AtWork(w)
  BY DEF ObserveCommit, AInv, RunnerOK, Runner, AtWork
<1>2. /\ s \in Subjects /\ x \in Source /\ p \in Target \cup {None} /\ free \in SUBSET Reminders
      /\ rebase \in BOOLEAN /\ t \in Times /\ worker[w].then \in {"tasks", "stamp"}
  BY <1>1, PageLess DEF Runner
<1>3. seq \in Nat
  BY <1>2, NextSeqIsNumber
<1>4. /\ p = target[s]
      /\ \A r \in free : Reminder(s, r) \in DOMAIN jobs => ~jobs[Reminder(s, r)].dispatched
  BY <1>1 DEF CInv, AsRead
<1>5. /\ jobs' = [k \in D |-> Followed(s, x, k, new(k))]
      /\ target' = [target EXCEPT ![s] = [print |-> Fingerprint(x, key), seq |-> seq]]
      /\ UNCHANGED <<state, attempts>>
      /\ Become(w, [worker[w] EXCEPT !.page = Without(@, s),
                                     !.pc = IF DOMAIN worker[w].page = {s}
                                            THEN worker[w].then ELSE "observe",
                                     !.subject = None, !.previous = None, !.free = {}])
  BY DEF ObserveCommit
<1> HIDE DEF s, x, p, free, rebase, t, seq
<1>6. \A k \in D : /\ new(k) \in Job
                   /\ jobs'[k].print = new(k).print /\ jobs'[k].status = new(k).status
                   /\ jobs'[k].dispatched = new(k).dispatched
  <2> SUFFICES ASSUME NEW k \in D
               PROVE  /\ new(k) \in Job
                      /\ jobs'[k].print = new(k).print /\ jobs'[k].status = new(k).status
                      /\ jobs'[k].dispatched = new(k).dispatched
    OBVIOUS
  <2>1. k \in DOMAIN jobs \cup Revised(s, x, free, t) \/ IsEvent(k)
    BY <1>2, <1>3, NewEventKeys
  <2>2. new(k) \in Job
    BY <1>2, <2>1, ObservedIsJob
  <2>3. jobs'[k] = Followed(s, x, k, new(k))
    BY <1>5
  <2> HIDE DEF new
  <2> QED BY <1>2, <2>2, <2>3, FollowedIsJob
<1>7. \A k \in Revised(s, x, free, t) :
         new(k).dispatched = FALSE /\ new(k).status \in {"SKIPPED", "PENDING"}
  <2> SUFFICES ASSUME NEW k \in Revised(s, x, free, t)
               PROVE  new(k).dispatched = FALSE /\ new(k).status \in {"SKIPPED", "PENDING"}
    OBVIOUS
  <2>1. ~(k \in DOMAIN jobs /\ jobs[k].dispatched)
    BY <1>2, <1>4, RevisedKeys
  <2> QED BY <2>1 DEF Observed, ReminderJob
<1>8. \A k \in D \ (DOMAIN jobs \cup Revised(s, x, free, t)) :
         /\ new(k).dispatched = FALSE /\ new(k).status = "PENDING"
         /\ new(k).print = Fingerprint(x, key)
  BY DEF Observed
<1>9. \A k \in DOMAIN jobs \ Revised(s, x, free, t) :
         \/ new(k) = jobs[k] /\ ~(/\ ~jobs[k].dispatched /\ jobs[k].status \in Live
                                  /\ Overtaken(s, x, p, rebase, t, k))
         \/ /\ ~jobs[k].dispatched /\ new(k).dispatched = jobs[k].dispatched
            /\ new(k).status = "SKIPPED"
  <2> SUFFICES ASSUME NEW k \in DOMAIN jobs \ Revised(s, x, free, t)
               PROVE  \/ new(k) = jobs[k] /\ ~(/\ ~jobs[k].dispatched /\ jobs[k].status \in Live
                                               /\ Overtaken(s, x, p, rebase, t, k))
                      \/ /\ ~jobs[k].dispatched /\ new(k).dispatched = jobs[k].dispatched
                         /\ new(k).status = "SKIPPED"
    OBVIOUS
  <2>1. jobs[k] \in Job
    BY DEF AInv, JobsOK
  <2> DEFINE over == ~jobs[k].dispatched /\ jobs[k].status \in Live
                     /\ Overtaken(s, x, p, rebase, t, k)
  <2>2. CASE over
    <3>1. new(k) = [jobs[k] EXCEPT !.status = "SKIPPED"]
      BY <2>2 DEF Observed
    <3> HIDE DEF new
    <3> QED BY <2>1, <2>2, <3>1 DEF Job
  <2>3. CASE ~over
    BY <2>3 DEF Observed
  <2> QED BY <2>2, <2>3
<1> HIDE DEF new
<1>10. DOMAIN jobs' = D
  BY <1>5
<1>11. TruthfulJobs'
  <2> SUFFICES ASSUME NEW k \in D
               PROVE  /\ jobs'[k].dispatched <=> jobs'[k].status \in Final
                      /\ jobs'[k].dispatched => k \in DOMAIN attempts
                      /\ jobs'[k].status = "FAILED" => attempts[k] = "FAILED"
                      /\ jobs'[k].status = "COMPLETED" => attempts[k] \in {"ACCEPTED", "FAILED"}
    BY <1>5, <1>10 DEF TruthfulJobs
  <2>1. CASE k \in Revised(s, x, free, t)
    BY <1>6, <1>7, <2>1 DEF Final
  <2>2. CASE k \in D \ (DOMAIN jobs \cup Revised(s, x, free, t))
    BY <1>6, <1>8, <2>2 DEF Final
  <2>3. CASE k \in DOMAIN jobs \ Revised(s, x, free, t)
    <3>1. CASE new(k) = jobs[k]
      BY <1>6, <2>3, <3>1 DEF CInv, TruthfulJobs
    <3>2. CASE ~jobs[k].dispatched /\ new(k).dispatched = jobs[k].dispatched
               /\ new(k).status = "SKIPPED"
      BY <1>6, <2>3, <3>2 DEF Final
    <3> QED BY <1>9, <2>3, <3>1, <3>2
  <2> QED BY <2>1, <2>2, <2>3
<1>12. target' \in [Subjects -> Target \cup {None} \cup {[print |-> Fingerprint(x, key), seq |-> seq]}]
       /\ target'[s].print = Fingerprint(x, key) /\ target'[s].seq = seq
       /\ \A o \in Subjects \ {s} : target'[o] = target[o]
  BY <1>2, <1>5 DEF AInv, RowsOK
<1>13. QueuedEventsAreCurrent'
  <2> SUFFICES ASSUME NEW k \in D, IsEvent(k), jobs'[k].status \in Live, ~jobs'[k].dispatched
               PROVE  jobs'[k].print = target'[k.subject].print /\ k.seq = target'[k.subject].seq
    BY <1>10 DEF QueuedEventsAreCurrent, IsEvent
  <2>1. k \notin Revised(s, x, free, t)
    BY <1>2, RevisedKeys
  <2>2. CASE k \notin DOMAIN jobs
    <3>1. k.subject = s /\ k.seq = seq
      BY <1>2, <1>3, <2>1, <2>2, NewEventKeys
    <3> QED BY <1>6, <1>8, <1>12, <2>1, <2>2, <3>1
  <2>3. CASE k \in DOMAIN jobs
    <3>1. new(k) = jobs[k] /\ ~jobs[k].dispatched /\ jobs[k].status \in Live
          /\ ~Overtaken(s, x, p, rebase, t, k)
      BY <1>6, <1>9, <2>1, <2>3 DEF Live
    <3>2. k.subject \in Subjects
      BY <2>3 DEF AInv, JobsOK, JobKeys
    <3>3. CASE k.subject = s
      <4>1. jobs[k].print = Fingerprint(x, key) /\ k.seq = seq
        BY <1>2, <1>4, <2>3, <3>1, <3>3, KeptIsCurrent DEF seq
      <4> QED BY <1>6, <1>12, <3>1, <3>3, <4>1
    <3>4. CASE k.subject # s
      <4>1. jobs[k].print = target[k.subject].print /\ k.seq = target[k.subject].seq
        BY <2>3, <3>1 DEF CInv, QueuedEventsAreCurrent
      <4> QED BY <1>6, <1>12, <3>1, <3>2, <3>4, <4>1
    <3> QED BY <3>3, <3>4
  <2> QED BY <2>2, <2>3
<1> DEFINE rest == Without(worker[w].page, s)
           l == IF DOMAIN worker[w].page = {s} THEN worker[w].then ELSE "observe"
           y == [worker[w] EXCEPT !.page = rest, !.pc = l, !.subject = None,
                                  !.previous = None, !.free = {}]
<1>14. rest \in Pages
  BY <1>1, PageLess
<1>15. Become(w, y) /\ l \in Places /\ l \in Quiet
  BY <1>2, <1>5 DEF Places, Quiet
<1> HIDE DEF rest, l
<1>16. y \in Runner /\ y.pc = l
  BY <1>1, <1>14, <1>15 DEF Runner
<1> HIDE DEF y
<1> QED BY <1>1, <1>5, <1>11, <1>13, <1>15, <1>16, CalmPlaces

--------------------------------------------------------------------------------
\* Steps of nobody's runner.  A lease only expires under a runner that is not at work, or
\* is counted as a pause.
LEMMA CalmExpire == ASSUME AInv, CInv, Expire, pauses = 0, pauses' = 0 PROVE CInv'
<1>1. worker[state.owner].pc \in {"idle", "lease"} /\ UNCHANGED <<worker, target, jobs, attempts>>
  BY DEF Expire
<1>2. \A w \in Workers : ~AtWork(w)
  BY <1>1 DEF CInv, AsRead, AtWork, Renewed
<1>3. \A w \in Workers : AsRead(w)'
  BY <1>1, <1>2 DEF AtWork, AsRead, Sending
<1> QED BY <1>1, <1>3, TruthsStay DEF CInv

LEMMA CalmManualRefresh ==
    ASSUME AInv, CInv, NEW k \in DOMAIN attempts, ManualRefresh(k)
    PROVE  CInv'
<1>1. UNCHANGED <<state, target, jobs, worker>>
  BY DEF ManualRefresh
<1>2. PICK a \in Refreshed(attempts[k]) : attempts' = [attempts EXCEPT ![k] = a]
  BY DEF ManualRefresh
<1>3. attempts \in [DOMAIN attempts -> AttemptStatuses]
  BY DEF AInv, AttemptsOK
<1>4. /\ DOMAIN attempts' = DOMAIN attempts
      /\ \A j \in DOMAIN attempts : attempts'[j] = attempts[j]
                                    \/ attempts'[j] \in Refreshed(attempts[j])
  BY <1>2, <1>3
<1>5. TruthfulJobs' /\ QueuedEventsAreCurrent'
  BY <1>1, <1>4, AttemptsStayTrue
<1>6. ASSUME NEW j \in DOMAIN attempts, NEW b, StillTrue(j, b)
      PROVE  /\ b = "FAILED" => attempts'[j] = "FAILED"
             /\ b = "ACCEPTED" => attempts'[j] \in {"ACCEPTED", "FAILED"}
  <2>1. attempts[j] \in AttemptStatuses
    BY <1>3
  <2>2. /\ attempts[j] = "FAILED" => attempts'[j] = "FAILED"
        /\ attempts[j] = "ACCEPTED" => attempts'[j] \in {"ACCEPTED", "FAILED"}
    BY <1>4, <2>1, RefreshedStatus
  <2> QED BY <1>6, <2>2 DEF StillTrue
<1>7. ASSUME NEW w \in Workers PROVE AsRead(w)'
  <2>1. AsRead(w) /\ RunnerOK(w)
    BY DEF CInv, AInv
  <2>2. worker[w].pc \in {"record", "polled"} => StillTrue(worker[w].job, worker[w].status)'
    BY <1>1, <1>6, <2>1 DEF AsRead, RunnerOK, StillTrue
  <2>3. worker[w].pc = "recovering" =>
          \A j \in DOMAIN worker[w].queue : StillTrue(j, worker[w].queue[j])'
    BY <1>1, <1>6, <2>1 DEF AsRead, RunnerOK, StillTrue
  <2>4. worker[w].pc \in {"check", "preview", "claim"} => worker[w].job \notin DOMAIN attempts'
    BY <1>4, <2>1 DEF AsRead
  <2> QED BY <1>1, <2>1, <2>2, <2>3, <2>4 DEF AsRead, AtWork, Renewed
<1> QED BY <1>5, <1>7 DEF CInv

LEMMA CalmOutside ==
    ASSUME AInv, CInv, UNCHANGED <<state, target, jobs, attempts, worker>>
    PROVE  CInv'
<1>1. \A w \in Workers : AsRead(w)'
  BY DEF CInv, AsRead, AtWork, Renewed, StillTrue
<1> QED BY <1>1, TruthsStay DEF CInv

LEMMA CalmRotate == ASSUME AInv, CInv, Rotate PROVE CInv'
<1>1. \A w \in Workers : worker'[w].pc = "idle"
  BY DEF Rotate, NoWork
<1>2. \A w \in Workers : AsRead(w)'
  BY <1>1 DEF AsRead, AtWork, Sending
<1> QED BY <1>2, TruthsStay DEF Rotate, CInv

LEMMA CalmTick == ASSUME AInv, CInv, NEW w \in Workers, Tick(w) PROVE CInv'
BY CalmReadState, CalmTakeLease, CalmStops, CalmRecoverRead, CalmRecoverOne, CalmReadPage,
   CalmObserveRead, CalmObserveCommit, CalmReadJobs, CalmPickJob, CalmCheck, CalmPreview,
   CalmClaim, CalmSend, CalmCaught, CalmRecord, CalmReadResults, CalmPoll, CalmPolled
   DEF Tick

--------------------------------------------------------------------------------
\* As long as no lease has expired under its runner.
Calm == pauses = 0 => CInv

LEMMA InitCalm == Init => Calm
<1> SUFFICES ASSUME Init PROVE CInv
  BY DEF Calm
<1>1. DOMAIN jobs = {}
  BY DEF Init
<1>2. TruthfulJobs /\ QueuedEventsAreCurrent
  BY <1>1 DEF TruthfulJobs, QueuedEventsAreCurrent
<1>3. \A w \in Workers : AsRead(w)
  BY DEF Init, NoWork, AsRead, AtWork, Sending
<1> QED BY <1>2, <1>3 DEF CInv

LEMMA NextCalm == AInv /\ Calm /\ [Next]_vars => Calm'
<1> SUFFICES ASSUME AInv, Calm, [Next]_vars, pauses' = 0 PROVE CInv'
  BY DEF Calm
<1>1. pauses = 0
  <2>1. pauses \in Nat
    BY Bounds DEF AInv, RowsOK
  <2>2. pauses' = pauses \/ pauses' = pauses + 1
    BY DEF Next, vars, Tick, ReadState, TakeLease, LeaseLost, RecoverRead, RecoverOne, ReadPage,
       ObserveRead, ObserveCommit, Stamp, ReadJobs, PickJob, Check, Preview, Claim, Send, Caught,
       Record, ReadResults, Poll, Polled, PollDone, Release, Throw, Crash, Expire, PassTime,
       Rotate, ManualRefresh, Create, Edit, bounds
  <2> QED BY <2>1, <2>2
<1>2. CInv
  BY <1>1 DEF Calm
<1>3. CASE \E w \in Workers : Tick(w) \/ Throw(w) \/ Crash(w)
  BY <1>2, <1>3, CalmTick, CalmStops, CalmCrash
<1>4. CASE Expire
  BY <1>1, <1>2, <1>4, CalmExpire
<1>5. CASE PassTime \/ \E s \in Subjects : Create(s) \/ Edit(s)
  BY <1>2, <1>5, CalmOutside DEF PassTime, Create, Edit
<1>6. CASE Rotate
  BY <1>2, <1>6, CalmRotate
<1>7. CASE \E k \in DOMAIN attempts : ManualRefresh(k)
  BY <1>2, <1>7, CalmManualRefresh
<1>8. CASE UNCHANGED vars
  BY <1>2, <1>8, CalmOutside DEF vars
<1> QED BY <1>3, <1>4, <1>5, <1>6, <1>7, <1>8 DEF Next

LEMMA SpecCalm == Spec => []Calm
<1>1. AInv /\ Calm /\ [Next]_vars => Calm'
  BY NextCalm
<1> QED BY <1>1, InitCalm, SpecAInv, PTL DEF Spec

\* The lease keeps the runners apart: as long as none was paused for longer than its lease,
\* only one is between taking the lease and giving it back, and it is the one that the
\* state's row names (the lease of MessageAutomationState).
OneRunner == \A v, w \in Workers : AtWork(v) /\ AtWork(w) => v = w /\ Renewed(w)

THEOREM LeasesKeepRunnersApart == Spec => [](pauses = 0 => OneRunner)
<1>1. Calm => (pauses = 0 => OneRunner)
  BY DEF Calm, CInv, AsRead, OneRunner, Renewed
<1> QED BY <1>1, SpecCalm, PTL

\* As long as no runner was paused for longer than its lease, a job says of its attempt
\* nothing that is not true: it knows of one exactly when it has a final status, that one
\* exists, and the status is never better than what is known of it, whatever crashed, was
\* refreshed by hand or signed with another key in between (recordDispatch, recoverAttempts
\* and refreshResults).
THEOREM JobsAreTruthful == Spec => [](pauses = 0 => TruthfulJobs)
<1>1. Calm => (pauses = 0 => TruthfulJobs)
  BY DEF Calm, CInv
<1> QED BY <1>1, SpecCalm, PTL

\* As long as no runner was paused for longer than its lease, the events that are queued
\* about a subject are those of its last observation: what a change overtook is skipped in
\* the step that observes the change (observe).
THEOREM QueuedEventsStayCurrent == Spec => [](pauses = 0 => QueuedEventsAreCurrent)
<1>1. Calm => (pauses = 0 => QueuedEventsAreCurrent)
  BY DEF Calm, CInv
<1> QED BY <1>1, SpecCalm, PTL
================================================================================
