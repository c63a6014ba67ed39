---------------------------- MODULE CronService ----------------------------
(***************************************************************************)
(* The scheduled-job service of pkg/cron/service.go, with the clients that *)
(* share its job file: the agent's cron tool (pkg/tools/cron.go), which    *)
(* runs inside the gateway process, and the `operator cron` command        *)
(* (cmd/operator/internal/cron), a process of its own.                     *)
(*                                                                         *)
(* The gateway process may crash at any point and boot again from the      *)
(* file; every write of the file may fail (the code logs the error and     *)
(* goes on); every read of it may fail (the code goes on with no jobs).    *)
(* A handler runs outside the mutex, so every client operation may happen  *)
(* while a job is being executed.                                          *)
(*                                                                         *)
(* Abstracted: names, payloads and the last-run fields of a job, which no  *)
(* decision of the service reads.  Slice order is abstracted to a set.     *)
(***************************************************************************)
EXTENDS Naturals, FiniteSets

CONSTANTS
    Job,        \* job identifiers; generateID never repeats one
    Schedule,   \* schedules a client may ask for
    MaxTime,    \* bound: the clock stops here
    MaxCrash,   \* bound: crashes of the gateway process
    None        \* nil pointers and absent jobs

Time == 0..MaxTime
Kinds == {"at", "every", "cron"}

\* CronSchedule: t is AtMS of an "at" schedule, the interval of an "every"
\* schedule and the period of a "cron" expression (0: rejected by gronx).
ScheduleType == [kind : Kinds, t : Nat]

ASSUME ScheduleAssumption == Schedule \subseteq ScheduleType
ASSUME BoundAssumption == MaxTime \in Nat /\ MaxCrash \in Nat
ASSUME NoneAssumption ==
    /\ None \notin Nat
    /\ None \notin Job
    /\ None \notin ScheduleType
    /\ None \notin [sched : ScheduleType, enabled : BOOLEAN,
                    next : Nat \cup {None}]

VARIABLES
    now,        \* the wall clock
    up,         \* the gateway process is running
    running,    \* cs.running
    store,      \* cs.store.Jobs
    disk,       \* contents of jobs.json
    loop,       \* the runLoop goroutine
    pending,    \* job copies between the cron tool's AddJob and UpdateJob
    cli,        \* the job list loaded by an `operator cron` command, or None
    born,       \* the schedule an identifier was created with
    runs,       \* history: how often the handler was invoked for a job
    crashes     \* bounded by MaxCrash

vars == <<now, up, running, store, disk, loop, pending, cli, born, runs, crashes>>

JobRec == [sched : ScheduleType, enabled : BOOLEAN, next : Nat \cup {None}]
Jobs == [Job -> JobRec \cup {None}]
NoJobs == [j \in Job |-> None]

\* A job of AddJob: one-time jobs are the ones deleted after their run.
DeleteAfterRun(r) == r.sched.kind = "at"

LoopType == [pc : {"none", "idle", "exec", "handler", "exited"},
             due : SUBSET Job, job : Job \cup {None}]
NoLoop == [pc |-> "none", due |-> {}, job |-> None]

----------------------------------------------------------------------------
\* gronx.NextTickAfter for an expression that fires every p: strictly later.
NextTickAfter(p, t) == ((t \div p) + 1) * p

\* Mutant: the boundary of a one-time schedule is off by one.
computeNextRunOffByOne(s, t) ==
    IF s.kind = "at" THEN IF s.t >= t THEN s.t ELSE None
    ELSE IF s.t = 0 THEN None
    ELSE IF s.kind = "every" THEN t + s.t ELSE NextTickAfter(s.t, t)

\* nil: a time that has passed, an interval of zero, a rejected expression.
computeNextRun(s, t) ==
    IF s.kind = "at" THEN IF s.t > t THEN s.t ELSE None
    ELSE IF s.t = 0 THEN None
    ELSE IF s.kind = "every" THEN t + s.t ELSE NextTickAfter(s.t, t)

recomputeNextRuns(st) ==
    [j \in Job |-> IF st[j] # None /\ st[j].enabled
                   THEN [st[j] EXCEPT !.next = computeNextRun(st[j].sched, now)]
                   ELSE st[j]]

\* saveStoreUnsafe: an atomic replacement of the file that may fail.
saveStoreUnsafe(st) == disk' \in {st, disk}

\* loadStore: a read error leaves an empty store behind.
loadStore == {disk, NoJobs}

\* Mutant: any job with a next run is due.
IsDueEarly(j) == store[j] # None /\ store[j].enabled /\ store[j].next # None

IsDue(j) == /\ store[j] # None
            /\ store[j].enabled
            /\ store[j].next # None
            /\ store[j].next <= now

NewJob(s) == [sched |-> s, enabled |-> TRUE, next |-> computeNextRun(s, now)]

Enabled(r, e) == [r EXCEPT !.enabled = e,
                           !.next = IF e THEN computeNextRun(r.sched, now) ELSE None]

----------------------------------------------------------------------------
Init ==
    /\ now = 0
    /\ up = FALSE
    /\ running = FALSE
    /\ store = NoJobs
    /\ disk = NoJobs
    /\ loop = NoLoop
    /\ pending = NoJobs
    /\ cli = None
    /\ born = [j \in Job |-> None]
    /\ runs = [j \in Job |-> 0]
    /\ crashes = 0

Tick ==
    /\ now < MaxTime
    /\ now' = now + 1
    /\ UNCHANGED <<up, running, store, disk, loop, pending, cli, born, runs, crashes>>

\* NewCronService in a fresh gateway process.
Boot ==
    /\ ~up
    /\ up' = TRUE
    /\ store' \in loadStore
    /\ UNCHANGED <<now, running, disk, loop, pending, cli, born, runs, crashes>>

\* Start, called once by a gateway process.  The second disjunct is a failed
\* load, the third a failed save: both return an error and start no loop.
Start ==
    /\ up /\ ~running /\ loop = NoLoop
    /\ \/ /\ store' = recomputeNextRuns(disk)
          /\ disk' = store'
          /\ running' = TRUE
          /\ loop' = [NoLoop EXCEPT !.pc = "idle"]
       \/ store' = NoJobs /\ UNCHANGED <<disk, running, loop>>
       \/ store' = recomputeNextRuns(disk) /\ UNCHANGED <<disk, running, loop>>
    /\ UNCHANGED <<now, up, pending, cli, born, runs, crashes>>

Stop ==
    /\ up /\ running
    /\ running' = FALSE
    /\ UNCHANGED <<now, up, store, disk, loop, pending, cli, born, runs, crashes>>

\* runLoop leaves its select through the closed stop channel.
LoopExit ==
    /\ up /\ ~running /\ loop.pc = "idle"
    /\ loop' = [loop EXCEPT !.pc = "exited"]
    /\ UNCHANGED <<now, up, running, store, disk, pending, cli, born, runs, crashes>>

\* Mutant: the next run of every job is reset, not only of the due ones.
checkJobsResetAll ==
    /\ up /\ running /\ loop.pc = "idle"
    /\ store' = [j \in Job |-> IF store[j] # None THEN [store[j] EXCEPT !.next = None]
                               ELSE None]
    /\ saveStoreUnsafe(store')
    /\ loop' = [loop EXCEPT !.pc = "exec", !.due = {j \in Job : IsDue(j)}]
    /\ UNCHANGED <<now, up, running, pending, cli, born, runs, crashes>>

\* The locked part of checkJobs: collect the due jobs and reset their next run.
checkJobs ==
    /\ up /\ running /\ loop.pc = "idle"
    /\ store' = [j \in Job |-> IF IsDue(j) THEN [store[j] EXCEPT !.next = None]
                               ELSE store[j]]
    /\ saveStoreUnsafe(store')
    /\ loop' = [loop EXCEPT !.pc = "exec", !.due = {j \in Job : IsDue(j)}]
    /\ UNCHANGED <<now, up, running, pending, cli, born, runs, crashes>>

\* checkJobs has executed every due job.
CheckDone ==
    /\ up /\ loop.pc = "exec" /\ loop.due = {}
    /\ loop' = [loop EXCEPT !.pc = "idle"]
    /\ UNCHANGED <<now, up, running, store, disk, pending, cli, born, runs, crashes>>

\* executeJobByID up to the handler call: a job that is gone is skipped.
ExecuteBegin(j) ==
    /\ up /\ loop.pc = "exec" /\ j \in loop.due
    /\ IF store[j] = None
       THEN /\ loop' = [loop EXCEPT !.due = @ \ {j}]
            /\ UNCHANGED runs
       ELSE /\ loop' = [loop EXCEPT !.pc = "handler", !.job = j, !.due = @ \ {j}]
            /\ runs' = [runs EXCEPT ![j] = @ + 1]
    /\ UNCHANGED <<now, up, running, store, disk, pending, cli, born, crashes>>

\* What executeJobByID makes of the job record once the handler has returned.
AfterRun(r) ==
    IF DeleteAfterRun(r) THEN None
    ELSE [r EXCEPT !.next = computeNextRun(r.sched, now)]

\* executeJobByID after the handler: the job is looked up again.
ExecuteEnd ==
    /\ up /\ loop.pc = "handler"
    /\ loop' = [loop EXCEPT !.pc = "exec", !.job = None]
    /\ IF store[loop.job] = None
       THEN UNCHANGED <<store, disk>>
       ELSE /\ store' = [store EXCEPT ![loop.job] = AfterRun(@)]
            /\ saveStoreUnsafe(store')
    /\ UNCHANGED <<now, up, running, pending, cli, born, runs, crashes>>

----------------------------------------------------------------------------
(* Clients inside the gateway process: the cron tool.                      *)

\* AddJob.  withCommand: the tool goes on to UpdateJob with its own copy,
\* unless AddJob reported the failed save.
AddJob(j, s, withCommand) ==
    /\ up /\ born[j] = None
    /\ born' = [born EXCEPT ![j] = s]
    /\ store' = [store EXCEPT ![j] = NewJob(s)]
    /\ \/ disk' = store' /\ pending' = IF withCommand
                                       THEN [pending EXCEPT ![j] = NewJob(s)]
                                       ELSE pending
       \/ UNCHANGED <<disk, pending>>
    /\ UNCHANGED <<now, up, running, loop, cli, runs, crashes>>

\* Mutant: UpdateJob inserts a job it does not find.
UpdateJobUpsert(j) ==
    /\ up /\ pending[j] # None
    /\ pending' = [pending EXCEPT ![j] = None]
    /\ store' = [store EXCEPT ![j] = pending[j]]
    /\ saveStoreUnsafe(store')
    /\ UNCHANGED <<now, up, running, loop, cli, born, runs, crashes>>

\* UpdateJob replaces the whole record by the copy AddJob returned.
UpdateJob(j) ==
    /\ up /\ pending[j] # None
    /\ pending' = [pending EXCEPT ![j] = None]
    /\ IF store[j] = None
       THEN UNCHANGED <<store, disk>>
       ELSE /\ store' = [store EXCEPT ![j] = pending[j]]
            /\ saveStoreUnsafe(store')
    /\ UNCHANGED <<now, up, running, loop, cli, born, runs, crashes>>

RemoveJob(j) ==
    /\ up /\ store[j] # None
    /\ store' = [store EXCEPT ![j] = None]
    /\ saveStoreUnsafe(store')
    /\ UNCHANGED <<now, up, running, loop, pending, cli, born, runs, crashes>>

EnableJob(j, e) ==
    /\ up /\ store[j] # None
    /\ store' = [store EXCEPT ![j] = Enabled(@, e)]
    /\ saveStoreUnsafe(store')
    /\ UNCHANGED <<now, up, running, loop, pending, cli, born, runs, crashes>>

----------------------------------------------------------------------------
(* The `operator cron` command: a process that loads the file, changes its *)
(* copy and writes the copy back.                                          *)

CliLoad ==
    /\ cli = None
    /\ cli' \in loadStore
    /\ UNCHANGED <<now, up, running, store, disk, loop, pending, born, runs, crashes>>

CliAdd(j, s) ==
    /\ cli # None /\ born[j] = None
    /\ born' = [born EXCEPT ![j] = s]
    /\ disk' \in {[cli EXCEPT ![j] = NewJob(s)], disk}
    /\ cli' = None
    /\ UNCHANGED <<now, up, running, store, loop, pending, runs, crashes>>

\* remove, enable or disable; the command ends either way.
CliEdit(j, r) ==
    /\ cli # None /\ cli[j] # None
    /\ disk' \in {[cli EXCEPT ![j] = r], disk}
    /\ cli' = None
    /\ UNCHANGED <<now, up, running, store, loop, pending, born, runs, crashes>>

CliQuit ==
    /\ cli # None
    /\ cli' = None
    /\ UNCHANGED <<now, up, running, store, disk, loop, pending, born, runs, crashes>>

----------------------------------------------------------------------------
\* The process dies, or exits after Stop: only the file is left.
Crash ==
    /\ up /\ crashes < MaxCrash
    /\ crashes' = crashes + 1
    /\ up' = FALSE
    /\ running' = FALSE
    /\ store' = NoJobs
    /\ loop' = NoLoop
    /\ pending' = NoJobs
    /\ UNCHANGED <<now, disk, cli, born, runs>>

LoopStep == checkJobs \/ CheckDone \/ \E j \in Job : ExecuteBegin(j)

Next ==
    \/ Tick \/ Boot \/ Start \/ Stop \/ LoopExit \/ Crash
    \/ checkJobs \/ CheckDone \/ ExecuteEnd
    \/ \E j \in Job :
          \/ ExecuteBegin(j)
          \/ UpdateJob(j)
          \/ RemoveJob(j)
          \/ \E e \in BOOLEAN : EnableJob(j, e)
          \/ \E s \in Schedule, c \in BOOLEAN : AddJob(j, s, c)
          \/ \E s \in Schedule : CliAdd(j, s)
          \/ CliEdit(j, None)
          \/ \E e \in BOOLEAN : cli # None /\ cli[j] # None /\ CliEdit(j, Enabled(cli[j], e))
    \/ CliLoad \/ CliQuit

Spec == Init /\ [][Next]_vars

\* Enabling a job that is enabled already.  EnableJob recomputes its next run, and
\* a one-time job that is overdue but not yet collected is then never run.
EnableAgain == \E j \in Job : store[j] # None /\ store[j].enabled /\ EnableJob(j, TRUE)

\* The clock and the loop goroutine keep going, and clients do not enable a job twice.
\* A handler need not return: it may run a turn of the agent, which has no deadline.
FairSpec == /\ Init /\ [][Next /\ ~EnableAgain]_vars
            /\ WF_vars(Tick) /\ WF_vars(LoopStep)

----------------------------------------------------------------------------
(* Properties                                                              *)

\* Every variable holds a value of the Go type it stands for.
TypeOK ==
    /\ now \in Time
    /\ up \in BOOLEAN /\ running \in BOOLEAN
    /\ store \in Jobs /\ disk \in Jobs /\ pending \in Jobs
    /\ cli \in Jobs \cup {None}
    /\ loop \in LoopType
    /\ loop.pc = "handler" => loop.job \in Job
    /\ born \in [Job -> ScheduleType \cup {None}]
    /\ runs \in [Job -> Nat]
    /\ crashes \in 0..MaxCrash

OneTime(j) == born[j] # None /\ born[j].kind = "at"

\* A one-time job is executed at most once, whatever fails: crashes between
\* any two steps, failed saves, stale files written by `operator cron`, or a
\* late UpdateJob of the tool's copy (checkJobs, executeJobByID, Start).
AtMostOnce == \A j \in Job : OneTime(j) => runs[j] <= 1

\* A handler is never invoked before the time its one-time job was set for.
NotEarly ==
    [][\A j \in Job : OneTime(j) /\ runs'[j] # runs[j] => now >= born[j].t]_vars

\* A job removed from the service comes back only by loading the file: neither
\* the end of a handler that was running meanwhile (executeJobByID) nor a late
\* UpdateJob puts it back.
RemovedStaysRemoved ==
    [][\A j \in Job : born[j] # None /\ store[j] = None /\ store'[j] # None
            => loop = NoLoop]_vars

Armed(j) == running /\ OneTime(j) /\ store[j] # None /\ store[j].enabled
                    /\ store[j].next # None

\* An armed one-time job of a running service is executed in the end, unless it is
\* removed or disabled or the service stops (runLoop, checkJobs), or a handler that
\* never returns holds up the loop, which runs one job after the other.
DueJobsRun ==
    []<>(loop.pc # "handler")
        => \A j \in Job : Armed(j) ~> \/ runs[j] > 0
                                      \/ ~running \/ store[j] = None
                                      \/ ~store[j].enabled

=============================================================================
