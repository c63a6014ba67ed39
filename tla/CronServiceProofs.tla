------------------------- MODULE CronServiceProofs -------------------------
(* Proofs about CronService, for every set of jobs and schedules and all   *)
(* bounds: type correctness, and that a one-time job runs at most once.    *)
EXTENDS CronService, TLAPS

\* The next run computed for a schedule is a time or nil.
LEMMA NextRunType ==
    ASSUME NEW s \in ScheduleType, NEW t \in Nat
    PROVE  computeNextRun(s, t) \in Nat \cup {None}
<1>1. CASE s.kind = "cron" /\ s.t # 0
  <2>1. s.t \in Nat /\ s.t > 0
    BY <1>1 DEF ScheduleType
  <2>2. t \div s.t \in Nat
    BY <2>1
  <2>3. NextTickAfter(s.t, t) \in Nat
    BY <2>1, <2>2 DEF NextTickAfter
  <2> QED BY <1>1, <2>3 DEF computeNextRun
<1>2. CASE ~(s.kind = "cron" /\ s.t # 0)
  BY <1>2 DEF computeNextRun, ScheduleType, Kinds
<1> QED BY <1>1, <1>2

\* Records made by AddJob, EnableJob and the end of a run are job records.
LEMMA RecordType ==
    ASSUME now \in Nat
    PROVE  /\ \A s \in ScheduleType : NewJob(s) \in JobRec
           /\ \A r \in JobRec, e \in BOOLEAN : Enabled(r, e) \in JobRec
           /\ \A r \in JobRec : AfterRun(r) \in JobRec \cup {None}
           /\ \A st \in Jobs : recomputeNextRuns(st) \in Jobs
<1>1. \A s \in ScheduleType : computeNextRun(s, now) \in Nat \cup {None}
  BY NextRunType
<1>2. \A s \in ScheduleType : NewJob(s) \in JobRec
  BY <1>1 DEF NewJob, JobRec
<1>3. \A r \in JobRec, e \in BOOLEAN : Enabled(r, e) \in JobRec
  BY <1>1 DEF Enabled, JobRec
<1>4. \A r \in JobRec : AfterRun(r) \in JobRec \cup {None}
  BY <1>1 DEF AfterRun, JobRec
<1>5. \A st \in Jobs : recomputeNextRuns(st) \in Jobs
  BY <1>1 DEF recomputeNextRuns, Jobs, JobRec
<1> QED BY <1>2, <1>3, <1>4, <1>5

\* The records and job lists the service starts from are well typed.
LEMMA EmptyTypes == NoLoop \in LoopType /\ NoLoop.pc # "handler" /\ NoJobs \in Jobs
BY DEF NoLoop, LoopType, NoJobs, Jobs

\* One step of the service, of a client or of the environment keeps the types.
LEMMA TypeStep == TypeOK /\ [Next]_vars => TypeOK'
<1> SUFFICES ASSUME TypeOK, [Next]_vars PROVE TypeOK'
  OBVIOUS
<1> USE ScheduleAssumption, BoundAssumption, EmptyTypes
<1>0. now \in Nat
  BY DEF TypeOK, Time
<1>1. CASE Tick
  BY <1>1 DEF Tick, TypeOK, Time
<1>2. CASE Boot
  BY <1>2 DEF Boot, loadStore, TypeOK
<1>3. CASE Start
  <2>1. recomputeNextRuns(disk) \in Jobs
    BY <1>0, RecordType DEF TypeOK
  <2>2. [NoLoop EXCEPT !.pc = "idle"] \in LoopType
    BY DEF LoopType
  <2>3. store' \in Jobs /\ disk' \in Jobs /\ loop' \in LoopType /\ running' \in BOOLEAN
    BY <1>3, <2>1, <2>2 DEF Start, TypeOK
  <2>4. loop'.pc # "handler"
    BY <1>3 DEF Start, NoLoop
  <2> QED BY <1>3, <2>3, <2>4 DEF Start, TypeOK
<1>4. CASE Stop
  BY <1>4 DEF Stop, TypeOK
<1>5. CASE LoopExit
  BY <1>5 DEF LoopExit, TypeOK, LoopType
<1>6. CASE Crash
  <2>1. crashes' \in 0..MaxCrash
    BY <1>6 DEF Crash, TypeOK
  <2> QED BY <1>6, <2>1 DEF Crash, TypeOK
<1>7. CASE checkJobs
  <2>1. store' \in Jobs
    BY <1>7 DEF checkJobs, TypeOK, Jobs, JobRec, IsDue
  <2>2. loop' \in LoopType /\ loop'.pc # "handler"
    BY <1>7 DEF checkJobs, TypeOK, LoopType
  <2> QED BY <1>7, <2>1, <2>2 DEF checkJobs, saveStoreUnsafe, TypeOK
<1>8. CASE CheckDone
  BY <1>8 DEF CheckDone, TypeOK, LoopType
<1>9. CASE ExecuteEnd
  <2>1. loop.job \in Job
    BY <1>9 DEF ExecuteEnd, TypeOK
  <2>2. loop' \in LoopType /\ loop'.pc # "handler"
    BY <1>9 DEF ExecuteEnd, TypeOK, LoopType
  <2>3. store' \in Jobs
    BY <1>0, <1>9, <2>1, RecordType DEF ExecuteEnd, TypeOK, Jobs
  <2>4. disk' \in Jobs
    BY <1>9, <2>3 DEF ExecuteEnd, saveStoreUnsafe, TypeOK
  <2> QED BY <1>9, <2>2, <2>3, <2>4 DEF ExecuteEnd, TypeOK
<1>10. ASSUME NEW j \in Job, ExecuteBegin(j) PROVE TypeOK'
  <2>1. loop' \in LoopType /\ (loop'.pc = "handler" => loop'.job \in Job)
    <3>1. CASE store[j] = None
      BY <1>10, <3>1 DEF ExecuteBegin, TypeOK, LoopType
    <3>2. CASE store[j] # None
      <4>1. loop' = [loop EXCEPT !.pc = "handler", !.job = j, !.due = @ \ {j}]
        BY <1>10, <3>2 DEF ExecuteBegin
      <4>2. loop \in LoopType /\ loop.due \ {j} \in SUBSET Job
        BY DEF TypeOK, LoopType
      <4>3. loop'.pc = "handler" /\ loop'.job = j
        BY <4>1, <4>2 DEF LoopType
      <4>4. loop' \in LoopType
        BY <4>1, <4>2 DEF LoopType
      <4> QED BY <4>3, <4>4
    <3> QED BY <3>1, <3>2
  <2>2. runs' \in [Job -> Nat]
    BY <1>10 DEF ExecuteBegin, TypeOK
  <2> QED BY <1>10, <2>1, <2>2 DEF ExecuteBegin, TypeOK
<1>11. ASSUME NEW j \in Job, UpdateJob(j) PROVE TypeOK'
  <2>1. store' \in Jobs /\ pending' \in Jobs
    BY <1>11 DEF UpdateJob, TypeOK, Jobs
  <2> QED BY <1>11, <2>1 DEF UpdateJob, saveStoreUnsafe, TypeOK
<1>12. ASSUME NEW j \in Job, RemoveJob(j) PROVE TypeOK'
  <2>1. store' \in Jobs
    BY <1>12 DEF RemoveJob, TypeOK, Jobs
  <2> QED BY <1>12, <2>1 DEF RemoveJob, saveStoreUnsafe, TypeOK
<1>13. ASSUME NEW j \in Job, NEW e \in BOOLEAN, EnableJob(j, e) PROVE TypeOK'
  <2>1. store' \in Jobs
    BY <1>0, <1>13, RecordType DEF EnableJob, TypeOK, Jobs
  <2> QED BY <1>13, <2>1 DEF EnableJob, saveStoreUnsafe, TypeOK
<1>14. ASSUME NEW j \in Job, NEW s \in Schedule, NEW c \in BOOLEAN, AddJob(j, s, c)
       PROVE  TypeOK'
  <2>1. s \in ScheduleType /\ NewJob(s) \in JobRec
    BY <1>0, RecordType
  <2>2. store' \in Jobs /\ pending' \in Jobs
    BY <1>14, <2>1 DEF AddJob, TypeOK, Jobs
  <2>3. born' \in [Job -> ScheduleType \cup {None}]
    BY <1>14, <2>1 DEF AddJob, TypeOK
  <2> QED BY <1>14, <2>2, <2>3 DEF AddJob, TypeOK
<1>15. ASSUME NEW j \in Job, NEW s \in Schedule, CliAdd(j, s) PROVE TypeOK'
  <2>1. s \in ScheduleType /\ NewJob(s) \in JobRec
    BY <1>0, RecordType
  <2>2. cli \in Jobs
    BY <1>15 DEF CliAdd, TypeOK
  <2>3. disk' \in Jobs
    BY <1>15, <2>1, <2>2 DEF CliAdd, TypeOK, Jobs
  <2>4. born' \in [Job -> ScheduleType \cup {None}]
    BY <1>15, <2>1 DEF CliAdd, TypeOK
  <2> QED BY <1>15, <2>3, <2>4 DEF CliAdd, TypeOK
<1>16. ASSUME NEW j \in Job, NEW r \in JobRec \cup {None}, CliEdit(j, r) PROVE TypeOK'
  <2>1. cli \in Jobs
    BY <1>16 DEF CliEdit, TypeOK
  <2>2. disk' \in Jobs
    BY <1>16, <2>1 DEF CliEdit, TypeOK, Jobs
  <2> QED BY <1>16, <2>2 DEF CliEdit, TypeOK
<1>17. ASSUME NEW j \in Job, NEW e \in BOOLEAN, cli # None, cli[j] # None
       PROVE  Enabled(cli[j], e) \in JobRec
  BY <1>0, <1>17, RecordType DEF TypeOK, Jobs
<1>18. CASE CliLoad
  BY <1>18 DEF CliLoad, loadStore, TypeOK
<1>19. CASE CliQuit
  BY <1>19 DEF CliQuit, TypeOK
<1>20. CASE UNCHANGED vars
  BY <1>20 DEF vars, TypeOK
<1> QED
  BY <1>1, <1>2, <1>3, <1>4, <1>5, <1>6, <1>7, <1>8, <1>9, <1>10, <1>11, <1>12,
     <1>13, <1>14, <1>15, <1>16, <1>17, <1>18, <1>19, <1>20 DEF Next

\* The initial state is well typed.
LEMMA InitType == Init => TypeOK
<1> SUFFICES ASSUME Init PROVE TypeOK
  OBVIOUS
<1>1. now \in Time /\ crashes \in 0..MaxCrash
  BY BoundAssumption DEF Init, Time
<1>2. born \in [Job -> ScheduleType \cup {None}] /\ runs \in [Job -> Nat]
  BY DEF Init
<1> QED BY <1>1, <1>2, EmptyTypes, Zenon DEF Init, TypeOK

\* Type correctness of the cron service.
THEOREM TypeCorrect == Spec => []TypeOK
BY InitType, TypeStep, PTL DEF Spec

----------------------------------------------------------------------------
(* One-time jobs.                                                          *)

\* A copy r of the record of a job created with schedule b, wherever it is kept:
\* its schedule is still b, and a one-time job's next run is its time or nil.
GoodCopy(b, r) ==
    r # None => /\ b # None
                /\ r.sched = b
                /\ r.sched.kind = "at" /\ r.next # None => r.enabled /\ r.next = r.sched.t

GoodJobs(b, st) == \A j \in Job : GoodCopy(b[j], st[j])

Copies == /\ GoodJobs(born, store) /\ GoodJobs(born, disk) /\ GoodJobs(born, pending)
          /\ cli # None => GoodJobs(born, cli)

\* What is collected, being executed or counted is a job that exists, and a
\* process that is down holds nothing.
Known ==
    /\ \A j \in Job : born[j] = None => runs[j] = 0
    /\ \A j \in loop.due : born[j] # None
    /\ loop.pc \in {"none", "idle", "exited"} => loop.due = {}
    /\ up = FALSE => loop = NoLoop /\ pending = NoJobs

\* Once its handler has been invoked, a one-time job's time has passed, and the
\* job is being executed, or gone, or without a next run that could come back.
Spent(j) ==
    /\ born[j].t <= now
    /\ \/ loop.pc = "handler" /\ loop.job = j
       \/ loop.pc # "none" /\ store[j] = None
       \/ pending[j] = None /\ (loop.pc = "none" \/ (store[j] # None => store[j].next = None))

OneTimeJobs ==
    \A j \in Job : OneTime(j) =>
        /\ runs[j] <= 1
        /\ runs[j] = 1 => Spent(j)
        /\ j \in loop.due => runs[j] = 0 /\ born[j].t <= now

IInv == TypeOK /\ Copies /\ Known /\ OneTimeJobs


\* What the record operators do to the fields the invariant reads.
LEMMA RecordFacts ==
    ASSUME TypeOK
    PROVE  /\ \A s \in ScheduleType :
                 /\ NewJob(s) # None /\ NewJob(s).sched = s /\ NewJob(s).enabled = TRUE
                 /\ s.kind = "at" => NewJob(s).next \in {s.t, None}
           /\ \A r \in JobRec, e \in BOOLEAN :
                 /\ Enabled(r, e) # None /\ Enabled(r, e).sched = r.sched
                 /\ Enabled(r, e).enabled = e
                 /\ Enabled(r, FALSE).next = None
                 /\ r.sched.kind = "at" => Enabled(r, e).next \in {r.sched.t, None}
                 /\ r.sched.kind = "at" /\ r.sched.t <= now => Enabled(r, e).next = None
           /\ \A r \in JobRec :
                 /\ r.sched.kind = "at" => AfterRun(r) = None
                 /\ AfterRun(r) # None => AfterRun(r).sched = r.sched
<1>0. now \in Nat /\ None \notin JobRec
  BY NoneAssumption DEF TypeOK, Time, JobRec
<1>1. \A s \in ScheduleType :
         /\ NewJob(s) # None /\ NewJob(s).sched = s /\ NewJob(s).enabled = TRUE
         /\ s.kind = "at" => NewJob(s).next \in {s.t, None}
  <2>1. \A s \in ScheduleType : NewJob(s) # None
    BY <1>0, RecordType
  <2>2. \A s \in ScheduleType : s.kind = "at" => computeNextRun(s, now) \in {s.t, None}
    BY <1>0 DEF computeNextRun, ScheduleType
  <2> QED BY <2>1, <2>2 DEF NewJob
<1>2. ASSUME NEW r \in JobRec, NEW e \in BOOLEAN
      PROVE  /\ Enabled(r, e) # None /\ Enabled(r, e).sched = r.sched
             /\ Enabled(r, e).enabled = e
             /\ Enabled(r, FALSE).next = None
             /\ r.sched.kind = "at" => Enabled(r, e).next \in {r.sched.t, None}
             /\ r.sched.kind = "at" /\ r.sched.t <= now => Enabled(r, e).next = None
  <2>1. Enabled(r, e) # None
    BY <1>0, RecordType
  <2>2. /\ r.sched.kind = "at" => computeNextRun(r.sched, now) \in {r.sched.t, None}
        /\ r.sched.kind = "at" /\ r.sched.t <= now => computeNextRun(r.sched, now) = None
    BY <1>0 DEF computeNextRun, ScheduleType, JobRec
  <2>3. Enabled(r, e).sched = r.sched /\ Enabled(r, e).enabled = e
    BY DEF Enabled, JobRec
  <2>4. Enabled(r, e).next = IF e THEN computeNextRun(r.sched, now) ELSE None
    BY DEF Enabled, JobRec
  <2>5. Enabled(r, FALSE).next = None
    BY DEF Enabled, JobRec
  <2> QED BY <2>1, <2>2, <2>3, <2>4, <2>5
<1>3. ASSUME NEW r \in JobRec
      PROVE  /\ r.sched.kind = "at" => AfterRun(r) = None
             /\ AfterRun(r) # None => AfterRun(r).sched = r.sched
  BY DEF AfterRun, DeleteAfterRun, JobRec
<1> QED BY <1>1, <1>2, <1>3

\* Start's recomputation keeps good copies good, and leaves a one-time job whose
\* time has passed without a next run.
LEMMA RecomputeFacts ==
    ASSUME TypeOK, NEW st \in Jobs, NEW j \in Job, GoodCopy(born[j], st[j])
    PROVE  /\ GoodCopy(born[j], recomputeNextRuns(st)[j])
           /\ OneTime(j) /\ born[j].t <= now /\ recomputeNextRuns(st)[j] # None
                => recomputeNextRuns(st)[j].next = None
<1>0. now \in Nat
  BY DEF TypeOK, Time
<1>1. recomputeNextRuns(st)[j] = IF st[j] # None /\ st[j].enabled
                                 THEN [st[j] EXCEPT !.next = computeNextRun(st[j].sched, now)]
                                 ELSE st[j]
  BY DEF recomputeNextRuns
<1>2. CASE st[j] # None /\ st[j].enabled
  <2>1. st[j] \in JobRec
    BY <1>2 DEF Jobs
  <2>2. /\ st[j].sched.kind = "at" => computeNextRun(st[j].sched, now) \in {st[j].sched.t, None}
        /\ st[j].sched.kind = "at" /\ st[j].sched.t <= now
              => computeNextRun(st[j].sched, now) = None
    BY <1>0, <2>1 DEF computeNextRun, ScheduleType, JobRec
  <2>3. /\ recomputeNextRuns(st)[j].sched = st[j].sched
        /\ recomputeNextRuns(st)[j].enabled = st[j].enabled
        /\ recomputeNextRuns(st)[j].next = computeNextRun(st[j].sched, now)
    BY <1>1, <1>2, <2>1 DEF JobRec
  <2> QED BY <1>2, <2>2, <2>3 DEF GoodCopy, OneTime
<1>3. CASE ~(st[j] # None /\ st[j].enabled)
  BY <1>1, <1>3 DEF GoodCopy, OneTime
<1> QED BY <1>2, <1>3

\* Replacing one copy by a good one keeps a job list good; creating the job of
\* the replaced copy, which had none, does too.
LEMMA GoodExcept ==
    ASSUME NEW b \in [Job -> ScheduleType \cup {None}], NEW st \in Jobs,
           NEW j \in Job, NEW s \in ScheduleType \cup {None}, NEW r,
           GoodJobs(b, st), b[j] \in {None, s}
    PROVE  /\ GoodJobs([b EXCEPT ![j] = s], st)
           /\ GoodCopy(s, r) => GoodJobs([b EXCEPT ![j] = s], [st EXCEPT ![j] = r])
BY DEF GoodJobs, GoodCopy, Jobs

\* Every step keeps every copy good.
LEMMA CopiesStep == TypeOK /\ Copies /\ [Next]_vars => Copies'
<1> SUFFICES ASSUME TypeOK, Copies, [Next]_vars PROVE Copies'
  OBVIOUS
<1> USE ScheduleAssumption, NoneAssumption
<1>0. /\ \A b : GoodCopy(b, None) /\ GoodJobs(b, NoJobs)
      /\ born \in [Job -> ScheduleType \cup {None}]
      /\ store \in Jobs /\ disk \in Jobs /\ pending \in Jobs /\ cli \in Jobs \cup {None}
  BY DEF GoodCopy, GoodJobs, NoJobs, TypeOK
<1>1. ASSUME NEW st \in Jobs, NEW j \in Job, NEW r, GoodJobs(born, st), GoodCopy(born[j], r)
      PROVE  GoodJobs(born, [st EXCEPT ![j] = r])
  BY <1>0, <1>1 DEF GoodJobs, Jobs
<1>2. CASE Boot
  BY <1>0, <1>2 DEF Boot, loadStore, Copies
<1>3. CASE Start
  <2>1. GoodJobs(born, recomputeNextRuns(disk))
    BY <1>0, RecomputeFacts DEF GoodJobs, Copies
  <2> QED BY <1>0, <1>3, <2>1 DEF Start, Copies
<1>4. CASE checkJobs
  <2>1. GoodJobs(born, store')
    <3> SUFFICES ASSUME NEW j \in Job PROVE GoodCopy(born[j], store'[j])
      BY DEF GoodJobs
    <3>1. GoodCopy(born[j], store[j])
      BY DEF Copies, GoodJobs
    <3>2. CASE IsDue(j)
      <4>1. store'[j] = [store[j] EXCEPT !.next = None] /\ store[j] # None
        BY <1>4, <3>2 DEF checkJobs, IsDue
      <4>2. store[j] \in JobRec
        BY <1>0, <4>1 DEF Jobs
      <4>3. store'[j].sched = store[j].sched /\ store'[j].next = None
        BY <4>1, <4>2 DEF JobRec
      <4> QED BY <3>1, <4>1, <4>3 DEF GoodCopy
    <3>3. CASE ~IsDue(j)
      BY <1>4, <3>1, <3>3 DEF checkJobs
    <3> QED BY <3>2, <3>3
  <2> QED BY <1>0, <1>4, <2>1 DEF checkJobs, saveStoreUnsafe, Copies
<1>5. CASE ExecuteEnd
  <2>1. CASE store[loop.job] # None
    <3>1. loop.job \in Job /\ store[loop.job] \in JobRec
      BY <1>0, <1>5, <2>1 DEF ExecuteEnd, TypeOK, Jobs
    <3>2. GoodCopy(born[loop.job], store[loop.job])
      BY <3>1 DEF Copies, GoodJobs
    <3>3. GoodCopy(born[loop.job], AfterRun(store[loop.job]))
      BY <2>1, <3>1, <3>2, RecordFacts DEF GoodCopy
    <3>4. GoodJobs(born, store')
      BY <1>0, <1>1, <1>5, <2>1, <3>1, <3>3 DEF ExecuteEnd, Copies
    <3> QED BY <1>5, <2>1, <3>4 DEF ExecuteEnd, saveStoreUnsafe, Copies
  <2>2. CASE store[loop.job] = None
    BY <1>5, <2>2 DEF ExecuteEnd, Copies
  <2> QED BY <2>1, <2>2
<1>6. ASSUME NEW j \in Job, UpdateJob(j) PROVE Copies'
  <2>1. GoodCopy(born[j], pending[j])
    BY DEF Copies, GoodJobs
  <2>2. GoodJobs(born, [pending EXCEPT ![j] = None]) /\ GoodJobs(born, [store EXCEPT ![j] = pending[j]])
    BY <1>0, <1>1, <2>1 DEF Copies
  <2> QED BY <1>6, <2>2 DEF UpdateJob, saveStoreUnsafe, Copies
<1>7. ASSUME NEW j \in Job, RemoveJob(j) PROVE Copies'
  <2>1. GoodJobs(born, [store EXCEPT ![j] = None])
    BY <1>0, <1>1 DEF Copies
  <2> QED BY <1>7, <2>1 DEF RemoveJob, saveStoreUnsafe, Copies
<1>8. ASSUME NEW j \in Job, NEW e \in BOOLEAN, NEW r \in JobRec, GoodCopy(born[j], r)
      PROVE  GoodCopy(born[j], Enabled(r, e))
  <2>1. /\ Enabled(r, e).sched = r.sched /\ Enabled(r, e).enabled = e
        /\ Enabled(r, FALSE).next = None
        /\ r.sched.kind = "at" => Enabled(r, e).next \in {r.sched.t, None}
    BY RecordFacts
  <2>2. r # None
    BY DEF JobRec
  <2>3. CASE e = TRUE
    BY <1>8, <2>1, <2>2, <2>3 DEF GoodCopy
  <2>4. CASE e = FALSE
    BY <1>8, <2>1, <2>2, <2>4 DEF GoodCopy
  <2> QED BY <2>3, <2>4
<1>9. ASSUME NEW j \in Job, NEW e \in BOOLEAN, EnableJob(j, e) PROVE Copies'
  <2>1. store[j] \in JobRec /\ GoodCopy(born[j], store[j])
    BY <1>0, <1>9 DEF EnableJob, Jobs, Copies, GoodJobs
  <2>2. GoodJobs(born, [store EXCEPT ![j] = Enabled(store[j], e)])
    BY <1>0, <1>1, <1>8, <2>1 DEF Copies
  <2> QED BY <1>9, <2>2 DEF EnableJob, saveStoreUnsafe, Copies
<1>10. ASSUME NEW j \in Job, NEW s \in Schedule, born[j] = None,
              born' = [born EXCEPT ![j] = s]
       PROVE  /\ GoodCopy(s, NewJob(s))
              /\ \A st \in Jobs : GoodJobs(born, st) =>
                    /\ GoodJobs(born', st)
                    /\ GoodJobs(born', [st EXCEPT ![j] = NewJob(s)])
  <2>1. GoodCopy(s, NewJob(s))
    BY RecordFacts DEF GoodCopy
  <2> QED BY <1>0, <1>10, <2>1, GoodExcept
<1>11. ASSUME NEW j \in Job, NEW s \in Schedule, NEW c \in BOOLEAN, AddJob(j, s, c)
       PROVE  Copies'
  <2>1. /\ GoodJobs(born', store') /\ GoodJobs(born', disk)
        /\ GoodJobs(born', pending) /\ GoodJobs(born', [pending EXCEPT ![j] = NewJob(s)])
        /\ cli # None => GoodJobs(born', cli)
    BY <1>0, <1>10, <1>11 DEF AddJob, Copies
  <2> QED BY <1>11, <2>1 DEF AddJob, Copies
<1>12. ASSUME NEW j \in Job, NEW s \in Schedule, CliAdd(j, s) PROVE Copies'
  <2>1. /\ GoodJobs(born', store) /\ GoodJobs(born', disk) /\ GoodJobs(born', pending)
        /\ GoodJobs(born', [cli EXCEPT ![j] = NewJob(s)])
    BY <1>0, <1>10, <1>12 DEF CliAdd, Copies
  <2> QED BY <1>12, <2>1 DEF CliAdd, Copies
<1>13. ASSUME NEW j \in Job, NEW r, CliEdit(j, r), GoodCopy(born[j], r) PROVE Copies'
  <2>1. GoodJobs(born, [cli EXCEPT ![j] = r])
    BY <1>0, <1>1, <1>13 DEF CliEdit, Copies
  <2> QED BY <1>13, <2>1 DEF CliEdit, Copies
<1>14. ASSUME NEW j \in Job, NEW e \in BOOLEAN, cli # None, cli[j] # None
       PROVE  GoodCopy(born[j], Enabled(cli[j], e))
  <2>1. cli[j] \in JobRec /\ GoodCopy(born[j], cli[j])
    BY <1>0, <1>14 DEF Jobs, Copies, GoodJobs
  <2> QED BY <1>8, <2>1
<1>15. CASE CliLoad
  BY <1>0, <1>15 DEF CliLoad, loadStore, Copies
<1>16. CASE Crash
  BY <1>0, <1>16 DEF Crash, Copies
<1>17. ASSUME UNCHANGED <<store, disk, pending, cli, born>> PROVE Copies'
  BY <1>17 DEF Copies
<1>18. CASE CliQuit
  BY <1>18 DEF CliQuit, Copies
<1>19. CASE Tick \/ Stop \/ LoopExit \/ CheckDone \/ UNCHANGED vars
  BY <1>17, <1>19 DEF Tick, Stop, LoopExit, CheckDone, vars
<1>20. ASSUME NEW j \in Job, ExecuteBegin(j) PROVE Copies'
  BY <1>17, <1>20 DEF ExecuteBegin
<1> QED
  BY <1>0, <1>2, <1>3, <1>4, <1>5, <1>6, <1>7, <1>9, <1>11, <1>12, <1>13, <1>14,
     <1>15, <1>16, <1>18, <1>19, <1>20 DEF Next

\* Every step keeps the bookkeeping about unborn jobs and the idle loop.
LEMMA KnownStep == TypeOK /\ Copies /\ Known /\ [Next]_vars => Known'
<1> SUFFICES ASSUME TypeOK, Copies, Known, [Next]_vars PROVE Known'
  OBVIOUS
<1> USE NoneAssumption
<1>1. CASE checkJobs
  <2>1. \A j \in Job : IsDue(j) => born[j] # None
    BY DEF IsDue, Copies, GoodJobs, GoodCopy
  <2>2. loop'.due = {j \in Job : IsDue(j)} /\ loop'.pc = "exec"
    BY <1>1 DEF checkJobs, TypeOK, LoopType
  <2> QED BY <1>1, <2>1, <2>2 DEF checkJobs, Known
<1>2. ASSUME NEW j \in Job, ExecuteBegin(j) PROVE Known'
  <2>1. loop'.due = loop.due \ {j} /\ loop'.pc \in {"exec", "handler"}
    BY <1>2 DEF ExecuteBegin, TypeOK, LoopType
  <2>2. born[j] # None
    BY <1>2 DEF ExecuteBegin, Known
  <2>3. \A k \in Job : k # j => runs'[k] = runs[k]
    BY <1>2 DEF ExecuteBegin, TypeOK
  <2> QED BY <1>2, <2>1, <2>2, <2>3 DEF ExecuteBegin, Known
<1>3. CASE ExecuteEnd
  <2>1. loop'.due = loop.due /\ loop'.pc = "exec"
    BY <1>3 DEF ExecuteEnd, TypeOK, LoopType
  <2> QED BY <1>3, <2>1 DEF ExecuteEnd, Known
<1>4. CASE CheckDone
  <2>1. loop'.due = {} /\ loop'.pc = "idle"
    BY <1>4 DEF CheckDone, TypeOK, LoopType
  <2> QED BY <1>4, <2>1 DEF CheckDone, Known
<1>5. CASE LoopExit
  <2>1. loop'.due = loop.due /\ loop'.pc = "exited" /\ loop.pc = "idle"
    BY <1>5 DEF LoopExit, TypeOK, LoopType
  <2> QED BY <1>5, <2>1 DEF LoopExit, Known
<1>6. CASE Start
  <2>1. loop'.due = {} /\ loop'.pc \in {"idle", "none"} /\ up' = TRUE
    BY <1>6 DEF Start, NoLoop, TypeOK
  <2> QED BY <1>6, <2>1 DEF Start, Known
<1>7. CASE Crash
  <2>1. loop'.due = {} /\ loop' = NoLoop /\ pending' = NoJobs
    BY <1>7 DEF Crash, NoLoop
  <2> QED BY <1>7, <2>1 DEF Crash, Known
<1>8. ASSUME NEW j \in Job, NEW s \in Schedule, born[j] = None,
             born' = [born EXCEPT ![j] = s], UNCHANGED <<loop, runs, up>>,
             pending' = pending \/ up = TRUE
      PROVE  Known'
  <2>1. \A k \in Job : born'[k] = None => born[k] = None
    BY <1>8, ScheduleAssumption DEF TypeOK
  <2>2. \A k \in Job : born[k] # None => born'[k] # None
    BY <1>8, ScheduleAssumption DEF TypeOK
  <2>3. loop.due \subseteq Job
    BY DEF TypeOK, LoopType
  <2> QED BY <1>8, <2>1, <2>2, <2>3 DEF Known
<1>9. ASSUME NEW j \in Job, NEW s \in Schedule, NEW c \in BOOLEAN, AddJob(j, s, c)
      PROVE  Known'
  BY <1>8, <1>9 DEF AddJob, TypeOK
<1>10. ASSUME NEW j \in Job, NEW s \in Schedule, CliAdd(j, s) PROVE Known'
  BY <1>8, <1>10 DEF CliAdd
<1>11. ASSUME UNCHANGED <<loop, runs, born>>, up' = TRUE \/ UNCHANGED <<up, pending>>
       PROVE  Known'
  BY <1>11 DEF Known
<1>12. CASE Tick \/ Boot \/ Stop \/ CliLoad \/ CliQuit \/ UNCHANGED vars
  BY <1>11, <1>12 DEF Tick, Boot, Stop, CliLoad, CliQuit, vars
<1>13. ASSUME NEW j \in Job, UpdateJob(j) PROVE Known'
  BY <1>11, <1>13 DEF UpdateJob, TypeOK
<1>14. ASSUME NEW j \in Job, RemoveJob(j) PROVE Known'
  BY <1>11, <1>14 DEF RemoveJob
<1>15. ASSUME NEW j \in Job, NEW e \in BOOLEAN, EnableJob(j, e) PROVE Known'
  BY <1>11, <1>15 DEF EnableJob
<1>16. ASSUME NEW j \in Job, NEW r, CliEdit(j, r) PROVE Known'
  BY <1>11, <1>16 DEF CliEdit
<1> QED
  BY <1>1, <1>2, <1>3, <1>4, <1>5, <1>6, <1>7, <1>9, <1>10, <1>12, <1>13, <1>14,
     <1>15, <1>16 DEF Next

\* Every step keeps what is known of one-time jobs: the heart of the argument.
LEMMA OneTimeStep == IInv /\ [Next]_vars => OneTimeJobs'
<1> SUFFICES ASSUME IInv, [Next]_vars, NEW k \in Job, OneTime(k)'
             PROVE  /\ runs'[k] <= 1
                    /\ runs'[k] = 1 => Spent(k)'
                    /\ k \in loop'.due => runs'[k] = 0 /\ born'[k].t <= now'
  BY DEF OneTimeJobs
<1> USE NoneAssumption
<1>0. /\ TypeOK /\ Copies /\ Known /\ OneTimeJobs
      /\ now \in Nat /\ runs[k] \in Nat /\ loop \in LoopType /\ store \in Jobs
      /\ loop.due \subseteq Job
  BY DEF IInv, TypeOK, Time, LoopType
<1> DEFINE Goal == /\ runs'[k] <= 1
                   /\ runs'[k] = 1 => Spent(k)'
                   /\ k \in loop'.due => runs'[k] = 0 /\ born'[k].t <= now'
\* A job created by this step has not run and is not due.
<1>1. ASSUME born[k] = None, UNCHANGED <<loop, runs>> PROVE Goal
  BY <1>0, <1>1 DEF Known
<1>2. ASSUME NEW j \in Job, NEW s \in Schedule, born[j] = None,
             born' = [born EXCEPT ![j] = s], born[k] # None
      PROVE  born'[k] = born[k] /\ k # j
  BY <1>0, <1>2 DEF TypeOK
\* The induction hypothesis for a job that existed before the step.
<1>3. ASSUME UNCHANGED born
      PROVE  /\ OneTime(k) /\ runs[k] <= 1 /\ (runs[k] = 1 => Spent(k))
             /\ k \in loop.due => runs[k] = 0 /\ born[k].t <= now
             /\ born[k].t \in Nat
  BY <1>0, <1>3 DEF OneTime, OneTimeJobs, TypeOK, ScheduleType
<1>4. ASSUME UNCHANGED <<loop, runs, born, now>>,
             runs[k] = 1 => \/ store'[k] = store[k]
                            \/ store'[k] = None /\ loop.pc # "none"
                            \/ pending[k] = None /\ store'[k].next = None
                            \/ loop.pc = "none"
                            \/ loop.pc = "handler" /\ loop.job = k,
             pending'[k] \in {pending[k], None}
      PROVE  Goal
  BY <1>0, <1>3, <1>4 DEF Spent
<1>5. CASE Tick
  <2>1. UNCHANGED <<loop, runs, born, store, pending>> /\ now' = now + 1
    BY <1>5 DEF Tick
  <2> QED BY <1>0, <1>3, <2>1 DEF Spent
<1>6. CASE Boot
  <2>1. loop = NoLoop /\ loop.pc = "none"
    BY <1>0, <1>6 DEF Boot, Known, NoLoop
  <2> QED BY <1>4, <1>6, <2>1 DEF Boot
<1>7. CASE Start
  <2>1. loop.pc = "none" /\ loop.due = {} /\ loop'.due = {}
    BY <1>7 DEF Start, NoLoop
  <2>2. runs[k] = 1 => pending[k] = None /\ born[k].t <= now
    BY <1>3, <1>7, <2>1 DEF Start, Spent
  <2>3. runs[k] = 1 /\ store'[k] # None => store'[k].next = None \/ loop'.pc = "none"
    <3>1. CASE store' = NoJobs
      BY <3>1 DEF NoJobs
    <3>2. CASE store' = recomputeNextRuns(disk)
      <4>1. GoodCopy(born[k], disk[k]) /\ disk \in Jobs
        BY <1>0 DEF Copies, GoodJobs, TypeOK
      <4> QED BY <1>0, <1>3, <1>7, <2>2, <3>2, <4>1, RecomputeFacts DEF Start
    <3> QED BY <1>7, <3>1, <3>2 DEF Start
  <2> QED BY <1>3, <1>7, <2>1, <2>2, <2>3 DEF Start, Spent
<1>8. CASE Stop
  BY <1>4, <1>8 DEF Stop
<1>9. CASE LoopExit
  <2>1. loop'.due = loop.due /\ loop'.pc # "none" /\ loop.pc = "idle"
    BY <1>0, <1>9 DEF LoopExit, LoopType
  <2> QED BY <1>3, <1>9, <2>1 DEF LoopExit, Spent
<1>10. CASE Crash
  <2>1. loop'.pc = "none" /\ loop'.due = {} /\ pending'[k] = None
    BY <1>10 DEF Crash, NoLoop, NoJobs
  <2> QED BY <1>3, <1>10, <2>1 DEF Crash, Spent
<1>11. CASE checkJobs
  <2>1. loop.pc = "idle" /\ loop'.pc = "exec" /\ loop'.due = {j \in Job : IsDue(j)}
    BY <1>0, <1>11 DEF checkJobs, LoopType
  <2>2. IsDue(k) => store[k].next = born[k].t /\ born[k].t <= now
    BY <1>0, <1>3, <1>11 DEF checkJobs, IsDue, Copies, GoodJobs, GoodCopy, OneTime
  <2>3. IsDue(k) => runs[k] = 0
    BY <1>0, <1>3, <1>11, <2>1 DEF checkJobs, IsDue, Spent
  <2>4. store[k] = None => store'[k] = None
    BY <1>11 DEF checkJobs, IsDue
  <2>5. runs[k] = 1 => store'[k] = store[k]
    BY <1>11, <2>3 DEF checkJobs
  <2> QED BY <1>3, <1>11, <2>1, <2>2, <2>3, <2>5 DEF checkJobs, Spent
<1>12. CASE CheckDone
  <2>1. loop'.due = loop.due /\ loop'.pc = "idle" /\ loop.pc = "exec"
    BY <1>0, <1>12 DEF CheckDone, LoopType
  <2> QED BY <1>3, <1>12, <2>1 DEF CheckDone, Spent
<1>13. ASSUME NEW j \in Job, ExecuteBegin(j) PROVE Goal
  <2>1. loop.pc = "exec" /\ loop'.due = loop.due \ {j} /\ j \in loop.due
    BY <1>0, <1>13 DEF ExecuteBegin, LoopType
  <2>2. CASE k = j /\ store[j] # None
    <3>1. runs'[k] = runs[k] + 1 /\ loop'.pc = "handler" /\ loop'.job = k
      BY <1>0, <1>13, <2>2 DEF ExecuteBegin, LoopType, TypeOK
    <3> QED BY <1>0, <1>3, <1>13, <2>1, <2>2, <3>1 DEF ExecuteBegin, Spent
  <2>3. CASE k # j \/ store[j] = None
    <3>1. runs'[k] = runs[k] /\ loop'.pc \in {"exec", "handler"}
      BY <1>0, <1>13, <2>3 DEF ExecuteBegin, LoopType, TypeOK
    <3> QED BY <1>0, <1>3, <1>13, <2>1, <3>1 DEF ExecuteBegin, Spent
  <2> QED BY <2>2, <2>3
<1>14. CASE ExecuteEnd
  <2>1. loop.pc = "handler" /\ loop.job \in Job /\ loop'.due = loop.due /\ loop'.pc = "exec"
    BY <1>0, <1>14 DEF ExecuteEnd, LoopType, TypeOK
  <2>2. CASE k = loop.job
    <3>1. store[k] # None => store[k] \in JobRec /\ store[k].sched.kind = "at"
      BY <1>0, <1>3, <1>14 DEF ExecuteEnd, Jobs, Copies, GoodJobs, GoodCopy, OneTime
    <3>2. store'[k] = None
      BY <1>0, <1>14, <2>1, <2>2, <3>1, RecordFacts DEF ExecuteEnd, Jobs
    <3> QED BY <1>3, <1>14, <2>1, <3>2 DEF ExecuteEnd, Spent
  <2>3. CASE k # loop.job
    <3>1. store'[k] = store[k]
      BY <1>0, <1>14, <2>1, <2>3 DEF ExecuteEnd, Jobs
    <3> QED BY <1>3, <1>14, <2>1, <2>3, <3>1 DEF ExecuteEnd, Spent
  <2> QED BY <2>2, <2>3
<1>15. ASSUME NEW j \in Job, UpdateJob(j) PROVE Goal
  <2>1. pending'[k] \in {pending[k], None}
    BY <1>0, <1>15 DEF UpdateJob, TypeOK, Jobs
  <2>2. CASE k = j /\ runs[k] = 1
    <3>1. \/ loop.pc = "handler" /\ loop.job = k
          \/ loop.pc # "none" /\ store[k] = None
      BY <1>3, <1>15, <2>2 DEF UpdateJob, Spent
    <3>2. store[k] = None => store'[k] = None
      BY <1>15, <2>2 DEF UpdateJob
    <3> QED BY <1>4, <1>15, <2>1, <3>1, <3>2 DEF UpdateJob
  <2>3. CASE k # j \/ runs[k] # 1
    <3>1. runs[k] = 1 => store'[k] = store[k]
      BY <1>0, <1>15, <2>3 DEF UpdateJob, Jobs
    <3> QED BY <1>4, <1>15, <2>1, <3>1 DEF UpdateJob
  <2> QED BY <2>2, <2>3
<1>16. ASSUME NEW j \in Job, RemoveJob(j) PROVE Goal
  <2>1. store'[k] \in {store[k], None}
    BY <1>0, <1>16 DEF RemoveJob, Jobs
  <2> QED BY <1>4, <1>16, <2>1 DEF RemoveJob
<1>17. ASSUME NEW j \in Job, NEW e \in BOOLEAN, EnableJob(j, e) PROVE Goal
  <2>1. CASE k = j /\ runs[k] = 1
    <3>1. store[k] \in JobRec /\ store[k].sched = born[k]
      BY <1>0, <1>17, <2>1 DEF EnableJob, Jobs, Copies, GoodJobs, GoodCopy
    <3>2. born[k].kind = "at" /\ born[k].t <= now
      BY <1>3, <1>17, <2>1 DEF EnableJob, Spent, OneTime
    <3>3. store'[k] = Enabled(store[k], e)
      BY <1>0, <1>17, <2>1 DEF EnableJob, Jobs
    <3>4. store'[k].next = None
      <4>1. store[k].sched.kind = "at" /\ store[k].sched.t <= now
              => Enabled(store[k], e).next = None
        BY <1>0, <3>1, RecordFacts
      <4> QED BY <3>1, <3>2, <3>3, <4>1
    <3>5. store[k] # None
      BY <1>17, <2>1 DEF EnableJob
    <3> QED BY <1>3, <1>4, <1>17, <2>1, <3>4, <3>5 DEF EnableJob, Spent
  <2>2. CASE k # j \/ runs[k] # 1
    <3>1. runs[k] = 1 => store'[k] = store[k]
      BY <1>0, <1>17, <2>2 DEF EnableJob, Jobs
    <3> QED BY <1>4, <1>17, <3>1 DEF EnableJob
  <2> QED BY <2>1, <2>2
<1>18. ASSUME NEW j \in Job, NEW s \in Schedule, NEW c \in BOOLEAN, AddJob(j, s, c)
       PROVE  Goal
  <2>1. CASE born[k] = None
    BY <1>1, <1>18, <2>1 DEF AddJob
  <2>2. CASE born[k] # None
    <3>1. born'[k] = born[k] /\ k # j
      BY <1>2, <1>18, <2>2 DEF AddJob
    <3>2. store'[k] = store[k] /\ pending'[k] = pending[k]
      BY <1>0, <1>18, <3>1 DEF AddJob, TypeOK, Jobs
    <3>3. UNCHANGED <<loop, runs, now>>
      BY <1>18 DEF AddJob
    <3>4. OneTime(k)
      BY <3>1 DEF OneTime
    <3> QED BY <1>0, <3>1, <3>2, <3>3, <3>4 DEF OneTimeJobs, Spent
  <2> QED BY <2>1, <2>2
<1>19. ASSUME NEW j \in Job, NEW s \in Schedule, CliAdd(j, s) PROVE Goal
  <2>1. CASE born[k] = None
    BY <1>1, <1>19, <2>1 DEF CliAdd
  <2>2. CASE born[k] # None
    <3>1. born'[k] = born[k] /\ k # j
      BY <1>2, <1>19, <2>2 DEF CliAdd
    <3>2. UNCHANGED <<loop, runs, now, store, pending>>
      BY <1>19 DEF CliAdd
    <3>3. OneTime(k)
      BY <3>1 DEF OneTime
    <3> QED BY <1>0, <3>1, <3>2, <3>3 DEF OneTimeJobs, Spent
  <2> QED BY <2>1, <2>2
<1>20. ASSUME NEW j \in Job, NEW r, CliEdit(j, r) PROVE Goal
  BY <1>4, <1>20 DEF CliEdit
<1>21. CASE CliLoad \/ CliQuit \/ UNCHANGED vars
  BY <1>4, <1>21 DEF CliLoad, CliQuit, vars
<1> QED
  BY <1>5, <1>6, <1>7, <1>8, <1>9, <1>10, <1>11, <1>12, <1>13, <1>14, <1>15, <1>16,
     <1>17, <1>18, <1>19, <1>20, <1>21 DEF Next

\* The inductive invariant of the cron service.
THEOREM Inductive == Spec => []IInv
<1>1. Init => IInv
  <2> SUFFICES ASSUME Init PROVE IInv
    OBVIOUS
  <2>1. \A j \in Job : runs[j] = 0 /\ born[j] = None
    BY DEF Init
  <2>2. GoodJobs(born, NoJobs)
    BY DEF GoodJobs, GoodCopy, NoJobs
  <2>3. Copies
    BY <2>2 DEF Init, Copies
  <2>4. Known
    BY <2>1 DEF Init, Known, NoLoop
  <2>5. OneTimeJobs
    BY <2>1 DEF OneTimeJobs, OneTime
  <2> QED BY <2>3, <2>4, <2>5, InitType DEF IInv
<1>2. IInv /\ [Next]_vars => IInv'
  BY TypeStep, CopiesStep, KnownStep, OneTimeStep DEF IInv
<1> QED BY <1>1, <1>2, PTL DEF Spec

\* A one-time job is executed at most once, whatever crashes, fails or
\* interleaves, for every set of jobs and schedules.
THEOREM AtMostOnceHolds == Spec => []AtMostOnce
<1>1. IInv => AtMostOnce
  BY DEF IInv, OneTimeJobs, AtMostOnce
<1> QED BY <1>1, Inductive, PTL

\* A one-time job is never executed before its time.
THEOREM NotEarlyHolds == Spec => NotEarly
<1>1. IInv /\ [Next]_vars =>
        [\A j \in Job : OneTime(j) /\ runs'[j] # runs[j] => now >= born[j].t]_vars
  <2> SUFFICES ASSUME IInv, Next, NEW j \in Job, OneTime(j), runs'[j] # runs[j]
               PROVE  now >= born[j].t
    BY DEF vars
  <2>1. PICK k \in Job : ExecuteBegin(k)
    BY DEF Next, Tick, Boot, Start, Stop, LoopExit, Crash, checkJobs, CheckDone,
           ExecuteEnd, UpdateJob, RemoveJob, EnableJob, AddJob, CliAdd, CliEdit,
           CliLoad, CliQuit
  <2>2. j = k /\ j \in loop.due
    BY <2>1 DEF ExecuteBegin, IInv, TypeOK
  <2> QED BY <2>2 DEF IInv, OneTimeJobs, TypeOK, Time, OneTime, ScheduleType
<1> QED BY <1>1, Inductive, PTL DEF Spec, NotEarly

\* A service whose process is not running has no loop.
Down == ~up => loop = NoLoop

LEMMA DownStep == IInv /\ Down /\ [Next]_vars => Down'
<1> SUFFICES ASSUME IInv, Down, [Next]_vars PROVE Down'
  OBVIOUS
<1>1. CASE Crash
  BY <1>1 DEF Crash, Down
<1>2. CASE Boot
  BY <1>2 DEF Boot, Down
<1>3. CASE ~Crash /\ ~Boot
  <2>1. up' = up
    BY <1>3 DEF Next, vars, Tick, Start, Stop, LoopExit, checkJobs, CheckDone, ExecuteBegin,
           ExecuteEnd, UpdateJob, RemoveJob, EnableJob, AddJob, CliAdd, CliEdit, CliLoad, CliQuit
  <2>2. up \/ loop' = loop
    BY <1>3 DEF Next, vars, Tick, Start, Stop, LoopExit, checkJobs, CheckDone, ExecuteBegin,
           ExecuteEnd, UpdateJob, RemoveJob, EnableJob, AddJob, CliAdd, CliEdit, CliLoad, CliQuit
  <2> QED BY <2>1, <2>2 DEF Down
<1> QED BY <1>1, <1>2, <1>3

\* A step that gives the service a job it does not have adds a new one, or loads the file
\* before the loop begins.
LEMMA StaysRemovedStep ==
  ASSUME IInv, Down, Next, NEW j \in Job, born[j] # None, store[j] = None, store'[j] # None
  PROVE  loop = NoLoop
<1> DEFINE Kept == store'[j] = None
<1>1. CASE Boot
  BY <1>1 DEF Boot, Down
<1>2. CASE Start
  BY <1>2 DEF Start
<1>3. CASE checkJobs
  <2>1. Kept BY <1>3 DEF checkJobs, IsDue
  <2> QED BY <2>1
<1>4. CASE ExecuteEnd
  <2>1. Kept BY <1>4 DEF ExecuteEnd, IInv, TypeOK, Jobs
  <2> QED BY <2>1
<1>5. CASE Crash
  <2>1. Kept BY <1>5 DEF Crash, NoJobs
  <2> QED BY <2>1
<1>6. CASE \E k \in Job : UpdateJob(k)
  <2>1. Kept BY <1>6 DEF UpdateJob, IInv, TypeOK, Jobs
  <2> QED BY <2>1
<1>7. CASE \E k \in Job : RemoveJob(k)
  <2>1. Kept BY <1>7 DEF RemoveJob, IInv, TypeOK, Jobs
  <2> QED BY <2>1
<1>8. CASE \E k \in Job, e \in BOOLEAN : EnableJob(k, e)
  <2>1. Kept BY <1>8 DEF EnableJob, IInv, TypeOK, Jobs
  <2> QED BY <2>1
<1>9. CASE \E k \in Job, s \in Schedule, c \in BOOLEAN : AddJob(k, s, c)
  <2>1. Kept BY <1>9 DEF AddJob, IInv, TypeOK, Jobs
  <2> QED BY <2>1
<1>10. CASE UNCHANGED store
  BY <1>10
<1>11. \/ Boot \/ Start \/ checkJobs \/ ExecuteEnd \/ Crash \/ UNCHANGED store
       \/ \E k \in Job : UpdateJob(k) \/ RemoveJob(k)
       \/ \E k \in Job, e \in BOOLEAN : EnableJob(k, e)
       \/ \E k \in Job, s \in Schedule, c \in BOOLEAN : AddJob(k, s, c)
  BY DEF Next, Tick, Stop, LoopExit, CheckDone, ExecuteBegin, CliAdd, CliEdit, CliLoad, CliQuit
<1> QED BY <1>1, <1>2, <1>3, <1>4, <1>5, <1>6, <1>7, <1>8, <1>9, <1>10, <1>11

\* A removed job comes back only by loading the file, when the loop has not begun: neither
\* executeJobByID, which looks the job up again after its handler, nor the UpdateJob of the
\* tool's copy brings it back.
THEOREM RemovedStaysRemovedHolds == Spec => RemovedStaysRemoved
<1>1. Init => Down
  BY DEF Init, Down
<1>2. Spec => []Down
  BY <1>1, DownStep, Inductive, PTL DEF Spec
<1>3. IInv /\ Down /\ [Next]_vars =>
        [\A j \in Job : born[j] # None /\ store[j] = None /\ store'[j] # None
            => loop = NoLoop]_vars
  BY StaysRemovedStep
<1> QED BY <1>2, <1>3, Inductive, PTL DEF Spec, RemovedStaysRemoved

=============================================================================
