# Verification of the cron container

TLA+ models of `quant_monitoring`, the container that runs Python scripts on a
schedule: what its parts do, at which steps they can interfere with each other, what
is guaranteed nevertheless, and where the code falls short of its documentation.
TLC checks the models on small instances; TLAPS proves some of the results for every
value of the constants. `PROJECT.json` lists the runs, the theorems, the hazards, and
for each definition the lines of code it stands for.

## 1. The system

One container, in which supervisord starts three programs side by side
(`supervisord.conf`): `db-migrate` (once), `api` and `scheduler` (both restarted when
they die). They share no memory. The scheduler writes a heartbeat file that the API
reads; both use one PostgreSQL database, and both read the schedule file.

| Component | State | Operations | Talks to |
|---|---|---|---|
| scheduler worker (`workers/scheduler_worker.py`) | schedule, dedupe set, last minute seen, two request flags, thread pool and its queue | poll, reload, dispatch, execute with retries, stop | registry, run history, job runner, heartbeat, schedule file, signals |
| job registry (`workers/job_registry.py`) | job name → execution in flight | ask, mark started, mark finished | worker's main thread and pool threads |
| job runner (`workers/job_runner.py`) | none of its own; a child process, its pipes | run with a timeout, truncate the output | pool threads, operating system |
| run history (`repository/run_history.py`) | table `cron_runner_job_runs` | insert a start, update a completion; list, get, latest | pool threads (write), API (read) |
| heartbeat (`heartbeat.py`), `/ready` (`api/routes/health.py`) | a file; no state | replace the file; read it, ping the database | scheduler → API |
| run-history API (`api/routes/runs.py`) | none | three GET routes | clients, run history |
| `/jobs` (`api/routes/jobs.py`) | none | read the schedule file | clients |
| schedule file, loader, matcher (`scheduling/`) | a YAML file | load and validate; which jobs are due | worker, `/jobs` |
| report scripts (`scripts/`) | a process per attempt | query, summarize, post to Discord | scheduler (starts, kills, retries), database, Ollama, Discord |
| migrations (`alembic/`) | version table, table of runs, in some schema | upgrade, downgrade | database; supervisord or an operator runs them |
| database engine (`db.py`) | a lazily created engine | connect, ping | all of the above |

What is hard about it:

- *Threads.* The main thread asks the registry before it queues a task; the task
  registers itself later, in a pool thread, unregisters itself around each retry, and
  shares its entry with any other execution of the same job name.
- *Aborted iterations.* Any exception in an iteration of the loop skips the rest of it,
  and leaves the minute half dispatched.
- *Death and restart.* Registry, dedupe set and queue die with the process; rows, the
  heartbeat file and running subprocesses do not.
- *Time.* The loop sleeps after its work, so its period is not its poll interval; the
  wall clock may be set back; a timeout races the exit of a child.
- *Partial failure.* Each of the two writes of a run may fail and the run goes on; a
  query may fail inside a transaction; a message may be posted and not acknowledged.
- *Concurrent administration.* Signals, edits of the schedule file, and runs of alembic
  come at any time.

What makes each component correct is stated in section 3, run by run. All hazards, also
those no property covers yet, are in `PROJECT.json` at the line where they bite.

## 2. The modules

```
Maps ── JobRegistry ─┐
   └─── RunHistory ──┴─ SchedulerWorker ── JobsApi ── SchedulerProperties ─┬─ MCScheduler
   └─── JobRuns  (abstract log) ··refined by·· SchedulerProperties         └─ SchedulerProofs ── TaskLifeProofs
PollTiming ─────┬─ CronFiring ─┬─ MCCronFiring
ScheduleMatcher ┘      :       └─ CronFiringProofs
CronContract (abstract cron) ··refined by·· CronFiring
JobRunner ── JobRunnerProofs      Readiness ── ReadinessProofs      Migrations ── MigrationsProofs
ReportJob ─┬─ MCReportJob         RunsApi ─┬─ MCRunsApi
           └─ ReportJobProofs              └─ RunsApiProofs
```

**SchedulerWorker** composes the worker with its registry and its history. The main loop
is a program counter (`pc`) with one action per stretch of code between two points at
which another thread, a signal or a kill can matter: `Boot` (load_initial_schedule),
`StopLoop`/`CheckReload` (the loop condition; the timer, and the lowering of the flag),
`LoadFile` (the reading of the file, so that a signal or an edit can come between flag and
file), `PollClock` (`now` and `minute_key`), one of `AlreadyDispatched`, `SkipOverlap`,
`Submit` per due job, `EndDispatch` (last_seen_minute and pruning), `Beat`, `Wake` (the end of the sleep),
`ShutdownCompletes`. A task is a call of `_execute_with_retries`; `ThreadStep` is one of
mark_started, record_start, run_job, record_completion, and mark_finished with what
follows it. The signal handlers run between any two steps.

The pool is a queue and a number of threads, `threads`. `submit` queues the task and starts a
thread if none is free and the limit is not reached; `SubmitRaises` is `submit` failing to
start that thread after it has queued the task. `shutdown(wait=True)` is modelled as the
library does it: `StopLoop` queues a token (`None`) behind the tasks, a free thread that
comes to it puts it back for the next and ends (`ThreadLeaves`), and shutdown returns when no thread
is left (`ShutdownCompletes`). Nothing in its guard speaks of tasks; that they are
done by then is what `StoppedIsDrained` has to show. Only a pool that never got a thread
returns with tasks in its queue. A task keeps, for the properties only, whether there was
`room` for it when it was queued: fewer tasks than threads.

`Crash` kills the process between two steps and leaves its subprocesses as orphans;
`Respawn` is supervisord. The schedule
file is a member of `Files`: a schedule, a file that is rejected with ScheduleLoadError,
or one whose reading raises something else. Of a job it keeps the fields the scheduler
acts on, and of its cron expression, time zone and weekend rule the set of minutes in
which it is due. Due jobs are taken in any order, the file's among them. The clock counts
minutes.

**JobRegistry** and **RunHistory** are the operators SchedulerWorker calls; a method that
holds the lock throughout, or one transaction, is one step. **JobRuns** is what the history
promises: attempts of a dispatch appear in order, a run is closed once, none follows a
success. Its only variable is `log`, from dispatches to attempts to statuses;
`HistoryIsALog` is the refinement, in which the log of a task is read off the keys of the
rows (`RunsOf`). **JobsApi** is what `GET /jobs` answers: the file as it is, where the
scheduler has the schedule it last loaded.

**PollTiming** is the same loop in seconds, reduced to when it reads the clock and when it
writes the heartbeat. SchedulerWorker lets any number of minutes pass in a sleep; this
module says how many can.

**ScheduleMatcher** is `due_jobs`: a minute is a number, a zone's wall clock is that number
and the zone's offset (`calendar`, which may change in the course of the model), and local
day, hour and minute are arithmetic on it. A cron expression is its sets of minutes and hours.
**CronFiring** conjoins the steps of PollTiming with what an iteration does in them: `Fire`
hands a job that is due to `_dispatch`, `Finish` is an iteration that has handed on all of
them, and an iteration that fails has handed on any part. **CronContract** is what a cron
promises: minute by minute, each job that is due is begun once before the next minute.
`CronIsKept` is the refinement: the contract's minute is the minute the loop read last, and
what has been begun is what was handed on with that minute.

**JobRunner** is the runs of one job, each with its child, and a helper: a process the child
started that holds the pipes, and may go on beside the next run. A process that has let go of
the pipes is out of the code's sight and not modelled. A timeout is two steps, as it is in
`subprocess.run`: `Expires` raises, also if the pipes have ended since communicate() last
looked, and `TimesOut` kills the child, unless it exited in between, reaps it, and returns
without any output. A text is a sequence of characters, given by their widths but for the
line ends, so that the truncation, which cuts bytes, and `text=True`, which
makes one line end of three (`Translated`), are modelled by what they do; the two output
streams are treated alike.

**Readiness** puts the heartbeat file between its writer and its reader, with the
temporary file, kills of either process, supervisord's restarts and its giving up, and a
database that comes and goes. `SELECT 1` needs no schema, so the answer does not depend on the migrations.

**ReportJob** is the attempts of one of the four scripts in `scripts/`; `script` says which.
They differ in what they fetch: four queries over one connection, one query, or one call of
an HTTP API. Each has its own copy of the rest, the same but for the wording of the prompt;
`PROJECT.json` maps the definitions to the copies in turn. A character of a report is
the attempt that wrote it and its position, so the channel shows what came from where.
PostgreSQL's rule that a failed statement blocks its transaction is `aborted`.

**RunsApi** has a client page through `/runs` and ask for latest runs while rows arrive.
Rows are stamped before they are inserted, as the pool threads do it.

**Migrations** has several processes run `alembic upgrade head`: the transaction of
`_prepare_schema` (its SELECT apart from its ALTER), the reading of the revision, the
transaction of the migrations. DDL is transactional in PostgreSQL.

`MC*` modules give TLC its constants. Definitions whose comment begins with "Mutant" are
faulty versions of the definition that follows them: each shows that some property
notices the fault (`PROJECT.json`, `mutants`).

## 3. What the runs show

### The scheduler

| Run | Shows | Bounds |
|---|---|---|
| `scheduler_safety` | `AtMostOncePerMinute`: one process dispatches a job at most once per minute, although iterations are cut short and schedules reloaded in the middle of it. `DedupeBounded`: the pruned set is of one minute. `RegistryGhostFree`: every entry is an attempt in flight. `PlainJobsDoNotOverlap`: a job that never had a retry, was allowed to run concurrently or was queued behind all threads does not overlap itself, provided that a free thread begins its task before the poll's sleep is over. `HistoryComplete`: what the history lacks the database refused. `HistoryIsALog`: refinement of JobRuns. `StoppedIsDrained`: a worker that stopped has finished every task, queued ones and those without a thread of their own included. | 2 jobs, one of which has, under one schedule, a retry and may overlap itself, under the other neither; 2 tasks, 2 threads, 2 minutes, 2 schedules, 2 processes, any submit failing, 1 execution with lost writes |
| `scheduler_liveness` | Tasks finish, registrations are undone, a stop takes effect, a reload brings the schedule in force into line with what `/jobs` lists, the loop keeps polling although it is asked to reload files that are rejected. | 2 jobs, 2 tasks, 1 thread, 4 files, no timer |
| `overlap_in_retry_delay` | A disagreement: "prevents overlapping runs of the same job" (README.md:5), but the registry does not know a job in its retry delay, and the next minute starts it again. | 1 job, 1 retry |

The bounds suffice for these cases: overlap needs two runs of a job and two minutes; a
dedupe entry that outlives its minute needs two minutes and an aborted iteration; and two
tasks are two of one job or one of each. When starting a thread fails there is one thread for
two tasks, or none, so a task waits while another holds the thread through its
retries, and shutdown finds it in the queue. An execution one of whose writes is lost, beside
others that are recorded, is enough for `HistoryComplete`, which speaks of one execution at a
time. In `scheduler_safety` the wall clock is set back only while no process lives
(`ClockMayStepBack` is false; see below), reloads come from the timer, which may elapse at
any iteration, and SIGTERM is the signal; SIGHUP, and files that are rejected or raise, are
in `scheduler_liveness`, where a request may come between `CheckReload` and `LoadFile`. Tasks
are a symmetry set in the runs without liveness. `scheduler_safety` has 2.1 million states
and takes two to three minutes.

The hypotheses of `PlainJobsDoNotOverlap` are each needed, and they are the limits of what the
registry prevents. *Retries*: `overlap_in_retry_delay`. *Concurrency*: several
executions share the entry of their name, so the first to end unregisters the others, and
after a reload that forbids concurrency the next minute does not see them. *Room in the
pool*: a task that waits in the queue is not registered yet, so the next minute queues
another, and the two run together when threads become free. *Promptness*: so does a task
whose thread is free but slow. Beyond one process: a subprocess
outlives a scheduler that is killed, and the next one knows neither of it nor of what was
dispatched in this minute. `AtMostOncePerMinute` needs a clock that is not set back over a
minute boundary, as the entries of a minute are pruned when the next is done. And
`LoopKeepsPolling` excludes a file whose reading raises something else than
ScheduleLoadError (one that is not UTF-8): with `CRON_CONFIG_RELOAD_SECONDS` at or below the
poll interval every iteration ends there, and nothing is dispatched while the file is so.

### The other components

| Run | Shows | Bounds |
|---|---|---|
| `cron_firing` | `CronIsKept`: the loop implements CronContract, with any iteration cut short that is followed by one that is not. `DailyJobsFireDaily`: a daily job runs once on each day of its zone if it has `run_weekend`, otherwise once on each weekday of New York and not on New York's weekends, also over a change of the clocks. `EveryMinuteIsSeen`; `LiveLoopIsFresh`: the heartbeat of a live loop is never stale. | six days about a change of the clocks, spring and autumn; the times of `config/schedule.yaml` and three more jobs; half hours for minutes; minute of 7 s, interval 2 s, work 1 s, 1 failure; any phase |
| `minute_skipped` | A disagreement: a job due every minute "is observed to execute every minute" (spec, section 15), but with the interval equal to the minute, the default, minutes are stepped over. | minute and interval of 11 s, work 1 s |
| `run_job` | `SuccessIsReal`; `TruncationIsExact`: of an output that was read to its end, what is kept is the longest beginning that fits; `OnlyTimeoutsLeaveProcesses`: what is left running of an earlier run is a helper of one that timed out; `RunReturns` although the script may run for ever and its helper hold the pipes. | 2 runs; outputs up to 3 characters: one of 3 bytes, the two that end a line, one that is undecodable; limits 0, 1, 4 |
| `output_dropped` | A disagreement: a child's output is "captured in full", "never dropped silently" and "persisted verbatim" (spec, lines 192-194, 305), but what a run wrote before its timeout is dropped: the exception has it as bytes, and job_runner.py:104 asks for a string. | 1 run, no limit, 2 characters |
| `readiness` | `HeartbeatIsWhole`, `TempsAreRemoved`; a scheduler that stays away is noticed; a file that is repaired brings it back unless supervisord gave up. | 2 kills of the scheduler, any of the API, 1 start retry, stale after 2 |
| `report_delivery` | `ChannelIsFaithful`: of each attempt a beginning of its report, all of it if it succeeded. `RepeatsAreUnavoidable`: a complete report is posted again only if its attempt could not know. `FirstErrorIsGenuine`. | 4 scripts, 3 services, messages of 2, reports up to 5, 2 attempts |
| `failure_not_isolated` | A disagreement: "One service's failure never blocks the others" (the script's docstring), but the errors after the first are those of the aborted transaction. | as above |
| `runs_paging` | `NothingIsSkipped`: insertions do not make a client miss a run that was there, unless runs left the filtered result or tied in time. `LatestAdvances`. | 3 runs, 2 jobs, times 0 to 2, pages of 1 and 2, six queries |
| `schema_migrations` | Two overlapping, killed and repeated runs, with downgrades between: the revision says where the table is, old rows survive, and an upgrade that reports success is one; also with copies of the tables in another schema. | 2 migrators, 4 runs, 2 downgrades |

The six days begin on a Friday, UTC, and so hold the five whole days from Friday to
Tuesday in New York: weekdays on both sides of a weekend, on whose Sunday the clocks are
changed at 2:00. Jobs at 13:00 in Tokyo are at midnight in New York in summer and an hour
before it in winter, so that the change moves them to another day; and two are due in the
same minute. The run also evaluates `DailyCalendarAssumption`, the hypothesis of `DailyTheorem`
(section 4): on each day on which a job runs its minute comes once. It is false of the other
days: on the Sunday of a change 13:00 in Tokyo comes twice or not at all between two
midnights of New York, and only because Sundays are left out does this not matter.
A minute has several polls, some
of which fail, so that a minute is looked at twice and a job might be begun twice.

A report of 5 characters in messages of 2 has full and partial last messages, and lengths
on both sides of a multiple; characters of width 1 (a line end) and 3 put a cut at a boundary
and within a character, and "\r\n" makes what is cut shorter than what was written. Three runs with pages of one leave a run to be inserted above, to shift and
to be skipped.

Where the properties stop, the code does this: output that is not UTF-8 is lost as that of a
timeout is (job_runner.py:126); an exit with 0 is no success if the output is not UTF-8, if a
helper holds the pipes until the timeout, or if the child exits between the timeout and its
kill; `/ready` pings the database with `SELECT 1`, so it does not wait for the
schema, and goes by the heartbeat of a process that is gone while that is fresh; an
unreachable database is answered with 500 by `/runs` (runs.py:61), 503 in its specification;
with a copy of the tables in another schema the migrations move the copy, and every later
run fails because the name is taken (env.py:59, 0002:41).

A job without `run_weekend`, which is the default and not in the specification, rests on the
weekend of New York whatever its zone, so that the specification's examples ("02:00 daily",
"every 5 minutes") do not run on those days. Of the jobs in `config/schedule.yaml` the trades
report is at 13:00 in Tokyo: in summer 0:00 in New York, when it reports a trading day that
has just begun, in winter 23:00 of the day before, with the date that follows, for the image
sets no time zone (daily_trades_report.py:43) although matcher.py:11 takes New York's to be
the container's. `/jobs` reads the file, though section 2.1 of its specification says it
returns the schedule in memory: without a reload, or after a rejected one, it lists what is
not in force.

Deadlock is not checked: the worker stops when it is asked to, a run ends, and the
environment reaches its bounds.

### Fairness

`SchedulerWorker.FairSpec` has weak fairness of the main loop, of a free thread taking what is
queued, a task or the token of shutdown, and of each task's thread: the operating system schedules runnable threads, and a
run ends because `timeout_seconds` is required of every job. Nothing is assumed of the
operator, the clock, signals and kills. `JobRunner` has it of the thread in `run_job`
only, timeout included; nothing of the script. `Readiness` has it of time, of the scheduler's
successful steps, of supervisord's restarts of either process, and of somebody asking; failures are not
required to happen or to end. The other runs check safety only.

## 4. What is proved

Every invariant, action property and refinement that a passing run checks is a theorem too,
for every value of the constants that satisfies the assumptions the modules name. Few of
them are inductive. What was added to make them so was checked by TLC on the run's instance
first, and is the more instructive part: it says why the code is right.

### `SchedulerProofs` and `TaskLifeProofs`: any jobs, tasks, files, pool size and switches

- `TypeCorrectness` (`TypeOK`). `TypeInv` adds that the dispatch loop only looks at jobs of
  the loaded schedule, which is why the lookup of a definition is defined: a reload cannot
  come between.
- `AtMostOnce` (`AtMostOncePerMinute`) and `DedupeStaysSmall` (`DedupeBounded`), if the clock
  is not set back. That no second task is queued is known from the dedupe set, not from the
  tasks. `DispatchInv` says that time does not run ahead of the clock (`TimeInv`), that the
  set holds nothing later than the current iteration and nothing but its minute after the
  pruning (`DedupeInv`), and that each task of this process is of a minute already finished
  or has its entry (`DispatchedInv`). The hypothesis is needed, see section 3.
- `NoGhosts` (`RegistryGhostFree`), from `RegistryInv`: every entry is the execution of some
  attempt in flight. The converse does not hold, as executions of one job share an entry.
- `HistoryIsComplete` (`HistoryComplete`) and `HistoryImplementsLog` (`HistoryIsALog`, the
  refinement of JobRuns), from `TaskLifeInv`. `ProcessInv` ties the stages of tasks to the
  process they are of: none is unfinished when it has ended, none lost before. `QueueInv`:
  the queue holds the tasks that wait, each once. `AttemptInv` bounds the attempts by the
  definition a task was given, and `HistoryInv` says for each stage which rows there are and
  with which status. Each step of the scheduler then is a step of the log or leaves it alone.
- `StopDrains` (`StoppedIsDrained`) is an argument about the pool's queue. Once stopping, the
  token is in the queue, behind every task that waits (`QueueInv`), and there are never more
  tasks at work than threads (`PoolInv`): so while a thread has not left, every task is before
  the token or on a thread. A thread leaves only at the token, when nothing waits, and only
  if it is free: the last one leaves nothing behind. `DrainInv` has the other case: a pool
  none of whose threads could be started, in which no task ever began.
- `PlainJobsAreSerial` (`PlainJobsDoNotOverlap`) has the hypothesis of its run, `PickupIsPrompt`,
  and bounds neither tasks nor threads: `RoomInv` says that a task that had room, those
  before it in the queue and those at work are together no more than the threads, so that it
  waits only while a thread is free. `PromptInv` says that when the loop comes to a job none of its tasks waits, and `PlainInv`
  that a plain job has one task at a time, which is in the registry while it is in flight.

### `CronFiringProofs`: any schedule, calendars and lengths

- `CadenceTheorem` (`EveryMinuteIsSeen`): if `(MaxFailures + 1) * (PollInterval + MaxWork) +
  MaxWork <= MinuteLength`, no minute is stepped over. With the default interval of a minute
  the condition fails for any work.
- `FreshnessTheorem` (`LiveLoopIsFresh`): if `(MaxFailures + 1) * (PollInterval + MaxWork)
  <= 3 * PollInterval`, a live loop never looks stale. Both, and `TimingTypes`, follow from
  `TimingInv`, which bounds the ages by the number of failed iterations and relates them to
  the wall clock. They are stated of PollTiming; `LoopKeepsTiming` carries them to the loop
  with its jobs.
- `CronTheorem`: under the condition of `CadenceTheorem`, `FiringSpec => CronIsKept`. That
  every minute is looked at is not enough, for an iteration that looked may have failed;
  `FiringInv` follows the last iteration that came to its end (`DoneClock`, `DoneAge`) and
  says that all that was due at its reading has been handed on (`FiredInv`). When the loop
  then reads a new minute it is the next one, and the one before is settled. The minute in
  which the loop starts is excepted, as it may be nearly over.
- `DailyTheorem` (`DailyJobsFireDaily`), under the same condition and for calendars that are
  `DailyCalendar`: on a day on which a job runs, its minute comes exactly once. `PastInv`
  collects what CronIsKept says of the minutes gone by. That calendars with a change of the
  clocks are such is arithmetic on particular zones; TLC evaluates it in `cron_firing`.

### `JobRunnerProofs`: any script, output, limit and number of runs

`RunnerTypes`; `LeftBehind` (`OnlyTimeoutsLeaveProcesses`) from `RunnerInv`, which says what
exists before a launch and what every returned run has left; `SuccessIsGenuine` (`SuccessIsReal`) from `ResultInv`: a result with
output was made of the output that is there now, because nobody can write to it any more.
`TruncationKeepsWhatFits` (`TruncationIsExact`) says that `Truncate` keeps the longest
beginning that fits, by induction over the text.

### `ReadinessProofs`: any bounds

`ReadinessTypes`, `HeartbeatIsAtomic` (`HeartbeatIsWhole`), `OnlyKillsLeakTemps`
(`TempsAreRemoved`). `WriteInv`: there is a temporary file in use just while the scheduler is
writing; without it an abandoned file could not be told from one in use.

### `ReportJobProofs`: any scripts, services, message limit, report length and attempts

`JobTypes`, `ChannelShowsReports` (`ChannelIsFaithful`), `RepeatsHaveAReason`
(`RepeatsAreUnavoidable`), `FirstErrorHolds` (`FirstErrorIsGenuine`). `PostingInv` is a loop
invariant: what the channel has of a report and the messages still to be sent make up the
report, at a boundary of messages. `EndInv` says what each kind of end implies for the
channel; that an error implies an incomplete report is what makes a repetition
unavoidable. `FetchInv`: one source fails in itself, and what follows it only if the transaction is
lost with it. What an attempt has posted (`PostedBy`) is defined by recursion over the channel;
that a message appended to the channel is appended to it is an induction over the messages.

### `RunsApiProofs`: any runs, jobs, queries and page sizes

`ApiTypes`, `PagesShowEverything` (`NothingIsSkipped`), `LatestNeverGoesBack`
(`LatestAdvances`). The client keeps an offset, and rows shift under it. `PagingInv` is the
reason that it loses nothing: of the runs listed last, at least `offset` are newer than a
run that has not been shown, so its place is not before the next page. That the place of a
run is the number of newer ones (`PlaceFacts`) needs that no two started at once.

### `MigrationsProofs`: any number of migrators, runs and downgrades

`MigrationsTypes`, `RevisionStaysTrue` (`RevisionIsTrue`), `SuccessMeansHead`
(`UpgradeReachesHead`), `UpgradesKeepRows` (`RowsPersist`). `DatabaseInv` and `PlainInv` say
where the version table and the table of job runs are together; `MigratorInv` says what a run
that has read something may still rely on after the others' transactions: that the version
table is in place, and that the revision it read is not ahead of the one recorded.

### On the method

The theorems rest on the assumptions named in the modules (`FilesAssumption`,
`BoundsAssumption`, `TimingAssumption`, `RunnerAssumption`, `ApiAssumption`, ...), which TLC
evaluates in the runs, and on the hypotheses they state. Inductions over a text or a
sequence of messages go through `SetInduction` (in JobRunnerProofs and in ReportJobProofs):
a set of numbers that has 0, and with each number the next, has all of them; it has a set for
a parameter where the library's theorem has an operator. Definitions that recur (`Width`,
`Posted`) are recursive functions for that reason.

Only model-checked:

- all liveness (`TasksFinish`, `RegistryClears`, `StopTakesEffect`, `ReloadTakesEffect`,
  `LoopKeepsPolling`, `RunReturns`, `DeathIsNoticed`, `RepairIsNoticed`): weak fairness is
  about ENABLED, which the prover does not reason about;
- the four disagreements, which are counterexamples;
- `DailyCalendarAssumption`, see above.

## 5. What is not modelled

- The day fields of a cron expression, and jobs within the hour that a change of the clocks
  drops or repeats: what they mean is croniter's, which is not in the repository.
  SchedulerWorker, in which schedules are reloaded, takes a job to be due in a given set of
  minutes.
- Contents of rows but for status, job and start; wording of logs and answers; CORS.
- The pool of database connections and the unlocked creation of the engine: of the first
  only that a write may fail; two threads that create an engine at once each use one, and
  one of them stays.
- `/health` and `/runs/<id>`, which have no state; an API that cannot start.
- The date the trades report asks for: no document says which is meant.
- Offline migrations, the image, the compose file and CI.

## 6. Plan

Done: the scheduler (SchedulerWorker and its parts, the timing of its loop, and the loop as
a cron), a module for each of the other components with state, and a proof of every safety
property the runs check. What remains:

1. The safety part of the liveness properties, as far as it can be proved: that a task which
   is not finished always has a step or waits for a thread that another task holds, so that
   fairness is all that is left to assume.
2. CronFiring under reloads, which SchedulerWorker has and CronFiring leaves out.
3. If it earns a run: `EnginePool`, more writers than connections, each waiting for one.
