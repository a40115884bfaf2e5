# yajudge: specifications, model checking and proofs

yajudge is a judge for programming courses. Students submit solutions, a
*grader* builds and tests them, a teacher reviews the code, and everybody
watches the status. The state is in one PostgreSQL database; around it are
eight Dart services, graders written in Dart, a supervisor and a web proxy
written in Go, and a Flutter client.

This directory has TLA+ modules of that system, TLC configurations that check
them on small instances, and proofs checked by TLAPS that hold for every value
of the constants. `PROJECT.json` maps every definition to the lines it models
and lists runs, mutants, hazards, findings and theorems.

    tlc -workers 2 -config faults.cfg MCGrading     # a run
    tlc -workers 2 -config host.cfg MCHost
    tlapm GradingProofs.tla                         # proofs of a module

## 1. Inventory

Paths are relative to `src/`; `m/` stands for `yajudge_master_services/lib/src/`.

| Component | State | Operations | Hard behaviour | What makes it correct |
|---|---|---|---|---|
| Submissions service `m/submissions_service/submissions_service.dart` | tables `submissions`, `submission_files`, `submission_results`; handlers suspended at awaits | submit, queue run (1 s timer, connecting grader), push and assign, unassign, report, rejudge, set status | overlapping runs over stale snapshots, handlers of several queries, restart between them | no submission forgotten, graded ones stay graded, verdict and results agree |
| Registry of graders `m/submissions_service/external_services_manager.dart` | `_connections`: status, capacity, sink per grader | register, status report, push, find a grader, drop inactive ones | connections found dead late, counts overwritten by reports | capacity in range, no ready grader passed over, jobs suit the grader |
| Grader loop `yajudge_grader/lib/src/grader_service.dart` | `submissionsInProgress`, idle workers | stream, process, report, reconnect, shut down | crash and disconnection at any point, errors | what it was given is reported, or it was lost on an error |
| Grading of one solution `grading_worker.dart`, `submission_processor.dart`, `builders.dart`, `checkers.dart` | an isolate per submission | build, style check, tests, checkers, verdict | failure in the middle, isolates that die | the verdict is that of the first failing stage |
| Problem loader `problem_loader.dart` | directory and timestamp per problem | load, build helpers | loads that fail half way over files of earlier versions | a solution is graded with all that one version of its problem has |
| Supervisor of one service `yajudge_server/service.go` | a process, status and two counters | start, stop, monitor, respawn | goroutines that release the lock between check and act | one process per service, stopped means stopped, every stop ends |
| Supervisor of all `yajudge_server/supervisor_service.go`, `instance.go`; `yajudge_control` | instances, their configuration and services | autostart, start, stop and restart of a service or an instance, notifications by SIGHUP, shutdown | the end of one service signals all others, which may be booting; configurations read again | others run on, restarts end, nobody is left behind |
| Configuration `yajudge_server/supervisor_config.go`, `yajudge_grpcwebserver/server_config.go` | files | read | files that are missing, empty or broken | a server that can start does |
| Installation tools `tools/yajudge_post_install`, `tools/yajudge_create_instance` | files, role, database, account | a sequence of steps each | failure and death between steps, second runs | what is reported as created can be used, complete files stay |
| gRPC web server `yajudge_grpcwebserver/*.go` | connections, copies of directories, URLs | proxy a call, serve a file, pass a request on, reload, SIGHUP | requests in parallel with reloads and dropped connections | no request is answered wrongly by a reload, few connections |
| Code review `m/review_service/review_service.dart` | tables `code_reviews`, `review_line_comments` | apply, read, history | two reviewers, failure between queries | one review per submission, stored as applied |
| Deadlines `m/deadlines_service/deadlines_service.dart` | table `submission_deadlines`, dirty flag, timestamps | check for dirty courses, recompute, insert | recomputation against new submissions and other checks, a table without a column | every submission has its deadlines, computed from what is current |
| Content and caches `m/content_service`, `yajudge_common/lib/src/course_loader.dart`, `m/course_data_consumer.dart` | caches at three places | load, serve if modified | failing loads, edits during loads, times that are read late or not at all | a copy is whole, and what it lacks is found |
| Progress `m/progress_service/progress_service.dart` | subscriptions | statuses, scores, notifications | notifications against unsubscribing | scores follow from rows |
| Courses, users, sessions | rows | single queries behind access checks | little | access rules |
| Client, sandbox, demo courses | screens; processes; data | | outside of this code or without state | not modelled |

How they interact. A student's client calls `submitProblemSolution`; the
service inserts the row and the files, then *pushes* the submission: it picks a
grader in the registry (`findService`), writes to the sink of its stream, and
writes `ASSIGNED` and `grader_name` to the row. A grader holds one call,
`receiveSubmissionsToProcess`, whose stream is that sink; it reports with
`updateGraderOutput`, which writes the verdict and the results, and it reports
its status with `setExternalServiceStatus`. Teachers call `rejudge` and
`updateSubmissionStatus`, the review service the latter. A timer of 1 s runs
`processSubmissionsQueue`, one of 500 ms drops connections that are dead, one
of 10 s in the grader repeats the status.

The supervisor starts the services of every instance whose directory the
installation tools have made, restarts those that die, and tells the others of
the instance, and the web server, of each end by SIGHUP, so that they drop
their connections. The web server reads the same directories.

The content service reads the files of courses. The deadlines service, each
grader and the client have copies of what it answered, and ask with the time
stamp of their copy for what is newer. The deadlines service recomputes the
deadlines of all submissions of a course when the course or its schedule has
changed; the submissions service has it insert those of a new one. The review
service stores reviews and has the submissions service change the status.

## 2. Modules

| Module | What it is |
|---|---|
| `ExternalServices` | registry: `attached` is the key set of `_connections`, `condition`, `capacity`, `sink` the fields of a connection, `canceled` what `serviceCall.isCanceled` says |
| `ExternalServicesAlone` | the registry under any sequence of calls of its users |
| `GraderService` | the loop of a grader: `phase` is the await it is at, `job` its submission, `inProgress` is `submissionsInProgress` |
| `SubmissionsService` | rows (`grading`, `status`, `graderName`, `retryDue`, `stored`, `output`, `results`) and handlers (`submitting`, `runs`, `updates`, `rejudging`) |
| `Grading` | the two joined by calls and streams, with failures; the properties |
| `Lifecycle` | the abstract specification: what somebody who watches a submission may see |
| `Supervisor` | one service under the supervisor: `status`, `process`, `attempts` are the fields, `callers` the goroutines in `Start` and `Stop`, `monitors` those in `monitorProcess` |
| `Configuration` | what files there are (`files`), what they say (`settings`), and what both servers decide by them |
| `Installation` | the two tools: `tool` is the one that runs and its place, `role`, `database`, `account`, `admins` what it changes besides files |
| `SupervisorService` | the supervisor over all services: `config`, `known`, `status`, `process`, `tries` are fields of instances and services, `callers` the calls of control tools, of autostart and of main, `monitors` each monitor with its process, `pending` the SIGHUPs not handled yet |
| `WebServer` | `client` is `grpcClient` of each endpoint, `cache` the copy of each directory, `reloads` what a reload has still to read, `proxied` how often a URL was extended, `requests` the goroutines |
| `Host` | a machine: the three joined by the files and by SIGHUP |
| `CourseContent` | the content service: `course` and `problem` are the items of its caches, `serving` is the request it works on, `calls` the requests and answers of its clients |
| `Deadlines` | `dirty` is `need_update_deadlines`, `deadlines` the rows, `lastModified` the entry of `_courseDataLastModified`, `copy` the loaded course, `handlers` the checks, which may overlap, and the calls |
| `ProblemLoader` | `directory` is the cached problem, by the version each of its parts was written from, `loader` the load or grading under way |
| `CodeReview` | the two tables, and `applying`, the calls of `applyCodeReview` |
| `CourseWork` | the four together |
| `MCExternalServices`, `MCGrading`, `MCSupervisor`, `MCHost`, `MCCourseWork` | instances for TLC; `MCGrading` and `MCSupervisor` also have what comments and usage texts say and the runs refute |
| `ExternalServicesLemmas`, `ExternalServicesProofs`, `GradingProofs`, `LifecycleProofs`, `SupervisorProofs`, `WebServerProofs`, `HostProofs`, `CourseWorkProofs` | theorems |

**Steps.** Dart runs an isolate's code without interruption between awaits, and
the service has one database connection that runs queries in the order they
are issued. A handler is therefore one step per awaited query. A query that is
issued and not awaited (`assignGrader`, `unassignGrader`) is part of the step
that issues it: every later query sees its effect. `findService`,
`pushSubmission` and `assignGrader` have no await between them, so that
choosing, pushing and assigning is the one step `PushSubmissionToGrader`. The
registry has no await at all: each method is a step.

The supervisor is Go: goroutines run in parallel, and the code releases the
mutex of a service between one access to its fields and the next. A step of
`Supervisor` is the code from one access to the next, so that every place where
another goroutine may come in between is a place in `callers` or `monitors`.
`monitorProcess` receives the end of a process from the kernel (`WaitReturns`);
its message over the channel without buffer is one step with the `Stop` that
receives it (`HandOver`). A process may ignore SIGTERM.

`SupervisorService` has the same supervisor with steps as large as a lock
allows, for what happens between services: a `Stop` or a respawn of one service
is a few steps. `Supervisor` justifies this: it shows what the finer steps may
do to a single service. A process of `SupervisorService` is `booting` until it
has installed its handlers, when any signal ends it, then `ready`. Go iterates
over maps in any order (`Orders`).

A tool of `Installation` is one step per file, query or command, and may die
after each. A goroutine of `WebServer` does a step from one access of a shared
field to the next; connecting takes a step of its own, so that others come in
between. In `CourseContent` a handler awaits nothing, so that requests are
served one after the other, but each file is read in two steps, its time and
its content, in the order of the code, since files may be edited meanwhile.
`Deadlines` and `CodeReview` have one step per awaited query or call, and a
transaction is one step: the service has one connection, on which other queries
wait for it. `ProblemLoader` has one per group of files of the directory.
The main loop of a grader awaits `loadProblemData` and then the grading, so that
a grader has one load at a time.

In `Host` the web server is one of the services of the supervisor: it starts
when its process is ready, drops its connections when that handles a SIGHUP,
and ends with it; a panic of the web server is a crash of its process. In
`CourseWork` the review service touches nothing of the other three; it is there
so that one run may look at all four.

`Grading` is composed neither with `Host` nor with `CourseWork`: the supervisor
sees of a grader only that it ends, `Grading` sees of the supervisor only that
a dead grader is started again, and of a problem only that a grading ends.

**Data.** Solutions are a count of files; `files` in a job says how many were
there when it was read. A verdict is `OK`, `CHECK_FAILED` or `WRONG_ANSWER`,
which stands for every other failure, since the service treats them alike. Logs
and test results are the verdict they came from (`output`, `results`). The 15 s
of a failed check are the Boolean `retryDue`, which becomes TRUE at any time
after the push. A status report is composed and arrives in one step, with any
number of idle workers the code may count.

The content of a file of a course is the time of its last edit. A course has
one problem, whose files are also read for the course. Files are of four kinds,
by the times they raise and the order they are read in: the YAML of the course
(its time before its content, that of the course); `problem.yaml`, private
files and sources of programs (before, both times); the template, public files
and styles (content first, only the time of the course); and tests (content
first, only the time of the problem). Statements, whose time nobody reads, are
left out; files listed under `public_files` have their time read first, and are
taken with the template, which is the worse.

In `Deadlines` a row says from which copy of the course and which version of
the schedule it was computed. The statements that delete and insert rows name a
column `courses_id` of `submission_deadlines`
(`deadlines_service.dart:155,162,209`) that the table of the shipped schema
does not have (`yajudge-db-schema.sql:117`). `HasColumn` says whether the table
of a scenario has it. Without it each recomputation fails at its first
statement, and since nobody awaits or catches the transaction, the service ends
and is started again, as often as the course is marked or newly loaded; the
insertion for a new submission fails with an error that is only logged. So
with the shipped schema no deadline is ever stored; the run has a scenario of
it. What the service does where an administrator has added the column is in the
other scenarios, and is what the properties of deadlines are about.

A version of a problem may have a program (one stands for interactor,
coprocess, generator and checker), arguments of tests, and the flag that tests
require a build, or lack them. Of a row of `review_line_comments` the model has
all that `contentEqualsTo` compares. Names of services, files and settings of the
installation are strings as in the code, since the tools sort and compare them.

**History.** `lost` is not in the code: submissions a grader dropped on an
error since its stream was opened. It only lets `AssignedIsHeld` say which
submissions a grader may not know of. `torn` are the submissions whose row and
results two reports stored at a time, or an error or a restart between the
queries, left apart, and that no report has stored alone since. In
`Supervisor`, `overlap` remembers that a `Start` began while another goroutine
was at work on the service, and `wanted` that no `Stop` has returned since the
last `Start`. The same holds for what the modules mark as history: `created`,
`cut`, `edited`; `touched`, `late`, `stale`; `opened`, `dropped`, `quiet`,
`shaky`; `outdated`; the fields `doubtful` and `edits` of `CourseContent`;
`excused` and `missed` of `Deadlines`, and `loaded`. They state exceptions of properties
and are read by no step of the code.

## 3. Properties

`Grading.tla` and `ExternalServices.tla` state them with the code they are
about; briefly:

- `ESTypeOK`: the free capacity the registry counts stays within the workers of
  the grader, although reports overwrite what pushes count down.
- `NoReadyGraderHidden`: `findService` filters with `status != IDLE &&
  capacity > 0`, which keeps full and busy graders as candidates. It still never
  returns a grader that refuses while one that would accept exists, because the
  score of a candidate that is not ready is 0. This is why the filter has gone
  unnoticed, and it would stop being true if the score did not have capacity
  as a factor.
- `SinksSuit`: what waits in a sink requires an architecture its grader has.
- `HeldInv` (`AssignedIsHeld` with its strengthening): a row assigned to a
  grader whose stream lives is in its sink, in its hands or in its report, or
  the grader dropped it on an error.
- `GradedIsFinal`: a graded submission that nothing is pushing stays graded
  unless it is rejudged or its check failed.
- `ResultsMatchRow`: verdict and results of a graded submission come from the
  same report, unless that report is being stored, the submission is being
  rejudged, or two reports at a time, an error or a restart between the update
  of the row and the insertion of the results have torn them apart; the next
  report that is stored alone joins them again.
- `RowsInv`: all that the parts of the system remember has a row, and a report
  under way writes a status a grading may leave.
- `IsLifecycle`, `LifecycleIsFair`: refinement of `Lifecycle`, without and with
  its fairness: a waiting submission is graded in the end.

`Supervisor.tla`:

- `OneProcess`: unless calls of `Start` come together (`overlap`), a service
  has at most one process. The condition is the code's: `Start` checks the
  status under one lock and starts the process under none, so that two calls,
  or a call while the monitor waits to respawn, do start two.
- `DownIsDown`, `TriesBounded`: under the same condition, a service shown as
  stopped or dead has no process, and attempts are bounded.
- `ProcessIsWatched`: even without that condition the process in the field has
  a monitor, or one is about to be started.
- `DeathIsNoticed`, `StopReturns`: a service whose process ended is not shown
  as running for ever; a `Stop` returns. The latter has an exception that is
  the code's as well: `time.After` delivers once, so that a `Stop` whose first
  signal and whose SIGKILL both met a process that had just died waits for
  ever. The property therefore speaks of a `Stop` in whose way not all crashes
  of the budget of two came.

`Installation.tla`:

- `CompletedIsUsable`: when the tool said "Now you can start it", the instance
  has its files, a database with the tables that `InitializeDatabase` creates, an
  administrator, and the password the database expects; with second runs and
  failures at every step. The schema is one command to PostgreSQL whose error is
  only printed; without tables the next step fails. Excepted is an
  empty file an earlier run died over, which the next run takes for installed.
- `WholeFilesKept`: an action property; no tool replaces a complete file.
- `BadSiteCause`: one site that cannot be parsed makes the web server refuse
  all. Such a site is one whose `web.yaml` a tool has just created or died
  over, one that was written by `--grader-only`, which knows no host name, or
  one that was edited. Other half installed instances never are: `web.yaml`
  comes after the endpoints it needs.

`SupervisorService.tla` and `Host.tla`:

- `StaleIsTold`, `OutdatedIsDropped`: a service, and the web server, that has a
  connection to a process that ended is told, or will be. The exceptions of the
  first are the code's: `Start` of a control tool replaces the configuration of
  an instance by one whose name is empty, and notifications go by the name; and
  `instance.go:181` compares the name of the ended service also with that of
  the instance, so that in an instance named `users` nobody hears of the end of
  the service `users`.
- `UntouchedRunsOn`: what happens to one instance ends no service of another.
- `NothingLeftBehind`: after a shutdown no process is left, but those started
  after the signal, and those a control tool was just stopping.
- `SettlesDown`: a SIGHUP ends a service that is booting, which is the end of a
  service, which sends SIGHUP to the others. Nevertheless every behaviour of
  the code, fair or not, starts only finitely many processes after the last
  crash and command: restarts are counted.
- `PanicCause`: the supervisor dereferences nil only for a process that could
  not be started again (the failing `os.StartProcess` of a respawn leaves
  `process` nil, for which the monitor waits next), for the grader of an
  instance that was configured without one when the supervisor was started
  (perhaps by a file a tool was still writing), for a service whose name a file
  has made up, or for an edited file.

`WebServer.tla`:

- `DialsBounded`: connections are made by each request that finds none, and
  never closed; but there are at most as many as requests at a time for each
  time one was dropped.
- `NilOnlyIfDropped`: a request dials, and then reads the field again without a
  lock. It finds nil, and the server panics, only if a SIGHUP came in between.
- `ReloadIsComplete`, `FileServed`: a reload empties the copy and reads file by
  file, and a request looks at the copy twice; still no file that is there is
  answered with the page of the application, and the copy ends up exact.

`CourseWork.tla` and its parts:

- `MissedIsNewer`: whatever a copy lacks is newer than its time stamp, so that
  the next request finds it, although files are edited in the middle of loads,
  loads fail half way, and the grader dies at any place. Excepted are copies
  with a doubtful time, for which the code serves old data with a new time:
  a load of a problem alone raises the time of the course without loading the
  course; of two edits during one load the earlier may be missed while the
  later sets the time; and an edit that comes between the content and the time
  of a template or a test is missed with its own time. For graders, changes of
  templates, public files and styles are excepted as well: they do not raise the
  time of the problem, and no grader ever hears of them by themselves.
- `DeadlinesAreCurrent`: when the service rests and the course is not marked,
  every row was computed from the schedule as it is and from a course whose
  changes will be seen. Excused are submissions and changes of the schedule
  that came during a recomputation (its commit deletes the rows of the first
  and resets the mark of the second), failed calls, and a query of the
  schedule that failed and was taken for an empty schedule. Checks overlap,
  since the timer does not wait for them; one that began before another has
  found a newer course may commit after it, and its rows, which are excused
  too, stay although the time of the newer course is remembered.
- `DirtyIsServed`: a marked course is recomputed in the end. An error in a
  check ends the process, and the time stamp was remembered before; only the
  restart makes it right.
- `LoadedIsWhole`: a solution is graded with every part that the version of its
  problem has as that version has it, and the time stamp is that version's,
  whatever loads died half way before, since the time stamp is written last.
  Nothing is deleted: a program, the flag or arguments that only an earlier
  version had are still there and are used
  (`submission_processor.dart:65,276`), which the property allows. A compiler
  that fails when a binary is there leaves that binary, under the new time
  stamp, until the problem changes again. A grader that dies between creating
  `.timestamp` and writing it leaves an empty one, on which every later load of
  that problem throws.
- `OneReview`, `AppliedIsStored`: a submission has one review, and what
  `applyCodeReview` returned for is stored, each comment once, whatever earlier
  calls left half done; unless two calls were at work on it at a time, when
  both may insert, and every later call throws.

## 4. Runs

Each `Budget` bounds how often events happen that could repeat for ever:
crashes, broken connections, errors, service restarts, retries, rejudges and
reviews. `MaxRuns` bounds overlapping queue runs, `MaxSink` a sink in
`registry`. One rejudge or fault of a kind may come at every point of the
steps of all others; what a second one could add is that two of them overlap,
which the proofs of section 5 cover for what they prove, and the runs do not.
`host` and `course_work` start in one of several scenarios, each with budgets
of its own: what hardly meets is not combined, so that what meets can be larger.

| Run | Instance | Shows |
|---|---|---|
| `registry` | 3 graders: slow and picky, fast with 2 workers, other architecture; 38 000 states | `ESTypeOK`, `NoReadyGraderHidden`, `SinksSuit` |
| `faults` | 1 submission of 2 files, 1 grader with 2 workers, one of each fault; 696 000 states | `HeldInv`, `RowsInv`, `ResultsMatchRow` |
| `teachers` | 1 submission, 1 grader, 2 overlapping runs, a rejudge, a review and an error; 936 000 states | `ResultsMatchRow`, `GradedIsFinal`, `IsLifecycle` |
| `two_graders` | 2 submissions, 2 graders of different architecture, size and speed; 531 000 states | `HeldInv`, `ResultsMatchRow` |
| `fair` | 1 submission, 1 grader, a crash, a lost connection, a service restart; 50 000 states | `LifecycleIsFair` |
| `supervisor` | 2 callers, 2 monitors, 2 calls of `Start` and of `Stop`, a crash, a failing start, monitors slower than the timeout too; 639 000 states up to symmetry of callers and of monitors | `SVTypeOK`, `OneProcess`, `DownIsDown`, `ProcessIsWatched` |
| `supervisor_fair` | 1 caller, 2 monitors, 2 crashes; 149 000 states | `TriesBounded`, `DeathIsNoticed`, `StopReturns` |
| `host` | 15 scenarios of at most 2 instances of 2 services, a grader, 5 monitors and 2 requests: two tools that fail, die and run again; crashes of a service, of the web server; processes that cannot be started; an instance named like its service; commands; shutdowns; edited files; bursts of requests; reloads; a proxied site; 250 000 states | the properties of `Installation`, `SupervisorService`, `WebServer` and `Host` above, and their types |
| `course_work` | 12 scenarios of a course and its problem, 2 submissions, 2 overlapping checks, a grader, 2 teachers and 3 reviews: edits, broken files, changes of the schedule, solutions, failing queries, compilers and calls, deaths, the table without its column; 513 000 states | the properties of `CourseWork` and its parts |
| `rejudge_all` | 2 submissions, 1 grader, 1 bulk rejudge | violates `RejudgesAll` |
| `review_kept` | 1 submission, 1 grader, 1 review | violates `ReviewKept` |
| `stop_stops` | 1 caller, 1 `Start`, 1 `Stop`, 1 crash | violates `StopStops` |

`fair` has no errors: an error in grading leaves a submission assigned until
the grader opens its stream anew, and nothing forces it to. That is what the
code does; the property does not hold with errors.

**Fairness** (`FairSpec`): the timers fire again, a handler goes on after an
await (the database answers), a grader goes on with its loop and ends each
grading with some result (builds and tests have time limits), and a dead
grader is started again (the supervisor, or systemd). Weak fairness is enough:
none of these is disabled again and again by others while it waits. No
student, teacher, reviewer or failure is forced to act. The fairness of
`StartGrader` assumes a supervisor that does not give up; the real one stops
after `MaxTries` crashes in a row.

`Supervisor` runs without the check for deadlock: a supervisor that nobody
calls rests, and a supervisor that panicked is gone. Two monitors are enough:
each of the two calls of `Start` starts at most one. In its `FairSpec`
goroutines go on, `time.After` fires, and a monitor whose process has ended
goes on; no process has to obey SIGTERM. `Timely` is TRUE there: the timeout
(seconds) does not fire while a monitor is between the end of a process and
the start of the next one (`restart_interval_ms`, 250 in `server.yaml`). With
`Timely` FALSE, `StopReturns` does not hold: the only SIGKILL of a `Stop` may
then be sent to a process that is dead already. The run `supervisor` has
`Timely` FALSE.

`host` needs no fairness: `SettlesDown` holds for behaviours that stop anywhere,
too. It runs without the check for deadlock, as a machine nobody uses rests.
Two instances are enough, since an instance meets another only in the
supervisor and the web server; 5 monitors are one for each of the services a
scenario runs, and those that are being replaced. A request more than `r1` and
`r2` would meet them as these meet each other.

In `course_work` (`FairWork`) the content service answers, and the timer of
checks and its awaits go on. No edit, solution, teacher or failure is forced,
and none is needed for `DirtyIsServed`. The run has no check for deadlock since
scenarios without the deadlines service end. Two edits and one expiry are what
the exceptions above need at most, two checks and two teachers what it takes
for calls to meet, two gradings what it takes for one to find what a failed
load has left; `WithOptions` makes every other version of a file have options,
so that leftovers occur. Three reviews are what it takes for a review to
replace one that was stored over a failed one.

### Findings

- `rejudge_all`: a bulk rejudge (`submissions_service.dart:945`, "rejudge all
  problem submissions within course") casts `grader_name` to `String` after
  each submission. It is null for one that is queued and not assigned, and the
  exception ends the handler with the rest not rejudged.
- `stop_stops`: `Stop` (`yajudge_control.go:60`, "stop instance services")
  returns at once if `process` is nil, which it is while the monitor sleeps
  before a respawn; the monitor then starts the service again.
- `review_kept`: `updateGraderOutput` reads the status and writes it in
  different queries, although it means to "not change submission status in
  case of review processed" (line 600). A review in between is overwritten.

## 5. Proofs

All theorems are for every value of the constants: any sets of submissions,
graders, instances and requests, any number of files, workers, processes and
failures. They rest on the named assumptions of the modules about the types of
the constants, which every run evaluates.

- `RegistryTypeCorrect`, `ReadyGradersAreFound`, `SinksAlwaysSuit`: the
  registry. `NoReadyGraderHidden` is not about steps at all: it follows from
  `ESTypeOK`, since ratings are positive and a ready grader has a positive
  score, so that the winner has one too and was not let in by the filter as
  busy.
- `TypeCorrect`: one lemma per group of actions.
- `HeldInvariant`, `AssignmentsAreHeld`: the assignment of a row is written in
  the step of the push, and the sink is lost only with the stream
  (`canceled`) or in `Connect`, which unassigns in the same step. That alone
  is not inductive. A grader might skip a submission as being in progress, so
  the invariant has to say that it does this only with what it has lost
  (`PassedOverIsLost`); and a report might be the answer to another
  submission's, so it has to say that the handler a grader awaits is its own
  (`ReportIsOwn`).
- `GradedStaysGraded`: an action property, from `TypeOK` alone.
- `ResultsAreOfTheRow`: `updateGraderOutput` and `rejudge` write the row and the
  results in queries of their own, without a transaction. `TogetherInv` says of
  a submission that is not torn that one handler at most is between the two
  (`Storing`), that what it will insert belongs to the row as it stands, and
  that without such a handler the results are those of the row. Who starts to
  store over another tears the two apart, and so does who fails half way;
  storing alone deletes what is there first, and so mends it.
- `SinksSuitGraders`: the registry alone suits sinks by `findService`; a queue
  run of the whole system pushes from a snapshot and reconnects meanwhile. The
  grader is chosen by `findService` in the step that puts into its sink,
  however old the snapshot is, and a new stream starts with an empty sink.
- `WhatIsHandledHasARow`, `GradingImplementsLifecycle`: refinement. Each step
  changes the stage or status of at most one submission, or, in `Connect`, of
  none, since unassigning maps waiting to waiting. `RowsInv` excludes reports
  of submissions that do not exist.

- `SVTypeCorrect`, `NeverTwoProcesses`, `DownMeansDown`, `RespawnsAreBounded`:
  the supervisor, for any number of callers, monitors, attempts and events.
  The inductive invariant `SVInv` says what makes the code work without a lock
  over the whole of `Start`: at most one goroutine starts or monitors a process
  (`Exclusive`), that goroutine knows the process that lives (`StarterKnows`,
  `MonitorKnows`), and none lives if there is no such goroutine
  (`NoneIsForgotten`). A `Stop` writes fields in `Stopped` only, after the
  monitor that told it is gone.
- `ProcessesAreWatched`: inductive by itself, whatever calls come together.

- `WebTypeCorrect`, `DialsAreFew`, `NilIsDropped`, `ReloadsAreComplete`,
  `FilesAreServed`: the web server, for any sites, files and numbers of
  requests, under a specification (`WebSpec`) in which its process starts and
  ends and files change at any time. `DialsInv` counts: an endpoint without a
  connection has had at most `K` per drop, where `K` is the number of requests,
  and one with a connection at most `K` more, those that dial now included; for
  a request dials only if it found nil, and none finds nil after the first has
  connected. `CopyInv` says of a reload under way that what is wrong in the
  copy is still in the list to be read; `ServedInv` that a request sent to the
  page of the application is for a directory that lacked a file.
- `HostRunsWebServer`: refinement; whatever the supervisor and the tools do,
  the web server of `Host` behaves as `WebSpec` says. `HostServes` carries the
  invariants over.
- `InstallTypeCorrect`, `CompletedInstancesAreUsable`, `BadSitesAreCaused`,
  `WholeFilesAreKept`: the tools that install a machine, for any instances,
  settings and passwords of which `"none"` is not one, and with deaths of a tool
  between any two steps. The invariant of the files says that a tool has only
  files of its own instance before it and a site after its endpoints
  (`WorkInOrder`), that what it still has to write and what is there make up
  all files of the instance (`NoneLeftOut`), that a file is empty only while it
  is written or when a tool died over it (`EmptyIsCut`), and broken only by an
  administrator (`BrokenIsEdited`). `ReachableInv` says at which places
  of a tool the database of its instance can already be logged in to with the
  password in its file, and that this file is only ever written on a machine
  where nothing with a database was reported yet.
- `UntouchedServicesRunOn`: the supervisor over its instances. Two ways lead
  from one instance to another: the queue of a call, and the SIGHUP that the
  end of each service sends. `StopsTouched` says that what is in the queue of a
  call to stop is of an instance somebody gave a command for, also after a star
  was expanded or `restart` went on to start; `KeepsItsName` that an instance
  has lost its name in the table only by a `start` of its own, so that a
  SIGHUP, which is sent by name, stays in the instance; `ProcessIsIts` that the
  process in the table is one of that service. With `NoneHasEnded` these are
  inductive. `CallsConfigured` and the types are there for the queues.
- `StaleServicesAreTold`: who holds a connection to a service that ended is told.
  A process ends in many ways (a crash, a `Stop`, a SIGHUP while it boots), and
  may be replaced before its end is noticed. `ChainInv` follows the chain from
  the process to the message: each live process has its monitor, a service
  shown as stopped has none, what has a signal pending lives. `StaleTold` then
  says of each stale connection where on that chain its news is (`Told`). The
  steps of the supervisor are first reduced to a common form (`Effect`: what a
  step may end, start, show and send), so that each invariant is proved once
  for that form and not for thirty actions.
- `NothingIsLeftBehind`: `main` queues all services when the signal comes. While
  it works through the queue, each service waits in it (`Waits`) or is down for
  good (`Done`), though others start, stop and respawn meanwhile; before the
  first start nothing runs (`NothingRunsYet`).
- `OutdatedConnectionsAreDropped`: joins the supervisor and the web server. The
  server runs exactly while a process of its service is ready, and there is one
  at most (`ServerRuns`); connections are only made to endpoints of loaded sites
  (`ConnectedToSites`, `AskedOfSites`), so that the goroutines a SIGHUP starts
  come to each of them.
- `HostTypeCorrect`: the types of all parts, and that the web server has state
  exactly while a process of its service listens.
- `NilIsCaused`: `Start` and `Stop` look a service up in a map and use what they
  find. `CauseInv` follows the names from the files (`ConfigNames`) through the
  expansion of stars and the queues (`QueueNames`). The attempt to prove the
  property showed that it was false as first stated, for an instance whose
  files were half written when the supervisor started, which none of the
  scenarios then run met; the statement is now the one of section 3.
- `ReviewTypeCorrect`, `ReviewsAreSingle`, `AppliedReviewsAreStored`: the review
  service, for any teachers, submissions, reviews and failures. `ReviewIInv`
  says of a call that no other is near (`Careful`) what its queries have
  achieved at each place (`CallDone`): no review before the insertion, no
  comments after the deletion, all but those still to be written during the
  insertions. `Apart` says that a call at work has no careful one beside it;
  the rows of another submission are another review's (`SameOf`). That
  `contentEqualsTo`, which only counts comments and looks each up, finds
  equality is `EqualIsStored`: comments are of different lines, so that the
  look-up is injective, and as many, so that it is onto.
- `WorkTypesCorrect`, `MissedChangesAreNewer`, `LoadedProblemsAreWhole`,
  `DeadlinesStayCurrent`: the rest of course work, for any submissions, checks,
  clients, edits, failures and deaths, under the assumption that the checks and
  calls of the deadlines service and the grader are different clients of the
  content service (`CourseWorkAssumption`). The content service is proved
  alone, with what the others may rely on (`Guarantee`: files only become
  newer, so that what would be found is still found; of a call it changes
  nothing but the answer; no later answer has an earlier time). `ContentInv`
  says of its caches, of a load under way and of each answer that what it
  lacks is newer than the time it carries. In a load (`Reading`) what was read
  lacks nothing if nothing was edited; after one edit it may lack that one,
  which is then the latest of all, and whose time is not to be read any more
  (`Overlooked`). This is why one edit between the content and the time of a
  file already makes the load doubtful. `NoneNewer` says that nothing is cached
  that never was.

  `LoaderInv` says what a load has written at each place (`Written`); that a
  directory that is not whole has a time stamp below that of every answer to
  come (`Promised`); and that whatever is in the directory, also of a load that
  came after and died, has each change up to the time stamp (`LoadedKnown`).
  `DeadlinesInv` has, for checks that overlap, no single time to compare with.
  `Seen` are the times that the service remembers, and those that a check waits
  for an answer with, which may be remembered again. A row is right (`Good`) if
  its course is not older than any of them. Each check is up to date with all
  of them, or has been noted (`missed`) as one whose rows may be wrong; what it
  has computed is right for the submissions it has not missed
  (`ComputedRight`); and when no check has more to do than ask, each submission
  has its row or is about to get it (`InsertRight`).

**Model-checked only.** `LifecycleIsFair`, `DeathIsNoticed`, `StopReturns` and
`DirtyIsServed` are liveness under fairness, and `SettlesDown` is liveness
without; the prover does not reach them. All other properties of the passing
runs are theorems. What a run adds to them is that the exceptions they state
are few and real: the mutants of `PROJECT.json` break each property within the
bounds of its run.

## 6. Not modelled

`PROJECT.json` gives the reason for each component; in short:

- Submissions service: access checks, lists, filters, diffs and notifications,
  and calls that nothing makes (`takeSubmissionToGrade`, `deregisterService`).
- Isolates and verdicts of a grader: planned, see below. The sandbox: mounts,
  cgroups and processes, whose behaviour is the kernel's.
- Supervisor and web server: pipes, log and pid files, uptimes; TLS, gRPC
  framing, redirection and HTTP/2 push, which keep no state.
- Installation: nginx, systemd, directories and permissions; demo courses,
  which are data.
- Content: the list of courses and the parsing of YAML; the arithmetic of
  schedules.
- Progress, courses, users, sessions: single queries behind access checks, and
  subscriptions. The client: screens.

`map` lists the definitions that stand for code of their own. Helpers of a line
or two (a lookup, a place, a budget) are covered by the lines of the definition
that uses them.

## 7. Plan

1. Done: submissions, registry and grader (`Grading`, `Lifecycle`), their runs
   and proofs.
2. Done: `Supervisor`; `SupervisorService`, `Installation`, `WebServer` and
   `Host`; the proofs of all their safety properties.
3. Done: `CourseContent`, `Deadlines`, `ProblemLoader`, `CodeReview` and
   `CourseWork`; the proofs of all their safety properties.
4. Done: `ResultsMatchRow` with several graders, errors and restarts.
5. `Verdict`: stages of `submission_processor.dart` as functions over test
   results, checked against a reference over all small inputs; isolates and
   their failure joined to `GraderService`.
6. `Subscriptions` and `Progress`: lists of listeners against notifications;
   scores as functions of rows.
