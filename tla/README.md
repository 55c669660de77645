# A verification of AI-Quartermaster

AI-Quartermaster (`src/`) is a Node.js daemon that turns labelled GitHub issues into pull
requests: it polls or is told of issues, queues a job for each, and runs a pipeline that
plans the work, has Claude implement it phase by phase in a git worktree, reviews, validates
and publishes it.  A web dashboard shows and steers it.  This directory holds TLA+ models of the
parts where the program's own state and concurrency live, TLC configurations that check them on
small instances, and proofs, checked by TLAPS, of their most important properties for every
instance.

Contents: 1 inventory, 2 modules, 3 runs, 4 findings, 5 proofs, 6 limits, 7 plan.

## 1. Inventory

Node runs one callback at a time; everything below interleaves at `await`s only, except where
processes meet: commands beside the daemon, children, browsers, git, GitHub.  A handler is the
promise of one pipeline run; several run at once.

| component | state | operations | hard behaviour | correct when |
|---|---|---|---|---|
| **Job queue** `queue/job-queue.ts`, `job-lifecycle.ts`, `stuck-monitor.ts` | cancel and stuck flags, jobs being executed, `isShuttingDown` | `enqueue`, `retryJob`, `cancel`, `recover`, `shutdown`, `execute`, `checkStuckJobs` | a cancel or a stuck verdict ends the job but not its handler, which reports later; `retryJob` and the webhook await between check and act; the process dies anywhere | one active job per issue; rows, queue, slots and handlers agree; a job that ended stays ended |
| **Scheduler** `queue/job-scheduler.ts`, `dependency-resolver.ts` | pending list, running set, counter per repository, last served repository, limits | `processNext`, `markJobFinished`, `markStuckAborted`, `setConcurrency`, `setProjectConcurrency` | round robin recomputed at each take; deferral and re-examination; slots given away early | limits hold at each start; repositories take turns; nothing deferred is forgotten |
| **Store** `queue/job-store.ts`, `job-logger.ts`, `json-migrator.ts`, `store/database.ts` | tables `jobs`, `phases`, `logs`, cache of active jobs, JSON files of older versions | `create`, `update`, `archive`, `prune`, `findAnyByIssue`, rewriting of logs and phases, migration | a call is several statements and the process may end between them; what a restart loses | rows in use survive; cache and rows agree; a migrated job is there with all its lines and phases or not at all |
| **Error tracker** `queue/project-error-tracker.ts` | failures and pause per project | `trackFailure`, `trackSuccess`, pause, resume | expiry without an event | consistent slots and rows under pauses |
| **Event sources** `polling/issue-poller.ts`, `server/event-dispatcher.ts`, `server/routes/jobs.ts`, `cli.ts` | issues being checked | poll, poll of failed jobs, webhook, rules, dashboard | all race with one another and with handlers | see job queue |
| **Repository lock** `git/repo-lock.ts` | promise chain per repository, lock files | `withRepoLock` | a chain in the process and a file between processes; a dead owner leaves its file | mutual exclusion; the next in line proceeds |
| **Core loop, phase scheduler and executor** `pipeline/core/core-loop.ts`, `pipeline/execution/*` | phase results, groups | `runCoreLoop`, `schedulePhases`, `executePhase`, retry | phases of a group run at once in one worktree; retries reset it | dependencies first; a failed phase stops its dependents; recorded work stays |
| **Pipeline** `pipeline/core/orchestrator.ts`, `pipeline/phases/*`, `pipeline/errors/*` | pipeline state, checkpoint file, worktree, branch | setup, plan, execute, review, validate, publish; resume; rollback | crash and resume between any two stages, early exits, retries with other artifacts around | a run publishes its own work, all of it, and nothing that was not validated |
| **Review** `review/*`, `pipeline/phases/pipeline-review.ts` | the diff under review, results of rounds, attempts to fix | analyst, rounds with retries, split into batches, fix loop | the diff is read before fixes are committed; a diff too large is divided | what passes was read, all of it, as it will be published |
| **Claude runner** `claude/*`, `tasks/claude-task.ts`, `withRetry` of `utils/*` | `activeProcesses`, a timer per child, attempts | run, kill, retry, kill all | timeout, kill, monitor, shutdown and retry act on the same child | every child is known; every call returns |
| **Tasks** `tasks/*` | state per task | run, kill, timeout, rollback | a rollback beside an operation that goes on | what is reported as done is there |
| **Pull requests** `pipeline/phases/pipeline-publish.ts`, `github/*`, the poller | conflicts told, errors per repository, pauses | create, rebase, mark ready, merge, watch | gh fails, people merge and close, the base branch moves | dependencies merge first; a conflict is told, once |
| **Daemon** `cli.ts`, `server/pid-manager.ts`, `update/self-updater.ts` | PID file, timers | start, graceful restart, self-update, signals | a stop that becomes an update, an update that ends in nothing, deaths anywhere | one is up in the end, of the version released, and serves |
| **Configuration** `config/*`, `server/routes/config.ts`, `projects.ts` | two files, the daemon's copies, what it has set up from them | load, validate, watch, save, apply | hand edits, pages and commands within one debounce; invalid in between | the daemon comes to run with what the files say |
| **Dashboard server and pages** `server/*`, `server/public/*` | event streams, lists, filters, forms, requests under way | connect, poll, list, cancel, retry, delete, save | answers in any order, streams lost and evicted, other pages that save | a page comes to show what the daemon has, and a save changes what its user changed |
| **Doctor** `doctor/*`, `server/routes/doctor.ts`, `public/js/doctor.js` | one heal process, its modal | run checks, heal with one click, heal in a terminal | a heal is replaced, closed, killed | the page comes back |
| **Setup wizard** `server/routes/setup.ts`, `public/js/setup.js`; `setup/*` for the terminal | steps, answers under way | validate token, choose repository, make labels, preview, apply | the user goes back while answers come | the repository configured has its labels or was reported |
| **Notifications** `server/routes/notifications.ts`, `skip-events.ts` | tables, cards, badge, rows | list, read, delete, filter | deletions fade on a timer while lists arrive | page and badge agree with the tables |
| **Stuck detector** `queue/stuck-detector.ts` | timestamps | `checkJobStuck` | thresholds against Claude's activity | an active job is not taken for stuck |
| **Automation rules** `automation/*` | timers, rule state | evaluate, dispatch | races with the poller | a rule fires once for an event |
| **CI checker** `pipeline/automation/ci-checker.ts` | - | none: the pipeline skips it (`pipeline-phases.ts:690`) | - | - |
| **Hooks**, **guards** `safety/*`, **prompts**, **learning**, **types** | none of their own | pure functions and I/O | none | - |

`PROJECT.json` lists each with its status, and under `hazards` the lines of code where these
behaviours bite.

## 2. Modules

| module | models | notes |
|---|---|---|
| `Projects` | the repositories, issues and dependencies a daemon is configured with | constants only |
| `JobStore` | status column and caps of `job-store.ts` over `database.ts` | job numbers are the order of `created_at`; the cache agrees with the table by construction of `update` and is no variable |
| `ProjectErrorTracker` | `project-error-tracker.ts` | pause expires by a step of its own, for the clock |
| `JobScheduler` | `job-scheduler.ts`, `dependency-resolver.ts` | one iteration of `processNext`'s loop is one step |
| `JobQueue` | `job-queue.ts`, `job-lifecycle.ts`, `stuck-monitor.ts` and every caller: poller, webhook, rules, dashboard, signals, restart | composes the four above |
| `IssueDesk`, `JobQueueDesk` | what the queue promises of an issue, and the refinement mapping from `JobQueue` | abstract specification |
| `JobQueueClaims`, `MCJobQueue` | a sentence of the docs that the code does not keep; instances | section 4 |
| `PhaseScheduler` | `phase-scheduler.ts` with the normalisation and checks of `plan-generator.ts` | pure: positions, dependencies, file conflicts, the next group, as operators over a plan |
| `CoreLoop`, `MCCoreLoop` | `core-loop.ts`, `claude-phase-executor.ts`, `phase-retry.ts`, `rollback-manager.ts`, `commit-helper.ts` | phases at work side by side in one worktree with one index and one branch; git and the retries step by step |
| `Pipeline` | `pipeline/core`, `phases`, `setup`, `errors`, `reporting`, `retry-with-fix.ts`, `simplify-runner.ts`, `git/branch-manager.ts`, `worktree-manager.ts` | the runs of one issue, one after another, and what each leaves to the next; the phases of `runPipeline` are operators of their own; the core loop level by level |
| `RepoLock` | `git/repo-lock.ts` | every call, in every process, that wants one repository |
| `Review` | `review/*`, `pipeline-review.ts` | a diff is a sequence of files with a size; `head.version` counts the fixes committed |
| `ClaudeRunner` | `claude-runner.ts`, `claude-task.ts`, `withRetry` | a child is a record with its one timer; `active` is `activeProcesses` |
| `Tasks` | `git-task.ts`, `validation-task.ts`, `task-factory.ts` | one task of any kind |
| `PullRequests` | `pipeline-publish.ts`, `pr-creator.ts`, `rebase` of `branch-manager.ts`, `dependency-resolver.ts`, the watch of `issue-poller.ts` | one repository, several issues |
| `MCExecution` | the five above but `Pipeline`, part by part | composition |
| `Daemon` | `cli.ts` start, `pid-manager.ts`, `self-updater.ts`, `routes/version.ts` | processes one after another over one PID file, source tree and table |
| `ConfigFile` | `loader.ts`, `validator.ts`, `config-watcher.ts`, routes of configuration and projects, `automations.js`, hot reload of `cli.ts` | from the three files (the user's, `config.yml`, `config.local.yml`) to what queue and scheduler were told |
| `JobRecord` | `job-store.ts`, `job-logger.ts`, `json-migrator.ts` and the rows of `database.ts` | a crash between any two statements |
| `MCService` | these three and the core loop, part by part | composition |
| `Dashboard` | `sse-manager.ts`, `routes/sse.ts`, `connectSSE` | connections, evictions, heartbeats, reconnection timers |
| `JobBoard` | `render-jobs.js`, `kanban.js`, `modal.js`, job actions of `app.js`, `routes/jobs.ts` | list, details, questions, requests |
| `Notifications` | end of `app.js`, `routes/notifications.ts`, `skip-events.ts`, their tables | two views and a badge |
| `SettingsForm`, `MCForm` | `render-settings.js`, settings part of `app.js`, `schema-meta.ts` | five settings, one of each way to be shown and saved; the mark of a preset on each field (the page's own chip, which means less, is in section 4) |
| `Doctor`, `Setup` | `doctor/*`, `routes/doctor.ts`, `doctor.js`; `routes/setup.ts`, `setup.js` | page and server together |
| `MCPages` | the six modules of pages, page by page | composition |
| `SequenceLemmas`, `JobQueueProofs`, `JobQueueSafety`, `CoreLoopProofs`, `PipelineProofs`, `ExecutionProofs`, `ServiceProofs`, `PageProofs` | proofs | section 5 |

How code becomes actions.  Node runs a callback from one `await` to the next without
interruption, so such a stretch is an action, with all the store writes it makes; what comes
after the `await` is another action, and everything else may run in between.  `retryJob`
is therefore `RetryJob` (checks, then the cleanup is awaited; the call is counted in
`retrying`) and `RetryEnqueue`; the webhook of an issue with dependencies is
`WebhookCheck` (circularity) and `WebhookEnqueue` or `WebhookDefer` (the PR check has
answered; the issue is in `checked` meanwhile).  `processNext` has no `await` but a loop: the
model takes its iterations one by one, and the variable `loop` keeps every other action out
until `EndDrain`.  `execute` is `StartJob` up to its `await` of the handler and one action for
each way the handler can end; between the two the job is in `executing`, whatever its row says.

The state of the queue maps as follows: `status`, `info`, `published`, `priority` are columns (and
the cached priority, which the table does not hold); `pending`, `running`, `runningByRepo`,
`lastServedRepo`, `concurrency`, `projectConcurrency` are the scheduler's fields; `kicks` the
`setImmediate`/`setTimeout` calls of `processNext` not yet run; `cancelled` and
`stuckAborted` the sets shared with the lifecycle; `paused` and `fails` the tracker's maps.
`Restart` is the death of the process at any step and the start that follows: variables that
are not in the store are reset.

In `CoreLoop`, `Pipeline` and `RepoLock` each awaited call of git, gh, Claude or the file system
is an action, because others may act (`CoreLoop`) or the process may die (`Pipeline`,
`RepoLock`) while it runs.  Work is not text but a set of units: `<<phase, attempt>>` in
`CoreLoop`, `<<stage, n, run>>` in `Pipeline`.  A branch is the set of units it holds beyond the
base, a commit is the set it would have as HEAD, the worktree holds `dirty` units besides, and
`git reset` puts an earlier set back.  That is what the properties tell apart: whose work is
in a branch and whether all of it is.

`CoreLoop`: `stage` is where `runCoreLoop` is, `at[p]` where the promise of phase `p` is, `recorded`
the successes in `phaseResults`; `head`, `staged` and `dirty` are what git knows.  The loop hands
out groups through the operators of `PhaseScheduler`.  `Pipeline`: `pc` is the await the run is at;
`from` is what it resumes from and `checkpoint` the file; `local`, `origin`, `worktree`, `dirty`,
`pr` and `lock` are what is left on disk and on GitHub when the run ends in `Fail` or `Die`.  `Step`
is `runPipeline`: `ExecuteInitialSetupPhases`, `ExecuteEnvironmentSetup`, `ExecuteCoreLoopPhase` and
`ExecutePostProcessingPhases` are the functions of those names.  Its core loop is `CoreLoop` without
groups by file, index and failing commands: the phases of a level (`StartLevel`, `EndLevel`) share
the worktree, a failed attempt takes its checkpoint (`Checkpoint`) and some time later puts the tree
back to it (`Reset`), and what others of the level have done since is gone with it, whether
committed or not; `lost` keeps account of that.  A phase that succeeds is `PhaseSucceeds`, the loop
that fails is `CoreLoopFails`.  `AcquireLock` and `CreateWorktree` are the two ends of `RepoLock`'s
`fn`.

`Review` runs from the diff that is read (`RunReviewPhase`) through the analyst and the rounds to
`Verdict`; every call of Claude still to be made is in `calls` with the files it will read, so a
diff in batches is read call by call.  A round that does not fit the prompt makes no call
(`ReviewCalls`): what it divides is not the text of the diff but an object printed as one (section
4); only the analyst divides the text (`AnalystCalls`).  `FixAttempt` commits and reads the diff
again.  `ClaudeRunner`: `Exits` and `Close` are the operating system's two events, the second of
which settles the promise; `Timeout` and `KillTimer` are the child's two timers; the child of a task
in `Stubborn` may ignore SIGTERM (`Ignores`), and one that has ignored its timeout `Defies` it.
`PullRequests`: `pub[i]` is where `pushAndCreatePR` is for an issue, `poll` where the poller is;
`Merges`, `BaseMoves` and `PersonChanges` are GitHub and people.  A call of gh that fails may have
had its effect (`CreateDraftPR`, `CommentOnIssue`); the `catch` around the check of dependencies,
which merges anyway, is `GoesOnAnyway`, and `waived` remembers for whom.

On the pages an action is what one callback of the browser or one handler of the server does:
requests and answers are sets or sequences, according to whether they may overtake each
other; `requests`, `asked`, `calls`, `loads`, `metas` hold what is under way.  The module of a page
holds the routes it calls as well, since a property of a page is one of both ends.

Composition.  `JobQueue` composes store, scheduler and tracker over shared variables, `CoreLoop` the
phase scheduler, which `MCCoreLoop` gives its plans.  `MCExecution`, `MCPages` and `MCService`
extend modules that share no state (`MCPages` instantiates those whose names clash): in each
behaviour `part`, fixed at the start, says which of them works, the others stay in one initial
state, and the state space is the sum of theirs.  A fairness condition of a module becomes `WF(part
= "x" /\ A)`, and a liveness property has the form `<>[]P`, which TLC checks for all parts in one
pass.

## 3. Runs

| run | instance | states | question |
|---|---|---|---|
| `stuck` | one issue, two jobs, two priorities, concurrency 1 or 2, two retry calls in flight | 1.3 M | do rows, slots and handlers agree under cancels, stuck verdicts, late handlers and retries |
| `restart` | two issues of one repository, three jobs, tables capped at 2 and 1, one slot, the repository's limit changed between 1 and 2 at run time | 1.3 M | is there one active job per issue, is every queued row in the queue, are limits kept at every start, does the queue keep the promise of `IssueDesk`, with crashes and prunes |
| `live` | three issues in two repositories, one depends on another; cancels and stuck verdicts | 303 k | does a queued job get a decision, do repositories take turns |
| `pipeline` | two runs, plans of one or two phases, one level or two, one retry, every rollback strategy; worktrees that cannot be removed, branches that cannot be listed | 903 k | what is in the branch and in the pull request after any history of failures and deaths |
| `execution` | lock: three calls in a daemon, one in a command; review: 43 settings, three diffs; Claude: two calls, one with a retry, a killer and a child that may ignore signals; tasks of every kind; pull requests: two issues, the second depends on the first | 613 k | `OneOwner`, `OneTurn`, `CallsReturn` (lock); `PassedOnHead` (review); `ChildrenTracked`, `CallsEnd` (Claude); `SuccessIsKept` (tasks); `AutoMergeWaits`, `ConflictsTold` (pull requests) |
| `pages` | one page of each kind, two or three things its user does, one lost request or connection | 621 k | does the live list catch up (`CatchesUp`), does the board settle (`BoardSettles`), and the notifications (`NotificationsSettle`); does a save keep what was left alone (`UntouchedStays`), is a field marked with a preset's name the preset's (`MarksAreTrue`); does the doctor come back, does the wizard complete |
| `service` | core loop: plans of up to three phases, and one over the limit of three, in both numberings, with and without common files, one retry, two attempts at a plan, resumed with nothing or phase 0, resets may fail; configuration: two projects, three changes, one page; daemon: three processes, two versions, two stops; record: three jobs, two of them from files, two crashes | 910 k | loop: do dependencies come first (`DependenciesFirst`), are files never shared (`ConflictsApart`), is success complete (`SuccessIsComplete`), does recorded work stay (`RecordedWorkStays`), does the loop end (`LoopFinishes`); does the daemon follow its files, does one serve in the end, is what the record says kept |
| `claim_*` | the instance of the passing run, or the smallest one | - | section 4 |

Bounds.  `MaxJobs` bounds the jobs created: two for one issue give a job and its successor, which
every hazard of retries needs, and three over two issues a successor next to a competitor.
`StoreCap` and `BootCap` are the caps of the two prunes (1000 rows in `JobStore`'s constructor,
`maxJobs` at start), small here so that pruning happens.  `MaxRetryCalls` = 2 lets two clicks on
"retry" overlap.  `PauseThreshold` = 2 in `stuck` pauses a project after two failures.  Two
repositories suffice for turns; a third would only be another competitor.  In `restart` two jobs
wait for one slot, and the limit of their repository binds beside it: a stuck job gives its slot
back at once, but counts against the repository until its handler returns.  In `live` two
repositories wait for one slot.  A run names the events it exercises in `Events`; between them the
passing runs exercise all of them.  `CHECK_DEADLOCK FALSE`: a daemon with nothing to do waits for
the outside, and a behaviour that has used up a bound may have no step left.

Three phases are the fewest with a chain, a fork and a file that skips a neighbour; a fourth phase
serves only to exceed the limit.  Two runs are the fewest in which one finds what another has left:
branch, worktree, checkpoint and pull request; all that a third would add is a longer history, which
the theorems cover.  `MaxRetries` = 1 in these two gives one failed attempt and one repeated one, so
each of two phases of a level can take the other's work.  Three calls of the lock are the fewest in
which the entry of a queue can be deleted between a newcomer and its predecessor; a retry of the
file's creation succeeds or gives up, so two are enough for both.

In `execution` the diffs are one that fits the prompt, one in several batches with a file that fits
in none, and one that cannot be divided; the second task of the runner is there to be alive when the
first is killed.  In `pages` the caps of the code are scaled down (50 clients to one, 20 jobs of the
stream to two, 20 notifications of a page to one), so that they are exceeded.  The wizard sends two
requests for tokens, repositories and labels each, and one for preview and apply: enough to go back
to step 2, choose another repository and apply while answers of the first are under way.  `First`
and the presets of the form differ in some fields and agree in one.  In `service` a hand-edited file
is whole, leaves a section out or does not parse; the logs of a job are cut at three lines to two
(500 to 400 in the code); three processes are a daemon, the one that an update starts and one more
after a crash.

Fairness.  In `live`: callbacks that are due run: weak fairness of `Schedule`.  A handler
whose job holds a slot returns or is found stuck by the monitor, which looks at the running
set once a minute: weak fairness, per job, of those two together.  Nothing is assumed of a
handler already taken for stuck, of users, of the poller or of the webhook.

In `service`, for the core loop: weak fairness of the loop and of each phase, since every Claude
call, test and git command has a timeout that ends it.  In `pipeline`: weak fairness of the run's
own steps, for the same reason, but not of what Claude writes, of deaths or of people.  In
`execution`: weak fairness of each call of the lock, whose timers fire; of the timers of a child and
of the events that follow when it exits, and of the exit of a child that got SIGTERM and does not
ignore it (nothing makes a child end by itself; `CallsEnd` excepts a call whose child ignores the
one signal that its timeout sends); of the poller and the end of pauses.  In `pages`: timers fire,
requests are answered or fail, what the server sent is delivered or the connection is lost; nobody
need click.  In `service`: the watcher's timers fire; the commands of an update return; someone
starts a daemon that has ended.  `Review`, `Tasks`, `SettingsForm` and `JobRecord` state no liveness
and need no fairness.

Every property has a mutant in `PROJECT.json`: a definition next to the original, with a
plausible error, under which the run of the property fails.

## 4. Findings

Each is a sentence of the repository that a run refutes.

* `OneHandlerPerIssue` (`docs/implementation-order.md:527`): cancelling a running job does not
  stop its handler (no task factory is configured in `cli.ts`), yet frees the issue; a new job
  runs beside it on the same branch and worktree.
* `ResumeKeepsWork` (`README.md:130`): whatever its checkpoint says, a run starts again at
  `VALIDATED` (`pipeline-phases.ts:192`) and makes the branch anew, while the core loop skips the
  phases that the checkpoint records.  Their work is lost, and after a success, whose
  checkpoint stays, a later run finds nothing to do and nothing to publish.
* `BasicIsSaved` (`app.js:521`, `tests/settings-advanced-coverage.test.ts:50`): the execution mode of
  the Basic tab is shown, set by hand or by a preset, and never sent: `collectFormData` drops a
  field whose path has no section (`app.js:527`, `schema-meta.ts:67`).
* `SplitIsReviewed` (`review-orchestrator.ts:74`): a diff beyond the token limit should be reviewed in
  parts.  The function that divides it is given the object `{full}` (`pipeline-review.ts:97`) and
  takes `String(...)` of it (`review-orchestrator.ts:83`): "[object Object]" has no files, so each round
  passes and nothing was read.
* `SigkillFallback` (`docs/CHANGELOG.md:93`): the escalation from `SIGTERM` to `SIGKILL` looks at
  `child.killed`, which the first signal has set (`claude-runner.ts:299-305`), so a child that ignores
  it lives on and its call never ends.

Reading the code for the models showed more places where it and its texts part, for which there is
no run:

* A retry checks for a pull request before it awaits the cleanup, and not after
  (`job-queue.ts:328`, `:351`).
* Only the webhook reads the dependencies of an issue (`README.md:370`); poller, rules and retries do
  not.
* A simplification whose Claude call fails leaves its edits in the worktree; final validation
  runs on them and the pull request does not have them (`README.md:86-92`,
  `simplify-runner.ts:41`).  `NothingUnseen` is stated so that it allows this.
* "One heal at a time" (`heal.ts:8`): the close of a process that was replaced clears the handle
  of its successor (`heal.ts:66`).
* The wizard's preview is not what is applied (`setup.js:520`); owners and labels allowed are
  never sent.  The answer to an earlier visit of step 3 lets the user leave it (`setup.js:647`,
  `:321`) before the labels of the repository chosen are made; if that fails then, nobody is told
  (`hurried`).
* The page's own name of a preset (`views/settings.html:96`) outlives the form it was applied to:
  after a save the form is drawn anew from the stored configuration and the name stays, although the
  comment of `applyPreset` (`render-settings.js:1003-1005`) has every later change turn it into
  "custom".  The marks of the fields go with the form, and `MarksAreTrue` is about them.
* No rule of the automation page is ever stored: `PUT /api/config` makes an object of every list
  (`routes/config.ts:67-78`), the page always sends its rules (`automations.js:158-174`) and the
  validator refuses them (`validator.ts:464`).
* The user's own configuration file is merged (`loader.ts:143`, `:151-155`) and not watched: a
  change of it counts from the next change of another file on.
* A page may update the daemon while it waits to restart (`routes/version.ts:122-161`,
  `cli.ts:411-417`); the restart then finds nothing new (`cli.ts:421-435`) and the process stays, with
  neither poller nor queue (`Stranded`).
* A broadcast that meets a client it takes for stale forgets it without closing its stream
  (`sse-manager.ts:83-104`), so the page waits for events that never come (`Silent`).
* Retries of phases that share a level take their siblings' work (`phase-retry.ts:108`,
  `rollback-manager.ts:57-72`): a phase may be recorded as done and its work be gone (`lost`).
* `pipeline-publish.ts:220-225` merges anyway if the check of dependencies throws.  The check catches
  all that gh may do to it, so only a log or a store that cannot be written brings this about;
  `tests/pipeline/pipeline-publish.test.ts:451` has a mock throw.
* A comment on an issue whose call times out after it was written is written again
  (`issue-poller.ts:327-340`).
* Phases are written one by one (`job-store.ts:565`) and logs appended again (`:591`): a death
  between them leaves part of either.
* `autoMerge` (`docs/config-schema.md:129`) also counts a dependency as merged if any merged pull
  request mentions it (`dependency-resolver.ts:113`).
* A configuration that the route has accepted may be refused by the loader (`docs/api.md:239`,
  `loader.ts:747`).
* `--interval` is read (`cli.ts:189`) and overridden by the first reload (`cli.ts:369`).
* A second `aqm start` is turned away by the PID file only after it has opened the store, recovered
  its jobs and polled; and two that start together both pass, for the file is written after
  the check (`cli.ts:555`, `:567`), and whichever ends removes the file of the other
  (`cli.ts:570`).  After an update that fails poller and queue do not both go on
  (`cli.ts:440`).  `Daemon` models both as `Mishaps`; with either, `ServiceGoesOn` is violated, and the
  run leaves them out.

## 5. Proofs

TLAPS proves, for all values of the constants that satisfy the named assumptions
(`ProjectsAssumption`, `TrackerAssumption`, `StoreAssumption`, `SchedulerAssumption`,
`QueueAssumption`: the sets are what they should be, there is an issue, bounds are numbers):

* `TypeCorrect`: `Spec => []TypeOK`, inductive by itself, one lemma per group of actions.
* `AlwaysConsistent`: `Spec => []Consistent`.  None of the safety invariants is inductive
  alone.  `QueueMatchesStore` needs to know that a handler's row is never `queued` (or its end
  would take the row out of the queue's sight), which needs that a cancelled or retried job is
  over; that a `running` row has a handler needs that a stuck job is no longer running; one
  active job per issue needs that job numbers beyond `created` have no row.  `Consistent` is
  the conjunction of `Numbered`, `OneActiveJobPerIssue`, `WaitingExact` (pending and deferred
  are disjoint, without repetition, and are the queued rows), `HandlersExact` (what the row of
  a handler's, cancelled or retried job may be) and `RepoSlotsExact` (the counters are
  cardinalities).  Most actions only end jobs (`Settles`); `SettleLemma` treats these at once.
* From it the invariants `OneActiveJob`, `QueueIsStore`, `SlotsAccounted`, `NoZombie`, and the action
  properties `QueuedStart`, `LimitsKept` (counters are cardinalities, so the guard of a start
  speaks of handlers) and `ArchivedRest` (each action writes another row, or one that has a
  handler).
* `TurnsTaken`, from the types alone: `TurnLemma` shows that the turn computed anew never falls to
  the repository served last while there is another one; the least place of a set, on which the
  order of turns rests, comes from the well-foundedness of the numbers (`SmallestLemma`).
* `DeskImplemented`: the queue implements `IssueDesk`.  `WorkOf` chooses an active job of the issue;
  by `OneActiveJobPerIssue` there is one to choose.  Every action leaves the desk alone
  (`NoneMoves`), moves one job (`OneMoves`: it begins or its issue's work is closed), hands out
  the next ticket (`EnqueueMoves`) or is a restart (`RestartMoves`).

`CoreLoopProofs` (assumptions `PhasesAssumption`, `CoreLoopAssumption`): `CoreLoopTypeCorrect`;
`DependenciesComeFirst`, because a group holds only phases whose dependencies are recorded, which a
level keeps while it runs (`LevelInv`); `ConflictsKeptApart`, because the phases of one file form
a chain of neighbours (`ChainClosed`): each waits for the last earlier phase that names the file,
and so for all of them; `SuccessCoversPlan`; and `RecordedWorkKept`, for which `WorkInv` ties
each recorded phase to HEAD and each checkpoint to the recorded phases.  The last holds only
where commits do not fail: `autoCommitIfDirty` does not look at the result.

`PipelineProofs` (`PipelineAssumption`): `PipelineTypeCorrect`, `StartsFresh`, `PublishesItsOwn`,
`PublishesWhatWasSeen` and `KeepsOpenPR`, for any number of runs.  `PublishesItsOwn` says that what
is published is this run's work and that of all its phases, but for what a sibling's retry has taken
from a phase of its level (`lost`): levels after it never take anything.  That is not inductive,
because branch and worktree of earlier runs are around until they are removed.  `WorkInv` follows
the branch instead: empty once it is created (`Emptied`, `FreshTree`), since `git branch` refuses
one that exists; of this run only from the first phase on, and with all its phases' work that is not
lost (`OwnWork`; what a retry takes back is at most the level's, since every checkpoint of it has
the levels before); seen by the final validation before the push (`SeenAll`).

`ExecutionProofs`:

* The lock (`RepoLockAssumption`): `RepoLockTypeCorrect`; `Exclusion`, as an owner is who created the
  file; `Turns` and `QueueIsExact`, for any number of calls.  A call knows only its predecessor
  and the queue only its last call; `LineInv` says that these links form a line: no two calls
  share a predecessor, `tail` is nobody's, one call has none, and there is no cycle.  The last is
  said of sets (`NoCycle`: every set of unfinished calls has one that comes after none of
  them), which replaces an induction along the line.
* `PassedReadsHead` (`PassedOnHead`; `ReviewAssumption`): in a review that passes, the analyst has
  read every file of the diff as HEAD has it, and each round has read all of it, or nothing, the
  latter exactly when the diff does not fit the prompt and is not reviewed in one call
  (`SplitIsReviewed` in section 4 is that case); for every diff, size of the prompt, rounds, retries
  and fixes.  `ReviewInv` says that while the phase is at work what is reviewed is HEAD, and that
  the rounds so far have read what a round reads of it (`Current`), that the calls made and those
  still to be made read that (`Covering`), that a round at work was due (`Due`) and that none is
  left out in the end (`AllThere`), that the analyst had HEAD before (`Analysed`), and that a pass
  rests on rounds that passed (`Concluded`).  That the batches lose no file needs their recursion
  over the files, for which see below.
* `NoChildIsLost` (`ChildrenTracked`), for any number of calls, retries, kills and children that ignore
  signals.  `ChildInv` adds that who is in `activeProcesses` has the one call that waits for it,
  and that a call in its backoff has no child left; `Fades` treats the steps that only let
  children end.
* `DoneIsThere` (`SuccessIsKept`), for every kind of git task; `TaskInv` says that a task with a
  rollback is not one that has succeeded.
* `MergesAfterMentions`, for any number of issues, failures and restarts and whatever pull requests
  mention: before a pull request is told to merge itself, each dependency has one that is merged,
  its own or of an issue that mentions it (the code takes either), unless the check has thrown
  (`waived`).  `MergesInOrder`
  (`AutoMergeWaits`) is the case in which none mentions an issue that is not its own.

`ServiceProofs`:

* `TablesKeepWhatWasSaid` (`RecordKept`; `RecordAssumption`, in which `Keep <= Cap`: what a cut of
  the logs leaves fits the table): whatever this process was told of a job and has written is what
  the tables hold, up to the caps, with crashes between any two statements and files of older
  versions, whose jobs come with all their lines and phases or not at all.  Not inductive: the lines
  a process has written are neither all of the log nor a prefix of it.  `RecordInv` says that they
  are the last of the cached log (`EndsWith`) and that rewriting puts them last in the table
  (`RewrittenLemma`), that the columns are those of the version (`Schema`), that rows and cache
  mirror each other (`Mirrored`), that what was not written is not told (`Silent`), what the archive
  has (`PutAway`) and that a file that was migrated is there with all that is taken over
  (`MigratedComplete`).
* `FilesAreFollowed`, the safety behind `ConfigFollowed`: whenever no change waits to be loaded and
  none was missed, the pages are shown what the three files say, and queue and scheduler have been
  told it, whatever saves were refused in between; for `Settled` and `unnoticed`, see section 6.
  Only what differs from the configuration before is applied, so `FileInv` has to say that queue and
  scheduler were told all of that one, also while the files are invalid; a page may be ahead of it,
  by the concurrency it tells the queue at once.
* `NoJobIsLeft`, the safety behind `ServiceGoesOn`: through restarts, updates (failing ones too) and
  crashes one process lives at most, a queued job is in its queue, a running one has its
  handler there.  Its hypothesis is that nobody starts a second daemon over the first; with one, TLC
  finds the job of a handler queued again.

`PageProofs`:

* `QuietIsRight`, the safety behind `NotificationsSettle` (`NotifAssumption`: pages are not empty
  and `None` is none of the values): whatever user, jobs and network did, and in whichever order
  calls were served, answered or lost, a page with nothing under way and no card fading shows what
  the tables have, as far as it was told.  While something is under way the page is wrong, so
  `NotifInv` says of the sequence of calls what they will do to it: for the badge, the rows and the
  cards alike, some call will bring a fresh value, or the last one that does, the page itself if
  none does, has the right one (`BadgeDue`, `RowsDue`, `CardsDue`).  A list may lack what a served
  deletion or reading has done since, if the answer to that is behind it (`Granted`), a deleted card
  fades until a list is fetched, and the last list asked for is of the filter and page that is shown
  (`LastList`).  Each is kept by five changes of the sequence: a call is sent (`SentKeeps`,
  `SentBrings`), served (`ServedBadge`, `ServedRows`, `ServedCards`), answered (`GoneBadge`,
  `GoneRows`, `GoneCards`), lost, or an event comes between (`BroadcastKeeps`).  `FewerLemma`: a
  page of a list that has cards when one notification less is there has some with it.  `RestSettles`
  is the corollary that a page which comes to rest for good settles; that it does is TLC's.
* `MarksTrue` (`MarksAreTrue`; `FormAssumption`): a field marked with a preset's name has the
  preset's value, whatever was applied, changed, saved or redrawn before; `NoMarks` has what a form
  drawn anew starts with.
* `SaveKeepsOthers` (`UntouchedStays`): as long as no answer overtakes another, what the form shows of
  an untouched field is what the page was last told (`Untouched`).

Recursion.  The theorems of the library that do induction take an operator and cannot be used
here.  `SequenceLemmas` has their first-order forms: `SmallestLemma` (a set of numbers has a
least one) gives `InductionLemma` and `UpToInduction` (a set that has 0, and with each number the
next, has all), and `RecursionLemma` gives a recursive function its equations.  What
`Review` computes file by file is proved with these.

TLC agreed on each inductive invariant before it was proved, on the instance of the run; the theorems
that name no property of a run (`TypeCorrect` and the like, `FilesAreFollowed`, `NoJobIsLeft`,
`QuietIsRight`, `MergesAfterMentions`) were checked in the same way.

Only model-checked: liveness (`QueuedJobsMoveOn`, `LoopFinishes`, `RunEnds`, `CallsReturn`, `CallsEnd`,
`ConflictsTold`, `CatchesUp`, `BoardSettles`, `DoctorComesBack`, `SetupCompletes`,
`NotificationsSettle`, `ConfigFollowed`, `ServiceGoesOn`), which like `ENABLED` is out of the
prover's reach; of the last three the safety behind them is proved.  `live` checks turns without
priorities, `TurnsTaken` proves them with any.

## 6. Limits

* **Queue.**  Left out, because no caller reaches it: `abortJob`, the task factory, the guards of
  `processNext` for cancelled or missing rows, its re-entrancy flags, the check of `stuckAborted`
  at the start of `execute`.  Equal `created_at` times, store errors, and several changes
  in one callback of the monitor or the configuration (they are steps here) are not modelled.  A poll
  enqueues one issue per action.  What `job-cleanup.ts` removes from disk while the next job starts
  is not modelled.
* **Core loop.**  `git add` and `reset`/`clean` pairs are one step; the chain of fallback models, costs,
  prompts and baselines are data; a commit is known by its content.  Mode "qa", which fails at once,
  and a file listed twice by a phase are left out.
* **Pipeline.**  The runs of an issue do not overlap (`OneHandlerPerIssue` shows that they can; so
  can `aqm resume` beside the daemon).  The state in a checkpoint is always `VALIDATED` or
  `SKIPPED`, which resume alike, so it is no variable.  A base branch that moves (in
  `PullRequests`), failed commits outside the core loop, hooks, events, reports and dry runs are
  left out.  The extra removal of the worktree by a retry is part of `CreateWorktree`.
* **Lock.**  One repository; two whose names differ in replaced characters share a lock, which is
  harmless.
* **Review.**  Files that git quotes are dropped from a divided diff (`diff-splitter.ts:61`), which
  `PassedOnHead` excepts; costs, which a divided review loses, and prompts are data.
* **Claude.**  `CallsEnd` excepts the call of a child that ignores SIGTERM; see section 4.  That
  `ClaudeTask` remembers the youngest child of all calls as its own is in the model.
* **Tasks.**  A `KILLED` task may be overwritten by a late result, and the rollback of a git task has
  nothing to undo at the moments it runs; production uses only the Claude task.
* **Pull requests.**  `listOpenPrs` and `checkPrConflict` never throw, so failures of gh there count
  for nothing; a conflict that was solved and comes back is not told again, one told before a
  restart is told again; a rebased branch is not validated again.
* **Record.**  Reading logs after a restart reverses them, the trigger of a job is erased by its
  first update, and a death inside the writing of a phase leaves a hole: `RecordKept` speaks of what
  this process wrote.  Statistics and costs are left out.
* **Configuration.**  `Settled`: nobody changes a file within the 100 ms a change waits to be
  loaded.  A change made while the watcher restarts is not noticed (`unnoticed`) and
  `ConfigFollowed` excepts it, and so it does a change of the user's file that no other change has
  followed.  Pages are told of each other's saves (`routes/config.ts:94`); a page that is not yet
  redrawn saves what it had, which is a lost update.
* **Daemon.**  The web server, webhook events during a shutdown, and a signal in the middle of an
  update are left out, and so are the `Mishaps` of section 4.  A daemon updated from a page while it
  waits to restart is modelled; `ServiceGoesOn` excepts it (`Stranded`).  Commands beside `start`
  are one call of what the other modules have.
* **Dashboard.**  Without an API key (`Keyed`): with one, the page opens its stream without it and
  only polls.  `CatchesUp` excepts a page whose stream the server has forgotten (`Silent`).
* **Board, notifications.**  One user and one page; what the page is not told of (deletions by
  others, single reads) is in `untold` and excepted.  `clearAllJobs` deletes what finished after its
  question.
* **Settings.**  The page's own name of the last preset is left out (section 4).  Answers come in
  order (`Overtakes` = FALSE): a late `schema-meta` makes the Basic form show an earlier
  configuration, and a save then reverts another page's change.  Where a setting is in two forms,
  one wins: an edit of the other is lost, and `UntouchedStays` speaks of fields left alone.  A
  reload by another's change discards edits.
* **Doctor, setup.**  `SetupCompletes` excepts who left step 3 before the answer for the repository
  chosen (`hurried`).  Two processes, one token at a time; the wizard of the terminal (`src/setup`)
  asks one question after the other and is left out.
* **Not modelled.**  Stuck detector (a decision over elapsed time, which `JobQueue` leaves open),
  automation rules and their page but for its save, the CI checker (dead code), hooks, prompts,
  learning, types, statistics, authentication.  `PROJECT.json` has the reasons.
* **Environment.**  Claude, git, GitHub, browsers and the operating system are modelled by what the
  code has to expect of them; `PROJECT.json` marks these definitions as external.

## 7. Plan

1. Overlapping runs: `Pipeline` for two handlers of an issue, with what `job-cleanup.ts` removes
   beside them, and `CoreLoop` as a refinement of `Pipeline`'s phases.
2. `AutomationScheduler`: rules with their timers against the poller; the stuck detector with
   clocks.
3. Two pages at a time: `JobBoard` and `SettingsForm` over one `Dashboard`.
4. Proofs: the safety behind `BoardSettles` and `CatchesUp` (when nothing is under way, the page
   agrees with the daemon), `CoreLoop` as a refinement, lemmas on the groups of `PhaseScheduler`.
