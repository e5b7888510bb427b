# Projex: verification models

Projex is a programming classroom: students write Java in activities, submit it,
an execution queue compiles and tests it, instructors review and release; group
and personal Git repositories live beside it. The server (`src/server/src`,
TypeScript on PostgreSQL through Prisma) runs as three kinds of process that
share nothing but the database and the disk: the API server, the Java worker
(`worker.ts`) and the Git worker (`git-worker.ts`, which also serves Git over
HTTP). What is hard in it is not any one transaction but what happens between
transactions: leases, retries, crashes, stale reads, overlapping calls at
different isolation levels, and work on disk that no transaction covers. That is
what these modules model.

## 1. Inventory

Every component is listed with the module that models it; a dash says that it is
not modelled. What each module leaves out is in its subsection of section 2,
what no module covers in section 8.

| Component | State | Operations | Hard behaviour | What makes it correct | Module |
|---|---|---|---|---|---|
| Execution queue, Java worker (`infrastructure/job-queue/execution-queue.ts`, `worker.ts`) | `execution_jobs`; status of submission, practice or review run; execution record; the claim in the worker's memory | claimNext (with a sweep), complete, failInfrastructure, cleanupExpiredPractice | leases, crashes, unlocked reads, retry bounds | job and target agree; no attempt lost; results immutable; every job ends | `ExecutionQueue` |
| Submissions and instructor decisions (`modules/submissions`) | submissions, idempotency keys, failure resolutions, replacement grants, reviews, releases | createSubmission, retryAssessment, resolveFailure, saveReview, release | serializable snapshots older than the lock; repeated requests; grants; archive race | numbers, keys and grants used once; limit kept; archive leaves nothing open | `SubmissionAttempts`, `ExecutionQueue` |
| Activities, test cases, topics (`modules/activities`, `test-cases`) | status, version, definition, tests, topic | create, update, replace tests, remove topic, publish, close, reopen, archive, restore | optimistic versions, tests without a version, points divided again and again | what is published was fit to be; published content stands; points add up | `ActivityAuthoring`, `WeightedGrading` |
| Repository provisioning, Git worker (`repository-provisioning-queue.ts`, `repository-provisioning.service.ts`, `repository-storage.ts`, `git-command-runner.ts`) | jobs, `storage_status`, staging, final and quarantine directories | claim, process, complete, fail, administrator's retry | database and disk share no transaction; takeover while working | READY is on disk; nothing pushed is lost; quarantine is final | `RepositoryProvisioning` |
| Backup and restore (`infrastructure/operations`, `scripts/operations-backup.ts`, `deploy/pilot/pilot.py`) | dump, archive, manifest | quiescence, inventory, dump, archive, seal, verify | parts of one backup taken at different times | a completed backup restores to one true state | `PairedBackup` |
| Activity checkpoints (`repository-checkpoint-queue.ts`, `git-activity-checkpoint-writer.ts`) | jobs, the branch, the marker in commit messages | save, claim, clone-commit-push, complete, fail | push done, transaction lost; head moved | one commit per checkpoint, never over another's | `Checkpoints` |
| Group browser commits and refs (`modules/group-browser-commits`, `group-browser-refs`) | jobs, refs, receipts | create, claim, prepare, publish with receipt, complete | publication inside a timed transaction; revoked access | published at most once; told what was published; none after revocation | `GitPublication` |
| Activity practice (`modules/activity-practice`) | workspaces, jobs, receipts | enter, save, claim, publish, complete | as above, plus policy locks | branch, receipt and job agree; the branch moves only for the eligible | `Practice` |
| Git transport (`modules/git-transport`, `git-smart-http.ts`, hooks) | request directories, refs, push receipts, slots | fence, admit, pre-receive, refs, post-receive, record, recover | crash between refs and receipt; permission change during a push; pushes that count the same branches | refs move only while allowed; a push whose receipt is whole is recorded once; branches stay near their limit | `GitPush` |
| Interactive console (`modules/interactive-console`, client `InteractiveConsole.jsx`) | inputs with sequence numbers, phase, cancellation, lease renewed by the worker | run, input, stop, read, worker's monitor | two processes drain and append; replays; late answers; crash | each line delivered once and in order; no console without end | `InteractiveConsole` |
| Sessions, account setup, recovery (`modules/auth`, `account-setup`, `password-recovery`, user provisioning) | accounts, refresh sessions in families, one-time tokens | login, refresh, logout, change, setup, reissue, recover, change of status | rotation against revocation; two statements of one sweep; waits for row locks | one live session per family; tokens used once; no old session after recovery; an administrator left | `AccountSessions`, `RowLocks` |
| Class members, invitations, staff (`modules/classes` and neighbours) | class, staff, join code, memberships, invitations | create, archive, restore, transfer, assign, join, invite, accept, decline, remove | stale serializable snapshots beside READ COMMITTED calls | roles fit, one answer per invitation, an archived class closed | `Enrollment` |
| Repositories and teams, project tasks (`modules/repositories`, `project-tasks`) | teams, members, invitations, reviews, task status | create, invite, accept, decline, revoke, leave, remove, return, review, publish, close, archive, restore | seats counted under concurrency; expiry; task and class archived meanwhile | team size bounded; one team each; archived tasks and repositories wait for nobody | `Collaboration` |
| Administration, user import, audit | audit rows | retry of provisioning, revocation of sessions, status; single-row writes | - | audit in the same transaction | parts in `RepositoryProvisioning`, `AccountSessions` |
| Courses, gradebook, work hub | rows | CRUD, read models | optimistic versions | - | - |
| Java runner, content reads, health, configuration, email, logging, web client, deployment | - | I/O | - | - | - |

Interactions: the API server inserts a target and its job in one transaction and
never talks to a worker; workers poll. The Java worker writes the submission the
instructor's operations read and write (rows, statuses), and feeds consoles
through rows that the API appends to. The Git worker builds a repository on the
disk and reports it READY; Git transport and the browser writers serve only READY
repositories, under an advisory repository lock and row locks on the policy.
Activities and tasks bound what submissions and teams may do; classes bound
both. Administrators retry failed provisioning and disable accounts; operators
back up database and disk together.

## 2. Modules

| Module | Models |
|---|---|
| `ExecutionQueue` | the queue, the worker loop, the instructor's operations on a failed or assessed submission |
| `AssessmentLifecycle` | abstract: the lifecycle of a target, with no jobs, workers, leases or attempts; implemented by `ExecutionQueue` |
| `SubmissionAttempts` | the submissions of one student to one activity: creation, numbers, limits, grants, crediting, and the activity's lifecycle around them |
| `ActivityAuthoring` | one activity as its instructors write it; uses `WeightedGrading` for points |
| `WeightedGrading` | how points are divided over criteria and tests; what inputs of it the schemas accept |
| `RepositoryProvisioning` | one repository's job, row and directories, the Git workers, the administrator |
| `PairedBackup` | composes `RepositoryProvisioning` with the paired backup; implements it |
| `Checkpoints` | browser checkpoints of one activity workspace |
| `GitPublication` | the commits, new branches and fast-forwards of the browser editor in one repository |
| `Practice` | the practice workspace of one student |
| `GitPush` | native pushes through the Smart HTTP service |
| `InteractiveConsole` | consoles between browser, API and worker |
| `AccountSessions` | accounts, sessions and one-time links; uses `RowLocks` |
| `RowLocks` | the row locks of PostgreSQL |
| `Enrollment` | a class, its staff, members and invitations |
| `Collaboration` | a project task, its teams, their invitations and reviews |
| `PracticePromises`, `ActivityPromises`, `ClassPromises`, `ConsolePromises` | the state that users see, and what they are promised of it; extended by `Practice`, `ActivityAuthoring`, `Enrollment`, `InteractiveConsole`; `ActivityPromises` extends `WeightedGrading` |
| `MC...` | the constants of the TLC instances |
| `..._proofs` | theorems; section 5 says which module proves about which components |

Definitions named "Mutant" in a comment, each just before the definition it
varies, are plausible mistakes in that piece of the code. No behaviour uses
them: substituting one must make TLC report the property that guards it.

### ExecutionQueue

`status, attempt, maxAttempt, owner, expired, available` are the columns of
`execution_jobs` (`expired` is `lease_expires_at <= now`, `available` is
`available_at <= now`: there is no clock, a lease may expire at any moment).
`target` is the status of the submission or run, `evidence` the compile status
of its execution record collapsed to pending, a result, or an infrastructure
error, `author` the worker whose result is recorded, `resolved` the existence
of a failure resolution. `pc, claim, retrying` are what a worker has in memory.

A worker is an incarnation: each start of the process draws a new `randomUUID`.
claimNext is one action, since it locks what it reads (`FOR UPDATE SKIP
LOCKED`) and its sweep locks too; which candidate it takes is left open.
`complete` and `failInfrastructure` read the job without a lock and write by id
in the same READ COMMITTED transaction: two actions each, with anything in
between. Errors of `complete` go to the catch block (`CompleteAborts`); errors
of `claimNext` and `failInfrastructure` end the process (`WorkerDies`).
`TargetAccepts` is the database check that refuses a status change of a
released submission. `CasePointsAccepted` is the trigger on case results: an
activity cannot be published without test cases, so a submission always has
results for it to refuse. Console jobs take another path in the worker: `InteractiveConsole`.

One switch separates the code's timing assumption from its logic.
`SlowTransactions`: may a lease be taken over between the read and the write of
the transaction that ends the claim. With it FALSE the queue keeps all its
promises but to a submission that is retried at the ceiling of its attempts
(`RetriedAtCap`), which the code queues although nothing will claim it; the run has that
case (the ceiling is 3), the properties except it by name, and the lifecycle's safety
part says that such a target stays in the queue for good (`spent`). Section 5 says what is
proved under any timing, section 7 what breaks.

### SubmissionAttempts

`subs` is the sequence of submissions in order of insertion, with the grant of
a resolved failure in the same record; `activity` the activity's row; `pc,
asOf, snap, tries, answer` the requests. createSubmission runs SERIALIZABLE:
`Begin` reads the service's clock and takes the snapshot (the first query, which
waits for the advisory lock, so the snapshot is older than the lock). All
decisions use the snapshot. The commit is possible only if no serializable
transaction of the scope has committed since (`Serializable`) and the activity
row, locked FOR SHARE, was not updated since (`ActivityLocked`); otherwise
PostgreSQL refuses it and the repository runs it again, three times in all,
with a new snapshot and the old clock. The instructor's operations and archive
are READ COMMITTED: they lock the submission's row (`BeginEdit` ... `EndEdit`) or
the activity's (`ArchiveBegin` ... `ArchiveEnd`) and see every commit.

Simplifications: the clock reading and the snapshot are one step; a request
whose activity was closed and reopened since its snapshot may go on, although
PostgreSQL would refuse it (more behaviours, since the row's values are
compared, not its version); the code consumes the oldest usable grant,
the model any; the optimistic `updatedAt` of the instructor's requests is left
out and any instructor may act on the current row (more behaviours); the
student is an active member of an active class; archive's count of active
practice runs and drafts of activities are left out. `ClockHeld` keeps a grant
from expiring between a request's clock reading and its commit, which take
milliseconds apart while grants last days: without it a replacement may be
created against a grant that archive already considers expired.

### RepositoryProvisioning

One repository: its job, its `storage_status`, the number of
`REPOSITORY_PROVISIONED` activities, and the contents of its staging and final
directories as one of `Directories` (absent, without a marker, with the marker
only, an empty bare repository, one with pushed work). Every file system call
and every Git command of `process` is an action, so another worker, a crash or
a lease's end comes between any two. Failures whose code is in
`QUARANTINE_FAILURES` are grave and pass through `quarantine`, which looks and
then moves. `complete` and `fail` are two actions each, as in the execution
queue; the check `repositories_storage_lifecycle_check`, which refuses to take
a row with a storage path out of READY, is `StorageMayLeaveReady`. `Push`
stands for whatever a student pushes to a READY repository. The retry backoff is left out: a
PENDING job may be claimed at once. `LeasesHeld` says that a lease does not
expire while its owner works: the configuration allows otherwise, and section 7
shows the price.

### PairedBackup

Extends `RepositoryProvisioning` with the tool that backs up database and disk
together. `phase` is how far the tool is, in the order of
`executePairedBackupPlan`: quiescence and inventory (one step), dump of the rows
in one snapshot, archive of the directories, counts, checksum, seal or abandon.
`dump`, `archive` and `counted` are what it has written. The tool does not look
whether services run; that they are stopped is the operator's procedure
(`pilot.py`, `backup`), so both are explored: `followed` says whether the operator
stops the services first. `Corresponds` and `PassesVerification` are what
`restore-verifier.ts` compares in the restored pair, and `Restored!RowsTrue` reads
`RowsTrue` of the dump and the archive. `BackupSound` says: a completed backup
that was taken by the procedure, or that passes verification, restores to rows
that are true of their disk and serves what was pushed. Its remaining case, a
backup made while services ran and never verified, can be unsound.

### GitPublication

One repository. `heads` are its branches, each the sequence of its commits
(empty: no such branch), `receipts` the hidden refs; "is ancestor" is "is a
prefix", and the commit of a job is its expected head with the job appended,
the same at every attempt, because the writer fixes its date and author.
`request`, `expSource`, `expTarget`, `status`, `owner`, `attempt`, `leased`,
`started`, `result` are the columns of the two job tables, which have the same
protocol; `recorded` counts the job's repository activities. `access` collapses
the memberships and states that `evaluateGitPermission` reads to what a student
may write (nothing, branches, main too); `open` is the due date. `pc`, `job`,
`claim`, `inTx`, `error` are a worker's.

Each Git command that reads or writes refs and each database step of
`processNext` is an action: read the receipt, evaluate access, prepare, mark
started, lock the row in a transaction, read the receipt again, lock the policy
and evaluate it again, prepare again (ref actions), update-ref, look what a
refused update-ref means, complete, and the catch block. A transaction that
timed out (`TxTimesOut`) has lost its locks, but the worker learns that only
from its next query. `CallFails` is a call that times out, or a failing one whose
error the code passes on; `UpdateUnknown` an update-ref that is cut off or exits with
an error, before or after it has moved the branch. A `rev-parse` that exits with an
error is different: `revision` and `receipt` answer null, so that a ref that is
there is read as absent (`MisreadReceipt`, `MisreadHead`, `UpdateMisread`).
`misread` is a history: the jobs whose receipt was there and was not seen. A crash
takes the worker's Git child with it (the service manager ends the process group).

`Fenced` is the timing assumption: a transaction is not rolled back while the
Git commands between its last query and its update are running. The
configuration does not ensure it, and section 7 shows the price.

Simplifications: a request is created at the heads of that moment and the
retry delay is left out (both give no fewer behaviours, since a branch may move
and a worker may be slow right after); paths and contents, which are decided by
the expected head, collisions of case and prefix, size limits and the
replay of a request key are left out; a native push extends or deletes a branch
or makes main's first commit, and creates no other branch. Pushes take no lock
that a ref action takes, so with pushes that create branches the limit would
be a matter of timing (the push's own check is `git-transport-hook.ts:214`):
`BranchLimit` speaks of branches made in the browser only.

### Checkpoints

`jobs` is `repository_checkpoint_jobs`, `recorded` the COMMIT activities of each job,
`main` the branch, as the origins of its commits: a head is a length of it,
because nothing ever rewrites it. `workers` says what each worker does, for which
job, and from which clone. The writer clones, compares the head with the job's,
commits and pushes, one action each; when it finds its own commit at the head
(by message and content) it takes the job for saved. The queue fences: complete
and fail look whether the worker still owns the job. Native pushes, access that
is taken away and given back, crashes, pushes that land although they were
reported failed, and leases that end at any time happen between any two steps.
`upset` is a history: has anything failed or run out yet. Left out: paths,
contents and sizes of files, the replay of a request key.

### Practice

`saves` is `activity_practice_git_jobs`, `branch` the branch `practice/<id>`,
`receipts` the receipt refs, `eligible` what `practiceEligible` answers from its
seven tables. A job is published by one Git transaction, which moves the branch
and creates the receipt, inside a database transaction that holds the job's row
and share-locks every row eligibility depends on; so `ChangeEligibility` waits
for it. That transaction (60 s) is assumed to outlive the Git update in it, as
in `GitPublication`. A failing `rev-parse` reads a ref as absent here too, and every
error of update-ref, a timeout included, is answered by such reads
(`MisreadReceipt`, `MisreadHead`, `UpdateMisread`; `misread` is the history of the
receipts not seen). `hands` is what each worker does. What the student is
promised is stated in `PracticePromises`. Left out: contents of files, starter
bundles, sync and reset.

### GitPush

Three layers of one push: the fence (a transaction that share-locks the rows its
permission depends on, and occupies a connection until the request ends), the
slots of the transport, and the request directory with its marker, in which
pre-receive, ref updates and post-receive run. `pc` is where each request is,
`refs` the branches, `asked` what each push wants to create, delete and forward and
`todo` what Git has still to do of it, `receipt` the file `accepted-push.json` (none,
empty, torn or whole), `activity` the recorded activity, `recovery` the shared replay of receipts that
earlier requests left, `fetching` a read request that waits for it. At any point
backends are killed, the service crashes and restarts (`origin-git.service`:
`Restart=on-failure`, `KillMode=control-group`) and writes of files and rows fail:
between the making of a directory and its marker, between two refs of a push,
before, in and after the writing of a receipt, in the middle of a removal. `cut`
is a history: the pushes that were stopped between their first ref and their whole
receipt. A push makes up to `MaxUpdates` updates, one after the other in any order
(or all in one transaction if the client asks for it: that has the same results, and
fewer states between). Only pushes of one student to an activity
workspace are followed, with the due date checked at admission. Left out: the
protocol's bytes, packs and their limits, reads, credentials of others, commits
(a branch is there or not, so that forwarding one changes `moved` alone).

### InteractiveConsole

Browser, API and worker around one console at a time. The browser has at most
one start, one control call and one read under way (`call`); calls it gave up
may still arrive (`stray`). `run` holds the rows: phase, cancellation, lease,
stored inputs and `given`, what the worker wrote to the program; `shown` is the record
on the page and `typed` a history of what the browser took up. The worker runs
the program while its monitor reads the console, renews the lease and delivers
input, in steps that API calls fall between. The job and the practice record of
a run change together and are one status. What is promised is stated in
`ConsolePromises`. Left out: output, and several open pages of one student.

### AccountSessions and RowLocks

A request is one HTTP call: it reads outside any transaction, waits for a
password to be hashed, then runs a transaction at READ COMMITTED statement by
statement. `holds` are the row locks its transaction keeps (`RowLocks`: share,
no-key update, update), and an UPDATE waits for them and looks at its rows
again. A sweep over all sessions of a user is two steps, since rows
inserted meanwhile are not in its snapshot. `user`, `session` and `token` are the tables;
passwords are numbered in the order they are set, and `reset` is a history of
the last recovery. Left out: rate limits, access tokens between two requests,
expiry (a refresh may find its session expired, which only refuses), mail.

### Enrollment

A class, its staff, members, join code and invitations. Calls at SERIALIZABLE
are atomic steps of each other; one of them may be under way (`view`) with the
rows as its snapshot has them, which rows changed since, and whether the class
was changed under FOR UPDATE: it fails where PostgreSQL refuses it, and decides
by its snapshot where not. `late` is a call at READ COMMITTED between what it
reads and what it writes (restore, a change of membership, a change of account
status). What is promised is stated in `ClassPromises`. Left out: courses,
metadata, who may call (an instructor of the class is assumed).

### Collaboration

Teams of students around repositories of one project task. As in `Enrollment`,
`view` is a serializable call under way that goes by the task, the class, the
memberships and the clock it saw. `lapsed` are the invitations whose seven days
are over; `ClockHeld` says that none runs out under a call. A team is named by
its lead, only PENDING invitations are kept, a feedback draft is its status, and
versions of forms, which only refuse, are left out. Workspaces of activities and
personal repositories are left out.

### ActivityAuthoring and WeightedGrading

One activity's row and tests, and `Authors`, calls of instructors that overlap:
each carries the version its page was made from, is checked by the service on a
row it read, reads row and tests in a READ COMMITTED transaction, and writes only
if version and status are still the expected. Tests have no version. A
definition is a function from field names, an edit one from the fields it
gives. What students and other instructors rely on is stated in
`ActivityPromises`. `WeightedGrading` divides cents: fair shares by largest
remainder, criteria first, then tests by importance. Left out: texts, code, the order and names
of topics, refusals by due dates or unfinished work (any call may be refused),
and the page itself, which reads activity and tests by two requests and keeps
its edits after a conflict (`InstructorActivityViews.jsx`).

## 3. Runs

| Run | Instance | States | Shows |
|---|---|---|---|
| `exec_strict` | jobs of a graded and a completion submission and a practice run, two at a time; 2 workers, 2 attempts, ceiling 3, prompt transactions | 193,565 | attempts, rows and outcomes; refinement of `AssessmentLifecycle`; progress |
| `attempts` | 3 requests (two with one key), limit 1 raised to 2, due date, one tick of the clock | 614,131 | numbers, keys, grants, limit, crediting, archive and close |
| `provision_strict` | 2 workers, 3 attempts, ceiling 4, leases held, 1 backup | 580,723 | disk, rows and backup agree; what is pushed stays; every job ends |
| `publish` | 2 jobs in 5 meetings, 3 branches of at most 2, 2 workers, 1 push or change of permission, 2 faults, `Fenced` | 1,033,205 | what a job is told, and what is on the branches |
| `checkpoints` | 2 checkpoints, 2 workers, 2 attempts, 1 push, 2 faults | 129,336 | what a checkpoint is told; nothing overwritten; every one answered |
| `practice` | the initial job and 2 saves, 2 workers, 3 claims, 1 push, 2 faults | 605,894 | jobs and branch agree, eligibility, every job answered |
| `gitpush` | 3 pushes of at most 2 updates in 2 meetings, 3 connections, 2 slots, 3 branches, 1 fault | 260,419 | receipts, feed and refs; permission; overshoot; receipts drain |
| `console` | 1 line, 1 run, 2 inputs, 2 requests under way | 494,818 | input once and in order, nothing goes back, every run ends |
| `sessions` | an account to be set up and 2 administrators, 2 requests | 944,313 | families, recovery, setup, last administrator |
| `enrollment` | 2 instructors, 1 student, 2 invitations | 718,983 | roles, code, answers, archived class |
| `collaboration` | 3 students, teams of 2, clock held | 113,771 | seats, one team each, archives |
| `authoring` | 2 calls, 4 versions | 1,292,566 | points, soundness of what is published, no lost edit |

Bounds, and why they are enough. Attempts: 2 with a ceiling one above is the
least with a retry, an exhaustion and a retry by a person after it; provisioning
has 3 and 4 where states allow. Workers: two are needed for a takeover, and one is
always left alive. Jobs: the queue's operations touch one job each except the
sweep, which touches any number: two jobs show a sweep that fails one while
another is claimed; review runs follow the path of practice runs except for
their deletion. Requests: a first, its repetition and a third with another key
are the least that exhaust a limit, replay a key and lose a race twice
(`MaxTries` is the code's 3); `ThreeOrRaised` lets a raised limit be met by two of
them. `MaxTime` bounds the clock: before and after the due date. `LastLimit` and
`LastDue` bound how far an instructor may raise them. `Scores` has two values:
ties and differences. Publication: `Meetings` lists the pairs of requests that
share a branch as source, as target or as a name (one student has at most one
job in flight, so two jobs are two students); `MaxFaults` 2 is what a late update
needs (a timeout and an expired lease), `MaxMoves` 1 a push or a lost permission
between any two steps; `GiveUpAt` is 3 in the code, 2 in `publish`, so that the
second error before publication is final. Pushes: with three for two slots and
three connections somebody waits for each; the fault (a kill, a crash or a failed
write) falls anywhere, and a shortage of connections, which is none, leaves
receipts to recover as well. Console: two inputs are the least
that can change places, and one run the least a lost lease can hurt. Sessions:
two requests meet in every pair of operations; `MCAccountSessions` bounds the
rows and follows sessions and links in different behaviours for administrators.
Classes: a transaction under way is overtaken by a change of one row, and one
account is inactive at most (`Overtaken`); two instructors are the least for a
transfer. Teams: three students are the least that contest the second seat of a team;
`Bound` in `MCCollaboration` lets a second team form while the first is being
reviewed in other behaviours only. Authoring: four versions are create, change, publish and change
after it, and a reopening may come after the last.

Where a property holds for every bound by a theorem, section 5 says so; the
bounds then only decide how quickly a mistake in the model would be noticed.

Deadlock is checked in `gitpush`, `console`, `sessions` and `enrollment`. Elsewhere a
system whose jobs have all ended, or that no user asks anything of, may stop.

## 4. Fairness

The worker loops poll for as long as their process lives, and the service manager
restarts a process that ends (`deploy/pilot/systemd/origin-java.service:18`,
`Restart=on-failure`): each live worker's steps are weakly fair, and crashes leave
one worker alive, the one that stands for those that follow, or `Answered` says
that none was left. Time passes: leases and backoffs elapse (weakly fair). No user
is ever obliged to do anything: no fairness on creation, review, retry, push,
crash. Weak fairness is enough because the number of claims is bounded, so
failures cannot alternate with claims for ever.

- `ExecutionQueue`: WF of each worker's steps and each job's clock.
- `RepositoryProvisioning`, `PairedBackup`: WF of leases, of each worker while the
  services run, and of the tool and the start that ends a stop.
- `Checkpoints`, `Practice`: WF of each worker's steps and each lease's end.
- `GitPush`: WF of each request's steps, of the recovery and of the restart, and SF
  of `Fetch`: clients go on using the repositories, and it is the next request that
  replays receipts.
- `InteractiveConsole`: WF of the worker's steps, of its monitor, of leases and of
  the program's end (its time limit). None on the browser.
- In `GitPublication` retries after `publishStarted` are unbounded, so that nothing
  but a bound on faults and on moves ends them; instead of a liveness property it
  has `NeverStuck`: while a job is in flight some worker can take a step, or a lease
  that nobody works under will end. Every round of steps between two claims is
  finite.
- The other modules have safety properties only and no fairness.

`LifecycleProgress`, `Settles`, `Answered` and `ReceiptsDrain` rest on this.

## 5. Theorems

For every set of jobs, workers, students, requests and calls, and all limits that
satisfy the named assumptions of the component. tlapm checks the proof modules to
the last leaf. A proof module extends one component; four of them also reach a
second one by INSTANCE, whose own names then carry a prefix, and whose promises
are in a module (`PracticePromises`, `ActivityPromises`, `ClassPromises`,
`ConsolePromises`) that both the component and the proof module extend:

| Proof module | extends | and reaches |
|---|---|---|
| `Execution_proofs` | `ExecutionQueue` (with `AssessmentLifecycle`), `ConsolePromises` | `C == INSTANCE InteractiveConsole` |
| `SubmissionAttempts_proofs` | `SubmissionAttempts` | |
| `RepositoryProvisioning_proofs` | `PairedBackup`, hence `RepositoryProvisioning` | |
| `GitPublication_proofs` | `GitPublication` | |
| `GitPush_proofs` | `GitPush` | |
| `Workspaces_proofs` | `Checkpoints`, `PracticePromises` | `P == INSTANCE Practice` |
| `Accounts_proofs` | `AccountSessions` (with `RowLocks`), `ClassPromises` | `E == INSTANCE Enrollment` |
| `Classwork_proofs` | `Collaboration`, `ActivityPromises` | `A == INSTANCE ActivityAuthoring` |

An assumption of a component reached by INSTANCE is not in force by itself, so
theorems about it have `P!PracticeAssumption`, `A!InputAssumption` or
`C!ConsoleAssumption` as a hypothesis: the ASSUME of `Practice`, `ActivityAuthoring` and
`InteractiveConsole`, which TLC evaluates in the runs `practice`, `authoring` and
`console`. `Enrollment`'s is not needed. `InputAssumption` is what the schemas let
through (`activity.schemas.ts`, `test-case.schemas.ts`): a draft has all fields and
a total exactly if it is graded, a total is positive, a configuration gives
four percentages that make up the whole and some of it to correctness, importances and points of a
test case are of their type, and an absent value is none of these.

What folds compute over any number of elements (sums of points, the credited
attempt) is proved with functions in place of operators: a recursion over the
parts of a finite set is a function (`FoldExists`, `FoldOf`), the fold of the
community modules is its value, and what holds of a part whenever it holds of that part without
one of its elements holds of all (`PartInduction`), because among the sizes of the
exceptions there is a least one (`Least`, from `NatLessThanWellFounded`).

### Execution queue

Under any timing (invariant `AnyTiming`): `TypeCorrect`, `RowsAgreeAlways`,
`ReleasedFinalAlways`. `JobTargetAgreement` is not inductive alone: that a completing
or failing worker's stale read does not separate the rows rests on who can hold a
claim on a job, on claims of jobs that were never created or were deleted being
impossible or harmless (`Freshness`), and on the bounds of `ClaimCheck`. Under `Prompt`
(`SlowTransactions` FALSE, invariant `Strict`): `AttemptsAccountedAlways`, `ResultImmutableAlways`,
`ResolutionFinalAlways`, `OutcomesFinalAlways` and `ImplementsLifecycle`. Its
strengthening says that a worker inside an ending transaction still owns the
job, and that `retrying` is what the row says: the read is not stale, and what
each status implies of attempts, author and resolution follows job by job
(`JobInv`). The refinement maps `life` to `target`, `result` to `author` and `spent` to
the jobs whose attempts are at the ceiling; a step
moves each target along its kind's lifecycle (`LifecycleMove`), and no two start or
finish together (`OneAtATime`).

### Interactive console

For any number of runs, inputs and lines, any calls given up, lost or late and
every fault of the worker (`ConsoleInv`). `InputOnceAlways`: what the program was
given begins the stored inputs because the worker has written as many as it has
counted (`WorkerFits`); the stored inputs begin what was typed because every request
for a live run, stray ones included, carries the number and the text of an input
that was typed (`Good`), so that the API, which takes the next number only, appends
the typed one. The numbers stay right because the number the page expects next is
the one after all that was typed whenever nothing is pending (`Shows`), although
answers may come late: only the run shown was typed into, of those that live
(`OnlyShownTyped`); a start is under way only while the run shown is over (`Starting`);
and an answer to a control of another run than the one shown is about a run that
is over, and comes before anything was typed into the new one, since the page sends one
control at a time (`Controls`). The last two are what makes the invariant inductive:
a late answer to a stop does take the page back to the old run. `NeverBackAlways`:
an inactive phase comes with a final status (`RunFits`), a worker that lost its
lease holds a run whose phase is still active (`WorkerHas`), so that the phase it
writes unseen does not change what the API tells.

### Submissions

`UsedOnceAlways` holds in any grading mode and however the clock runs: a request
commits only if no submission was added since its snapshot, so the number it
computed, the key it did not find and the grant it found are still so, while
everything else that changes meanwhile changes single rows. `AttemptLimitAlways`
needs `ClockHeld`. Its invariant bounds what counts together with the grants still
usable: a grant moves an attempt from the one to the other and a replacement
moves it back, and every open snapshot that no row has been added to since counted
at least as much as is there now. `ClosedTakesReplacementsAlways` holds in any mode;
`ClosingHoldsAlways` in a graded activity: once archive's first statement has found
every submission finished, and while it holds the activity's row, no edit can
begin or end that reopens one, and a row lock keeps what an edit's holder checked
true (`EditsCurrent`). In a completion-marked activity it is false (section 7).
`CreditedIsBestAlways`: after any number of places of an order the attempt credited so
far is the best of those places (`BestOf`, `CreditStep`). That rests on the invariant
that attempt numbers are distinct, so that of two attempts one is better, and on 0
being the number of no row, so that no attempt means no candidate.

### Provisioning and backup

`TypeCorrect` and `PushedIsKeptAlways` under any timing. Under `LeasesHeld` the
invariant `Strict` strengthens `RowsTrue` by: only the owner of a RUNNING job with
an unexpired lease is at work (`Held`); past its last verification the final
directory is a bare repository (`Verified`); `retry` is what the row says
(`RetryIsCurrent`). `QuarantineIsFinalAlways` and `StaysPutAlways` follow from it.
`ImplementsProvisioning` shows that backups, and services stopped for them, add no
behaviour: every step of `PairSpec` is one of `RepositoryProvisioning` or a stutter,
so that its theorems hold of the backed up system (`RowsTrueHere`).
`BackupSoundAlways` then rests on three things: a READY row stays READY and what is
pushed belongs to one; nothing moves while services are stopped and the system is
quiescent; and each part of a backup says what was true when it was taken
(`DumpHolds`, `ArchiveHolds`, `ManifestHolds`).

### Publication from the browser

Under any timing: `TypeCorrect`, `RecordedOnceAlways`, `SucceededIsPublishedAlways`,
`PublishedOnceAlways`, `NoLostUpdateAlways`. `JobInv` says that an open transaction
belongs to a worker that still owns the job (`TxOwns`: while it holds the row nobody
can claim it), that `publishStarted` precedes it, and that a receipt names the
commit every attempt prepares (`ReceiptsTrue`); `HistoryInv` that what was prepared
extends the branch it expects and that main keeps what a receipt put there. Under
`Fenced`: `RefusedIsNotPublishedAlways`, `ToldIsTrueAlways`, `AuthorizedPublicationAlways`,
from `FencedInv`: whoever publishes is in its transaction, so what the owner of a
job may still refuse has no receipt, or one that was misread before
(`Unpublished`), and the permission it read still stands; and `BranchLimitAlways`: branches are counted with the repository's row
locked (`Alone`) and a branch is made in that transaction while there is `Room`;
nothing else makes one but the first commit of main (`MainFirst`, `AskedWhere`). The
steps of a worker are first reduced to six kinds (`Steps`), and those that write
only the worker's own variables to what they do to its label (`Walk`).

### Workspaces

Checkpoints and practice have no timing assumption. `CheckpointToldIsTrueAlways` and
`NothingOverwrittenAlways` rest on `HeadKnown`: where the commit of a checkpoint can be
(after the head its job expects, since every worker that may still push it has
cloned that head; at the head of a worker about to complete it), and, for the
refusals, on `Quiet`: as long as nothing has failed a job is worked at by its
owner alone. `PracticeConsistentAlways` and `PublishedWhileEligibleAlways` rest on
transactions that own their job (`TxOwns`), receipts that say where a job's commit
is (`ReceiptsTrue`), and a branch whose first commit is the initial job's (`BranchTrue`).
What they say of a job's end holds of the jobs whose receipt was never misread.

### Pushes

`AuthorizedPushAlways`: whoever is past the fence share-locks what permits it
(`Permitted`), for any pool, slots and faults. `PushesAccountedAlways` needs no
assumption: it ties directory, receipt, recovery and activity of each push together
(`Requests`, `LookedAt`, `Receipts`), wherever a kill, a crash or a failed write falls.
`BranchOvershootAlways` bounds the branches there are together with those that the
pushes past the hook may still create (`Future`): a push that passes the hook stays
within the limit but for the branches it deletes (`Passing`), those that passed
before it hold the other slots (`Slots`), and sets of at most `MaxUpdates` names have
together at most that many for each (`Gathered`). Every other step leaves `Future` as
it is or makes it smaller.

### Accounts

Locks of two transactions on a row are compatible (`LocksAgree`). So what a
transaction found of a row it has locked still holds: the session a rotation
claimed is live and its replacement the only other of the family, the password
a login verified is still the user's, a setup's account is still pending, an
administrator being disabled is not the last (`Claims`, `Writes`, `Judged`); and a recovery
holds its user FOR UPDATE, so that no session is inserted between its snapshot
and its sweep. `Undisturbed` is the lemma that carries it: the steps of others that
a set of locks leaves room for. `SessionsSoundAlways` and `AccountsStandAlways` follow,
for any users and requests.

In a class, `ViewSound` says what a serializable snapshot still says truly: every
row that nobody touched since, and that the class was not archived if it is not
fenced off; `LateSound` the same of a call at READ COMMITTED, for facts that cannot go
back. `RolesAndCodeAlways`, `AnswerStandsAlways` and `ArchiveClosesClassAlways` follow.

### Classwork

In a task, what a call takes for lapsed has lapsed and what it locked is as it
saw it (`Sound`); a repository exists as long as its lead is in its team and both
tables of members agree (`Founded`). `SeatsRespectedAlways` then has two parts: `SizeInv`, under
any timing, bounds each team, and `PromiseInv`, under `ClockHeld`, members and live
invitations together. The counting is done by three lemmas about cardinalities
(`OneMore`, `OneFewer`, `LeadAlone`). `ArchivesStandAlways` needs the lock that archiving takes on the row
that new repositories and invitations refer to; they lock no class, so that of a class it
says no more than that it gains no workspace.

Of the division of points, `DistributeIsFair`: for every budget and every
list of weights that are not all zero, the floors and the extra cents of `Distribute`
make up the budget exactly and no share is a cent or more off. The floors leave no
more cents than there are weights with a remainder (`LeftOver`), and since the order by
remainder and index is total, exactly as many weights as cents are left have fewer than
that many before them (`ChosenCount`).

Of authoring, `PublishedIsSoundAlways`, `NoLostEditAlways` and `DefinitionSoundAlways` are
proved, for any calls that overlap and any inputs the schemas accept: as long as the
row has the version a call expects, all that its service and its transaction found is
still so (`Standing`), since no content changes without the version and versions
only grow. `DefinitionSound` needs more (`Graded`, `Drawn`): the rubric and the
points of a weighted activity are those its own total and configuration derive
(`Rewritten`), and the test cases a call is about to write were divided for the row
of the version it expects, although it read row and tests in two
statements. If the row has moved on, the call writes nothing.

### What is only model-checked

Liveness: `LifecycleProgress`, `Settles`, `Answered`, `ReceiptsDrain` (the prover has no
fairness), and `NeverStuck` (it speaks of ENABLED). Every other property of every
run is stated by a theorem.

## 6. Properties and the code they are about

Each property is stated with its comment in its module. The properties that runs
check are conjunctions of named parts:

| Property | Parts |
|---|---|
| `AttemptsAccounted` | `QueuedIsClaimable`, `FailedMeansExhausted`, `ResultOfOwner` |
| `RowsAgree` | `OwnerHoldsClaim`, `ClaimCheck`, `JobTargetAgreement` |
| `OutcomesFinal` | `ResultImmutable`, `ResolutionFinal`, `ReleasedFinal` |
| `UsedOnce` | `TypeOK`, `AttemptNumbersDistinct`, `KeyNamesOneSubmission`, `GrantsUsedOnce` |
| `ClosingHolds` | `ArchivedIsFinished` after every step, `ClosedTakesReplacements` |
| `RowsTrue` | `ReadyIsOnDisk`, `JobStorageAgreement`, `AttemptsMatchStatus` |
| `StaysPut` | `PushedIsKept`, `QuarantineIsFinal` |
| `ToldIsTrue` | `RefusedIsNotPublished`, `SucceededIsPublished`, `RecordedOnce`, `PublishedOnce` |
| `CheckpointToldIsTrue` | `SavedOnce`, `SucceededIsSaved`, `RefusedIsNotSaved` |
| `PracticeConsistent` | `PracticeToldIsTrue`, `Startable` |
| `PushesAccounted` | `RecordedOnce`, `ReceiptKept` |
| `NeverBack` | `ResultStands`, `ShownNeverRegresses` |
| `SessionsSound` | `TypeOK`, `OneLivePerFamily`, `RecoveryEndsSessions` |
| `AccountsStand` | `SetupOnce`, `LastActiveAdmin` |
| `RolesAndCode` | `ClassTypes`, `PrimaryNotStaff`, `CodeOnlyWhenActive` |
| `SeatsRespected` | `TypeOK`, `TeamCapacity`, `OneTeamPerStudent` |
| `ArchivesStand` | `ArchivedTaskSettled`, `ArchivedRepositorySettled`, `NoWorkspaceAfterArchive` |
| `DefinitionSound` | `PublishedIsSound`, `PointsFit` |
| `NoLostEdit` | `PublicationStands`, `VersionNamesContent` |

The invariants relate a job to its target, a row to a disk, a receipt to a branch,
a snapshot's decision to what committed meanwhile; the action properties say what
no later step may undo.

## 7. Disagreements found

Places where code and documentation, or two parts of the code, do not agree, or where a
promise holds only under an assumption that the configuration does not ensure. The modules' switches
and bounds name the assumptions; a promise is stated for where it holds, and
setting the switch the other way shows the case.

Execution and submissions:

1. A retry at the ceiling of `max_claim_attempts` queues a job for ever: claimNext
   takes only jobs below it (`submission.repository.ts:979`), and only a FAILED job can be
   retried or resolved. `exec_strict` has the case; `QueuedIsClaimable` and
   `LifecycleProgress` hold for every other job and name this one (`RetriedAtCap`, `spent`).
2. `complete` checks ownership on an unlocked read and can replace a result
   (`execution-queue.ts:224`). It needs a lease that ends inside the ending
   transaction: `SlowTransactions`, `ResultImmutable`.
3. The retry of a failed completion-marked submission always aborts: it writes points
   that the trigger `check_result_grading` refuses (`submission.repository.ts:960`).
4. In a completion-marked activity `saveReview` may review a submission whose
   failure was resolved while archive is between its counts and its update (it takes no lock
   on the activity: `submission.repository.ts:814`, `activity.repository.ts:562`), which
   leaves an archived activity with a reviewed, unreleased submission. Seen with `Mode` = "COMPLETION";
   hence `ClosingHolds` is for graded activities.

Git:

5. A late provisioning worker moves a READY repository into quarantine before its
   ownership is checked (`repository-provisioning.service.ts:119`): `LeasesHeld`.
6. A browser job can end CONFLICTED although its commit is on the branch, when its
   transaction times out under a slow update-ref and its lease ends
   (`group-browser-commit-worker.ts:49`; `group-browser-ref-worker.ts:56` has the same
   comment): `Fenced`.
7. "Known refusals cannot have updated the ref." (`group-browser-commit-worker.ts:49`):
   a published job whose worker died before `complete` is claimed again, and if then
   `rev-parse` fails on its receipt, for whatever reason, `revision` answers null
   (`git-group-browser-writer.ts:20`, `git-group-browser-ref-writer.ts:24`); the job is prepared
   against the head that it has itself moved, and ends CONFLICTED (or FAILED, if its
   student may not push any more). A practice job
   ends CONFLICTED or FAILED in the same way (`git-practice-writer.ts:17`), and after the
   initial one the workspace cannot be started. `RefusedIsNotPublished`,
   `PracticeToldIsTrue` and `Startable` hold of every other job and name these (`misread`);
   without the exception `publish` and `practice` find them.
8. A checkpoint whose push landed can end CONFLICTED or FAILED when, before it is claimed
   again, somebody pushes on top, its last lease runs out or access is taken away;
   its commit stays on main. Hence `upset` in `RefusedIsNotSaved`. (Test title
   `git-activity-checkpoint-writer.test.ts:41`: "recovers a job whose exact checkpoint
   commit was pushed before database completion".)
9. `PHASE_CHECKLIST.md:247` "Record exactly one safe user-attributed activity per accepted push and
   none for rejected pushes.": a backend killed between its first ref and its whole
   receipt leaves none (`git-smart-http.ts:178`, `:344`), and neither does a receipt that
   cannot be written, whose push is reported as a success all the same
   (`git-transport-hook.ts:248-265`). `ReceiptKept` names these pushes (`cut`).
10. A crash or a failed write between a request directory and its marker, a torn
    receipt, or a removal that stops after the marker makes recovery throw at each
    request until an operator helps (`git-smart-http.ts:200`, `:229`); no receipt that is
    listed after that directory is replayed. `Blocked` in `ReceiptsDrain`.
11. Pushes that pass the hook together exceed `GIT_MAX_BRANCHES` by up to
    `GIT_MAX_REF_UPDATES` for each other slot, and one that creates before it deletes by one less
    (`git-transport-hook.ts:209-214`): `BranchOvershoot` is what is guaranteed.
12. A quiescent backup of a repository that failed with its final directory in
    place cannot pass verification (RESTORED_REPOSITORY_ORPHANED), and a job that
    failed at the retry ceiling with its staging directory left blocks every
    backup; the runbook's `DEPLOYMENT_AND_OPERATIONS_RUNBOOK.md:155` "resolve … through its owning
    workflow" has none for it.

Classes and accounts:

13. `PHASE_CHECKLIST.md:79` "Revoke other sessions after password changes and
    account-status changes.": a refresh that inserts its replacement while the
    change sweeps survives (`auth.repository.ts:208`). Only a recovery, which locks its user FOR
    UPDATE, ends all of them: `RecoveryEndsSessions`.
14. A seat promised by an invitation can be overbooked by one when another
    invitation runs out under the call that accepts it: the service reads the clock before the
    transaction (`repository.service.ts:457`, `repository.repository.ts:1204-1253`). Teams themselves
    stay within their size; the last invitation is refused when it is accepted:
    `ClockHeld` in `TeamCapacity`.
15. `ADMIN_MVP_AUDIT_AND_PLAN.md:26` "ACTIVE needs eligible Instructor": archive a class,
    deactivate its primary (only active classes are counted,
    `user-provisioning.repository.ts:313`), restore it (`class.repository.ts:416-451`). No property says that
    the primary's account is active.
16. A member who was removed returns by accepting an older pending invitation, and
    a restore that races an assignment may leave a PREPARED class with a primary
    (`USER_AND_CLASS_MANAGEMENT.md:34`).
17. An archived class may keep, or by a late createClassProject or createInvitation
    still gain, teams, repositories, invitations and reviews
    (`PROJECT_REPOSITORY_COLLABORATION.md:264`; `repository.repository.ts:502` locks the task, not the class):
    `ArchivedTaskSettled` speaks of tasks, and of a class `ArchivesStand` says only that it
    gains no workspace.

Pages:

18. After a stop that failed, the console's page clears what it displays as pending
    while an input is unacknowledged (`pendingInput`, which the model's `pending` is,
    stays); a late answer about an older run's input may replace a newly
    started run on the page (the orphan EXPIRES after its 30 s).
19. At first load the editor shows starter code while `editorGitHead` is set to the
    existing head (`StudentSubmissionViews.jsx:466-500`): a save right away commits
    starter code over existing work. History keeps it.

## 8. Not modelled, and the plan

Inside the modelled components: see section 2, and corrections of scores, drafts
of reviews, the creation limits of practice, code and review runs; test results
and outputs; logging and formatting. Courses, the gradebook and the work hub are rows
with optimistic versions and read models. The Java runner, repository content
reads, capabilities, health, configuration, email and logging are I/O without state
of their own that outlives a request. The web client is modelled where it holds
state the server relies on (the console); the rest is views.

What is next, in this order:

1. The editor page of an activity workspace (`StudentSubmissionViews.jsx`) with
   `Checkpoints`: what a student sees against what he saves over.
2. Practice and code runs with their limits; corrections; drafts of reviews.
