# EventKit in TLA+

EventKit lets users define a *job* (an area, data providers, file formats) and
*run* it: celery workers fetch and convert the data of each provider, publish
the files for download and zip them.  Its web client is a React application
whose pages share a redux store.  This directory holds TLA+ models of both
halves: on the server, the part where several processes work on the same rows,
files, locks and queues; in the browser, the pages whose requests, timers and
clicks meet in an order nobody chose.  TLC configurations check them, and TLAPS
proofs show the safety properties of all of them for every value of the
constants.  Paths below are relative to `src/eventkit_cloud/`, those of the client to
`src/eventkit_cloud/ui/static/ui/app/`, and the tables of `PROJECT.json` name
the lines every definition stands for.

| module | what it is |
|---|---|
| `TaskStates` | the status values of runs, providers and tasks |
| `ProviderLifecycle` | abstract: what a run may rely on about one provider |
| `ExportTaskChain` | one provider: its chain of tasks against a canceller, one database access per step |
| `ExportTaskChainProofs` | theorems about it for chains of any length |
| `RunPipeline`, `MCRunPipeline` | a run: pick-up, chains, waiting, zip, finalization, cancellation, deletion |
| `RunAndStatusProofs` | theorems about it for any providers and chains of any length, and about `StatusPage` |
| `TaskLocks`, `MCTaskLocks` | locks, requeueing and queues under the chains |
| `TaskLocksProofs` | theorems about it for any chains and any processes |
| `RunAdmission` | concurrent requests to run a job, and the limit on its runs |
| `RunExpiration` | the daily pass that warns and deletes, and users who change dates |
| `RunTableProofs` | theorems about these two, for any requests, limit, runs and intervals |
| `ClientSession`, `MCClientSession` | a tab, its session on the server, pings, auto logout, licences |
| `StatusPage` | the page that follows a run: its timer, and actions on the run |
| `LibraryPage`, `MCLibraryPage` | the list of runs: polling, filters, views, the map, deletion |
| `SessionAndLibraryProofs` | theorems about `ClientSession` and `LibraryPage`, for any licences, pings and limits, runs, queries and page sizes |
| `AoiEditor` | drawing, searching, importing and buffering the area of a job |
| `AoiEditorProofs` | theorems about it for any shapes, lookups and uploads |
| `CreatePage` | the three steps of creating a job, its providers and its submission |
| `CreatePageProofs` | theorems about it for any providers and any requests in flight |
| `GroupsPage` | groups, users, selections and the changes that are sent |
| `GroupsPageProofs` | theorems about it for any users and groups |

`ExportTaskChain` implements `ProviderLifecycle`, and so does every provider of
`RunPipeline`, which therefore may treat a task as a few steps.  The client's
modules are independent of each other: what one page knows of another is in the
store, which is part of its model (what earlier pages left, what comes late).
Three of the modules are extended by a module of proofs together with another one
and therefore carry their name in what every specification has: `StatusInit`,
`ExpirationNext`, `SessionTypeOK` and so on.

## 1. The system

### Inventory

**Export task execution** (`tasks/export_tasks.py`, `tasks/task_process.py`).
State: rows of `ExportTaskRecord` and `DataProviderTaskRecord`, files in the
staging and download directories.  Operations: `ExportTask.__call__`,
`update_task_state`, `task_failure`, `update_progress`, `TaskProcess.store_pid`.
A task gets the result of the link before and hands its own on.  Hard: Django
reads a row into an object and `save()` writes the *whole* row, so every save can
take back what somebody else wrote since the read; a process can be lost between
any two accesses.  Correct if a task once left stays finished, if published
files can be found again, and if the chain settles.

**Cancellation** (`cancel_export_provider_task`, `cancel_run`, `kill_task`,
`DataProviderTaskViewSet.partial_update`).  Runs in the web process, reads the
provider, then all its tasks, then treats them one by one and saves the provider
last.  The kill messages go to a queue of the worker's host.  Correct if what has
not begun never does, if no finished provider is reopened, and if nothing stays
half cancelled.

**Run pipeline** (`pick_up_run_task`, `tasks/task_factory.py`,
`tasks/task_runners.py`, `wait_for_providers_task`,
`prepare_for_export_zip_task`, `zip_file_task`, `finalize_run_task`).  State: the
`ExportRun` row, the records of the providers, the staging directory and the zip
in it.  There is no coordinator: *any* wait task that finds all providers
finished starts a finalization chain, so there can be several.  Correct if a run
is finalized after its providers, gets the right status and a complete zip, and
is finalized at all.

**Locks and queues** (`LockingTask`, `scripts/celery-entrypoint.sh`).  State:
cache keys that live five seconds, queues, busy processes.  A task that does not
get its lock sends itself to the default queue, without the rest of its chain,
which goes on with `None`.  Correct if a body runs once, and in the end, and if no
provider ends before its last task has run.

**Admission** (`create_run`).  State: the runs of a job.  Concurrent READ
COMMITTED transactions count, evict and insert.  Correct if the limit holds (or is
exceeded by no more than the race explains) and no run is lost for nothing.

**Expiration** (`tasks/scheduled_tasks.py`, `ExportRunViewSet.partial_update`).
State: `expiration` and `notified` of every run.  A pass works on rows read when
it began.  Correct if users are warned before a deletion and every run expires.

**Soft deletion** (`tasks/models.py`, `tasks/signals.py`).  Cancels every
provider and marks the run; part of `RunPipeline` and `RunAdmission`.  Files
removed by signals appear only as the state of a task's file.

**Finalize-run hooks** (`FinalizeRunHookTask`).  Record what configured hooks
produce.  Only `prepare_for_export_zip_task` is one unless plugins are configured.

**Sessions and licences** (`auth/auth.py`, `auth/views.py`, `ui/views.py`;
`actions/userActions.js`, `reducers/userReducer.js`, `components/Application.js`,
`components/AccountPage`).  State: the session on the server, shared by all tabs;
the tab's user, `autoLogoutAt` and `autoLoggedOutAt`, its interval of checks.
Hard: a login page answers a request of an expired session with status 200; other
tabs log in and out; pings are answered in any order.  Correct if a tab never
expects more time than the server gives, since it would show data of a session
that has ended.

**Status page** (`components/StatusDownloadPage`, `actions/statusDownloadActions.js`).
State: the job's runs in the store, the interval that asks for them, the
dialogs.  Hard: an interval that is started again is forgotten, not cleared, and
survives the page.  Correct if a dialog acts on the run it was opened for.

**Library page** (`components/DataPackPage`, `actions/dataPackActions.js`).  State:
the list and the request for it in the store, the query, the boxes of the drawer,
the view and what is selected on its map.  Hard: a poll, a filter and a deletion
each start a request that cancels the one before.  Correct if the list shown is
the answer to what the page asks for, and has nothing deleted in it.

**Area editor** (`components/CreateDataPack/ExportAOI.js`, `components/MapTools`,
`actions/mapToolActions.js`).  State: the shape drawn, the area in the store, the
buffer and what it was made of, the tool in use.  Hard: look-ups and uploads are
answered after another tool was taken.  Correct if what is drawn is what will be
submitted.

**Creation** (`components/CreateDataPack/CreateExport.js`, `BreadcrumbStepper.js`,
`ExportInfo.js`, `actions/exportsActions.js`).  State: the step, the settings, the lists of
providers and formats, the submission.  Hard: debounced changes, checks,
submissions and their errors outlive the page.  Correct if what the page shows to be
under way is, and ends.

**Groups** (`GroupViewSet`, `components/UserGroupsPage`,
`actions/userGroupsActions.js`).  State: groups and users on the server, the page's
copies of both, the drawer, the selection.  Hard: the page sends whole lists of
members; lists and changes are answered in any order.  Correct if the page's own
changes are shown, and a selection is of what is listed.

**Not concurrent, or outside TLC's reach**: the rest of the REST API
(serializers, filters, validators), jobs and presets (rows created once),
feature selection (YAML to SQL), format conversion and services (GDAL, osmosis,
MapProxy), provider checks, geocoding, the client's components that only draw,
administration commands, settings and deployment.  `PROJECT.json` lists each with
the reason.

### Interactions

    web process --create_run--> ExportRun --pick_up_run_task--> worker
    worker      --parse_tasks--> a chain per provider:
                  task ... task -> finalize_export_provider_task -> wait_for_providers_task
    wait task   --all finished--> prepare zip -> zip_file_task -> finalize_run_task
    web process --cancel / delete--> rows of run, providers, tasks; kill messages
    beat        --expire_runs--> mails, deletions
    (all share the database; workers share staging directories and the lock cache)

    browser: page --action--> request --> web process --answer--> redux store --props--> pages
    timers:  10 s list of runs, 5 s details of a job, 1 s check of autoLogoutAt,
             a ping per minute of activity, debounced edits
    (a page that is closed leaves its requests, its debounced edits and what is in the store;
     the session cookie is shared by the tabs)

### Hazards

`PROJECT.json` lists what is hard to test, at its line, with the properties that
cover it.  Behind most of them is one of these: a row saved from an old copy; two
finalization chains on one directory; a chain whose process died; a lock that
expired, was deleted by someone else, or sends a task away without its chain; a
loop left early.  In the client: an answer that comes after the page, the query or
the dialog it was meant for has changed; a timer nobody clears; an object shared
by two components; a flag that one of two requests resets for both.

## 2. The models

### ExportTaskChain

One provider with a chain of `NTasks` tasks.  Rows: `task`, `prov`, `file`,
`staged`.  The worker (`wpc`, `cur`) holds two copies of a row: `copy`, which
`__call__` reads first (195) and saves last (266), and `row`, read by the function
now running.  `last` is the status in the result it was given.  The canceller
(`cpc`) holds `pcopy`, the provider it read, and `rows`, its task query.

| action | code |
|---|---|
| `TaskStart`, `FetchRow`, `SaveCeleryUid`, `CancelBeforeRun`, `PassCancelCheck`, `MarkRunning`, `MarkProvider` | `__call__` up to the body, with `update_task_state` |
| `BodyEnds`, `BodyRaises`, `BodyCanceled` | `run()`: it ends, raises, or `TaskProcess` notices the cancellation |
| `ReadProgress`, `SaveProgress` | `update_progress` |
| `CheckProvider`, `Publish`, `SaveSuccess` | unless the provider is CANCELED the file is copied to the download directory, and then the result and the row are saved |
| `SaveRaises` | any of that raises: the file may be published and nothing links it |
| `FailRead`, `FailSave`, `FailMailError` | `task_failure`, one transaction; the email error handler may raise in it |
| `FinalizeProvider` | `finalize_export_provider_task` |
| `CancelBegin`, `CancelQuery`, `CancelTask(i)`, `CancelProvider` | `cancel_export_provider_task` |
| `KillTask(i)`, `WorkerLost` | `kill_task`; a process dies |

`cancel_synchronous_task_chain` is the identity in the model because it is in the
code: it compares an enum member with a string (1339), so it saves nothing.
Messages are acknowledged before they are worked on (celery's default), so a lost
process loses its chain.  `unrecorded` is history: the tasks that failed, or whose process was
lost, after their file was copied (252) and before their row was saved (266).

### RunPipeline

`pickup` and `prun` are `pick_up_run_task` and its copy of the run; `chain`,
`left`, `last`, `outcome` a provider's chain (`MarkProvider` saves RUNNING after
`StartTask` has looked; `EndTask` ends a task); `fpc`, `flist`, `frun` the finalization chain that the
wait task of a provider started; `ccl`, `seen`, `del`, `drun` cancellation and
deletion; `edit`, `erun` whoever else saves the whole row of the run, which are
`ExportRunViewSet.partial_update` (api/views.py:797-811) and `expire_runs`
(scheduled_tasks.py:57, 63); `stopped` the providers whose task rows a completed
cancellation has all treated.

A finalization chain is a step per access of what another one shares with it:

| action | code |
|---|---|
| `PrepareZip` | `prepare_for_export_zip_task` |
| `SkipZip`, `OpenZip`, `CopyZip`, `EndCopy`, `ZipFails` | nothing to zip; the zip file opened for appending (1106); closed, and the download opened, which empties it; the copy's end (1148); no staging directory |
| `RefreshRun`, `SaveUrl` | the run row is read again (1153) and saved with the url (1158), or the save fails and is logged |
| `ReadRun`, `ReadProviders`, `SaveRun` | `finalize_run_task`: the run (1255), its providers (1262), the save (1268) |
| `RemoveStageDir`, `LoseFinalizer` | `after_return`; the process dies |

With several processes per host (`CONCURRENCY=4`, docker-compose.yml:76) two such chains
are at these steps at once.  `archive` is what the zip file in staging has, `download`
what the copy has.  When two chains are at the zip file together, or one dies there,
`spoiled` is set: from then on what is written or copied may be unreadable, which the model
takes as empty.  `undone` says that an old copy of the run row was saved by `edit`.
`MaxRequests` and `MaxLosses` bound how many requests of users the run meets, and how many
of its processes die.  Approximations:

- A provider's tasks are not told apart, except for the last result.  A canceller that
  has begun may or may not have reached the next task (`SkipTask`).
- The view's deletion is one transaction; its writes appear at its commit.  It
  holds the row it read meanwhile (`drun`), which is what it saves.
- One zip file in one staging directory, known by the providers in it.  That a write
  or a copy of it raises, but for a missing directory, is not modelled.
- No plugin hooks.  Locks are taken as granted (`TaskLocks`).

### TaskLocks

Two or more chains of `NTasks` export tasks, a finalize link and a wait link, run
by any number of processes of two kinds (the host's queue and the default one; docker-compose.yml:76
starts four of the first).  Only `LockingTask`s take locks: the finalize link does not
(`Locks`; its base is `UserDetailsBase`, export_tasks.py:1037).  Messages say
whether the rest of the chain travels with them and whether they were given a
result.  Celery sends the next link *before* `after_return`, where the lock goes:
that is why the next link can find the lock taken with no bad luck at all.
`Expire` may remove any key at any time, since five seconds is less than most
bodies take.

### RunAdmission

`CountRuns`, `PickEarliest`, `SoftDelete`, `CreateRun`, `Commit` are the statements
of `create_run`; a transaction sees what is committed and its own writes, and
`SoftDelete` waits for a row another one has written.  `Refuse` is a failing
licence or ownership check, `Rollback` any other failure; `MayFail` bounds the
requests they happen to.  `BreakDeadlock` is external: of transactions that wait
for each other in a circle PostgreSQL aborts one, whose `DatabaseError` leaves
`create_run`.

### RunExpiration

Time is in days; a date within a day is rounded up, which leaves every comparison
of the midnight pass as it is.  `ReadRuns` is the query, `Delete`, `Warn`,
`PassOver`, `Break` the branches of the loop, `EndPass` its end, `LosePass` a
message or process lost.  `BeginPatch` and `SavePatch` are the read and the save of
`partial_update`.  Runs that are not in the table are `NoRun`.  `Warn` makes a warning, whose
mail goes out or does not, since its failure is swallowed (87-92): nothing in the code tells
the two apart, and the row is saved as notified.  History, a day for each run: `warned`, such
a warning was made; `handled`, a pass came to the run, found it as it had read it, and no
request has changed it since; `quiet`, that when the pass now running read the rows.

### ClientSession

A time is the number of ticks left until it, so `Tick` lowers all of them.  The
tab is modelled in detail, other tabs act on the server only (`OtherPing`,
`OtherLogin`, `OtherLogout`, `OtherAgree`).

| action | code |
|---|---|
| `ServeAuth`, `ServeLogin`, `ServeLogout`, `ServePatch`, `ServePing` | the views, under the middleware that ends an idle session (`auth/auth.py`) |
| `Gate`, `Show` | the route wrappers of `index.js`, the mounting of Account |
| `CheckAutoLogout`, `CheckWarning`, `StayLoggedIn`, `UserActiveInput`, `AllowPing` | the timers and listeners of `Application.js` |
| `UserActive(p)`, `LoginAnswered`, `LogoutAnswered`, ... | the answers, as the actions and the reducer take them |
| `Check`, `CheckAll`, ... | the licences of the account page |

An expired session's request is redirected to the login page, and its text arrives
as a success: as a user (`"page"`), or as an answer to a ping without a time, after
which the tab checks nothing (`Never`).  `Lose` loses a request before or after the
server has acted.  The OAuth round trip is a login like any other.

### StatusPage

`server` has the newest run of each job, `gets` the requests for details, `shown`
what the store holds.  `intervals` and `timeouts` are those that no page can clear
any more: `startTimer` is called again after a rerun and forgets the interval
before, `StartTimeout` likewise.  `Received` is the reducer and the page together: it
draws what came (`Draw`), and looks at the details only if `fetched` has just become
true.  A deleted run answers with an empty list, for which the page throws
(`broken`); `Reload` is the user's way out.  A new expiration or permission is one
action, `Updated`, since all it changes here is that the details are asked for again.

### LibraryPage

`request` is the one request that is not cancelled; `params` is what it asks with,
`got` what the list in the store was asked with.  Everything the user does to the
list is `Ask(s)`: `setState`, and the request made of the new state.  A query includes the
order, which the sort menu changes.  The column headers change nothing: their handler,
`handleSortChange`, is passed on without being bound (DataPackPage.js:114) and throws.
`shared` says that the page and the drawer hold the same objects,
as they do after Apply.  `selected`, `popup`, `red` are the selection on the map and
how it is drawn; `dialog` is the delete dialog, which lives in an item and goes with
it.  One run fills a page of the list, in the code twelve do; dates, the permission
filter and sharing are left out.

### AoiEditor

A shape has an area or is flat; a polygon is drawn valid or not; a buffer is there
or not, and a collection of features is told by the selection it was made from.
`drawn` is the draw layer, `aoi` the area in the store, `preview` the features
buffered last, `change` a buffer value that waits for its debouncer.  The tools of
the map, each with its buttons, dialogs and answers, are an action per handler;
`strays` are look-ups of a page that has been left, whose component still writes to
the store.  A buffer value may
outlive its page by the 50 ms of the debouncer (`Outlived`).  `late` is history: an answer
has found the page busy with something else.

### CreatePage

The three steps and the store they share.  `timers` and `posts` tell the submissions
of this visit from earlier ones, of which there may be any number: `submitDatapack` checks
nothing, the overlay only covers the button, and the server may answer with an error after it
has committed the job (api/views.py:301-374), so that a retry makes another.  `unanswered`
is history: a submission of this visit got no response.  `edit` is a debounced change of
the name, whose component writes its *own* settings when it has gone; `providers` is how far
their availability is known.  `Mount` is the stepper with its first step and what it
sees in the store at once; `MountInfo` throws without formats, and
`ProvidersReceived` makes the second step throw, since the availability of
new providers is undefined.  The area is that of `AoiEditor`, here there or not.

### GroupsPage

`server` has the groups; `changes` the user's changes in flight, answered in any
order; `doing` and `done` the flags of the reducer, one per kind of change, which is
why two changes at once are told as one; `getGroups` the request for groups,
`getUsers` the number of those for users, which are not cancelled.  `fresh` says
whether a list was read after all changes this user has made.  A change may be answered
with an error although it was made (a proxy's, docker-compose.yml:108-124); `missed` is
history, of that and of two changes of a kind under way together.  The menu of the table's
header can be opened and used over the overlay (`OpenHeaderMenu`).  `ServeUpdate`,
`ServeCreate`, `ServeDelete` are what the server makes of them, one step each.

## 3. What is checked

Eleven runs pass, one for each component, and one ends in the violation of what a comment
of the code says.
Deadlock is not checked anywhere: the server's systems stop when their work is
done or lost, and the client's when the bounds on requests are used up.

| run | bounds | distinct states | shows |
|---|---|---|---|
| `chain` | 3 tasks, the 2nd aborts on error, 1 progress update each, 1 cancellation | 250 021 | a provider's tasks survive the lost updates between worker and canceller |
| `run` | 2 providers of 2 tasks, one cancellable, run deletable, its expiration set once; 1 of these requests, 1 loss | 594 689 | finalization comes after the providers, whose lives are `ProviderLifecycle`'s; the zip is complete, the end kept, and the run concluded |
| `locks` | 2 chains of 3 tasks, one task in the default queue and one without a key, 2+1 processes | 198 234 | every body runs exactly once, and a provider ends after its last task |
| `admission` | 5 requests, one of which may fail, limit 1 as in `settings/prod.py`, no old runs | 605 831 | the excess is bounded, every request ends |
| `expiry` | 2 runs, one without email, 1 superuser, 5 days, 1 lost pass | 1 378 112 | a deletion follows a warning made in the last days |
| `session` | 1 licence, 2 pings, 2 requests in flight, 2 ticks, a warning at 1 | 1.0 million | a tab expects no more time than it has |
| `status` | 2 jobs, one of the user's own, 2 runs each, 2 detail requests, 1 stray timer | 1.8 million | an action is taken on the run it was asked for |
| `library` | 2 runs, 2 queries, 2 pages | 227 756 | the list answers the page's question, without the deleted |
| `aoi` | 1 shape with an area, 1 without, 1 look-up, 1 upload | 1 002 096 | what is drawn is what is selected, and has an area |
| `create` | 1 provider, 2 submissions, 2 lists, 2 checks | 550 762 | the overlay ends, and so does a check |
| `groups` | 2 users, 1 group, 2 changes, 2 lists of users, 1 change by the other | 2 067 293 | own changes are shown |

**chain.**  `PassedTasksFinished`: no save from an old copy reopens a task that
was left.  `CancelReachesUnstarted` and `CanceledNeverRuns`: a completed
cancellation stops all but the task in progress, in spite of the lost updates.
`FileRecorded`: a published file is orphaned only by a failure or a loss between the copy
of the file and the save of its row, or by one race with the canceller, which it names.
`NothingSucceedsAfterAbort`: nothing cancels the tasks after an
abort, but without staging directory none succeeds.  `ClosedIsFinished`,
`ChainSettles`, `LifecycleSpec`.  Three tasks give one that aborts, one before
and one after it; two progress updates in a task would repeat one.

**run.**  `FinalizedAfterProviders`, `LifecycleSpec`; `ZipIsComplete`, `EndIsKept`;
`RunConcludes`.  The exceptions
in them are part of the result: `Touched` providers, because a cancellation makes a
provider finished while a task still runs; a deleted run; a run some process of
which was lost, whose chain nobody resumes; a run with nothing to run.  `ZipIsComplete`
excepts the zip file that two chains were at together (`spoiled`), of which the code promises
nothing; it leaves all the orders in which they are there one after the other,
one of them finding nothing staged, or emptying a download by beginning its copy again.
`EndIsKept` does *not* say that the end is never taken back: the save of the url may
(1153-1158), but then the chain that did so is still to end the run again, unless
it dies first.  Only an old row saved with a new expiration (`undone`) undoes the end for good.  Two
providers are needed for two finalization chains, two tasks for a chain that
is between tasks when a user interferes.  One request, which may come at any time, meets
everything the chains save; what two of them do to each other, a deletion that follows a
cancellation or a change of the expiration, is left to the proofs, which hold for any
number.  One loss is one chain that stops anywhere: `RunConcludes` asks nothing after it,
and the other properties, again, are proved for any number.

**locks.**  `RunsOnce` and `TasksRun` together are *exactly once*.  Not in order: with
two processes on the host's queue a task that was requeued is overtaken by its
successors, and when it is received later it sets its provider to RUNNING again.
`LastTaskBeforeEnd` is what remains: no provider ends, and no run is finalized, before the last
task has run.  It rests on what a task that was locked out returns, `None`, for which
the finalize link raises.  Two processes on the host's queue already overtake; more of them, or
more on the default queue, bring no other kind of step.

**admission.**  `BoundedExcess`: the limit is exceeded by at most the requests that counted
while another was under way.  `RequestsEnd`: requests that wait for each
other's rows end, and those whose counted runs have gone do not loop for ever.  Five
requests, since up to four there is no deadlock: a run may be committed after a later
one, so that of two requests that have both counted two runs one deletes the later
run first and the other the earlier; with four requests, limits of 1 and 2 and up to
3 old runs TLC finds none.

**expiry.**  `DeletedWasWarned`: a run that one pass of its last days came to, and nobody
changed since, is deleted only after a warning made within its last days; also when other
passes were lost or broken off, and when passes and requests saved old rows before.
That a warning is made does not mean that it is mailed, which the code does not know either.  The intervals are scaled (14, 7, 2
and 30 days to 4, 3, 2 and 3), keeping their order; five days include a first
warning, a second one, the deletion, and a pass lost between any two.  The one
request is a superuser's, who may set any date, and can come again after it was saved.

**session.**  `DeadlineWithinSession`: the tab's deadline, and every time on its way
to it, is no later than the end of the session there is; in whatever order pings
are answered, while other tabs log out and in again.  A deadline that is too
early is possible (logging in again keeps the old one), and allowed.  Two pings
are needed to be answered out of order, a limit of two ticks for a warning before it.

**status.**  `ActsOnTheRunAsked`: while a dialog is open, the run in the store, which is
the one the request names, is the one it was opened for, although strays fill the
store with other runs and other jobs.  It rests on the key by which the page draws
its run, and no handler looks at it.

**library.**  `ListAnswersState`: a list without spinner is the answer to what the page
asks for now; but for the boxes, where the drawer may have changed the object the
page holds.  `DeletedIsGone`: no run whose deletion was confirmed comes back.  Two
runs give a selection that is lost while another stays, two queries two requests to confuse.

**aoi.**  `SelectionIsDrawn`: unless an answer came late, what is drawn is what the store
has.  `AreaBeforeNext`: the Next button needs an area; but for a search that comes
after another selection, which leaves the button as it was.

**create.**  `OverlayEnds`: the overlay is shown only while a submission of this visit is to
be made or answered, however earlier ones are answered meanwhile; only one that gets no
response leaves it for ever.  It rests on `SUBMITTING_JOB` clearing what the last submission
left.  `PendingIsChecked`: no wheel turns without a check in flight.

**groups.**  `OwnChangesShown`: the page's own changes are in the list it shows once
nothing is in flight, unless two of a kind were, or one that was made was answered with an
error (`missed`).  `SelectionIsListed`: no
user is selected who is not listed, unless two lists crossed (`crossed`).

The histories `late`, `missed` and `crossed` name the races in which the
code does *not* keep these promises; nor do these properties notice a preview that is
applied to a later selection (ExportAOI.js:591), since map and store are then wrong
together.  Each begins at one line, given with the hazards, as one that no property covers.

### Disagreements between code and comments

`leaves_only_if_asked`: `GroupViewSet.partial_update` says (api/views.py:1127) that a
member leaves a group by a request with no body, and (:1134) that only administrators
change it; in the code (:1146) *any* request of a member who is not an administrator
makes him leave.  A user who was demoted after the page was loaded, and renames the
group, leaves it.

Also met while modelling:

- the tasks after an abort are started, since an enum is compared with a string
  (export_tasks.py:1339 against :191);
- a file published after the canceller's query stays (:1396);
- a provider is COMPLETED when its last task succeeded although an earlier one
  failed (:1055 against :1048);
- `celery_uid` is overwritten by the task's last save (:266 against :324);
- the status of a run is computed from rows that change before it is saved (:1262);
- the second of two finalization chains appends to the first one's zip, and its save of
  the url can make a COMPLETED run SUBMITTED again until it ends it itself (:1153);
- a cancellation never updates the run (:1354 says it does);
- two bodies can hold one lock key after a key expired or was deleted by a third task (:144);
- a requeued task overwrites the end of its provider with RUNNING (:346), so that all wait
  tasks may find a provider running, and nobody finalizes the run;
- two finalization chains can be at one zip file at once (:1106), and nobody repairs what
  comes of it, although the task "rolls up runs into a zip file" (:1069): a run can end with an
  archive from which providers are missing (`spoiled`);
- counting runs takes no lock, so the limit can be exceeded (:207);
- of two requests that delete the same runs in opposite orders the database aborts one
  (:211): the earliest run may become visible after a later one;
- a save of an older copy undeletes a run (tests/test_models.py:103);
- `expire_runs` "Emails users one week before scheduled expiration time" (scheduled_tasks.py:32),
  but a mail that fails is logged (:91) and the row saved as notified (:57, :63): no later
  pass tries again;
- it "Expires all runs" (:31), but breaks off at the first whose user has no address (:43);
- `expire_runs` deletes a run that was extended after the pass read it (scheduled_tasks.py:48);
- a change of the expiration takes back the end of a run that came in between (api/views.py:811);
- of two concurrent changes of an expiration the later can shorten what the other extended
  (api/views.py:806);
- client: the checks for auto logout stop when a request to log out fails, and the page
  stays blank; a licence that another tab agreed to is withdrawn (Account.js:57, in spite of :47);
- client: a selected run that has gone makes the next click on the map throw
  (MapView.js:336-344);
- client: `setInterval(providers.forEach(...))` checks providers once, not every
  30 seconds (ExportInfo.js:117);
- client: every retry of a submission that was answered with an error may make another job
  (api/views.py:301-374), and so does the keyboard, under the overlay (BreadcrumbStepper.js:252);
- client: a click on a column header of the library throws (DataPackPage.js:114);
- client: new providers, or a step back before the formats are there, make the second
  step throw; a vertex of an invalid polygon moved back makes the first one throw.

### Fairness

Weak fairness of the worker's steps: celery processes keep consuming their
queues, and the tools a body runs end.  Of a request that has begun: Django runs
it to its end (or the process dies, which rolls it back), and the database looks for
deadlocks after `deadlock_timeout`.  Of `Tick` and the pass:
the beat fires every day.  Nothing that a user does or that fails is fair: nobody
has to cancel, delete, change a date, and no process has to die.  In `TaskLocks`
each process is fair on its own, since each is an operating system process, and
the expiry of a key need not come, because `after_return` deletes keys.

The client's modules state no fairness and no liveness: every request may stay
without an answer, for which the handlers throw, so that nothing must happen there.

## 4. What is proved

Every invariant and every action property of a run is a theorem, and so are the two
refinements.  No theorem has an assumption but the named ones of the modules.  Where
one module of proofs extends two components, these share no constant, variable or
assumption, so that a theorem about one of them supposes nothing of the other.

### ExportTaskChainProofs

For every `NTasks` in `Nat \ {0}`, every set `AbortTasks` of tasks and every
`MaxUpdates` in `Nat`:

| theorem | property |
|---|---|
| `TypeCorrect` | `TypeOK` |
| `NoTaskReopened` | `PassedTasksFinished` |
| `CancellationComplete` | `CancelReachesUnstarted` |
| `CanceledTasksStop` | `CanceledNeverRuns` |
| `FilesAreRecorded` | `FileRecorded` |
| `AbortIsFinal` | `NothingSucceedsAfterAbort` |
| `ClosedForEver` | `ClosedIsFinished` |
| `ImplementsLifecycle` | `LifecycleSpec` |

All rest on `Invariance`: `IInv` holds in every reachable state.  None of the
properties is inductive, because none says anything of the rows the processes
hold in memory, and it is those that are saved later.  `IInv` adds how stale each
copy can be:

- `AtTask`: while busy the worker is at a task, and past the last one at the end.
- `NotEnded`: the current task and those after it have not ended, in the
  database or in anybody's copy, and have no file.  So no save of a copy can
  bring a result into a task not yet run.
- `SameRead`: until the cancel check both of the worker's copies agree, so what
  that check sees is what `copy` says (`CanceledNeverRuns`).
- `UnstartedRows`: until the canceller comes to a task not picked up, the row
  and the canceller's copy are new; afterwards it is CANCELED.
- `ResultsAreSuccesses`: a row with a result is a success, and a success the
  canceller has yet to treat still is one, so that its save reopens nothing.
- `AbortRemovesStaging`: after an abort there is no staging directory, and without
  one nobody is past the body.
- `ProviderCopy`: before it is saved, the canceller's copy of a finished provider
  is up to date, so its save cannot take a closed provider back.

The proof has one lemma per group of actions and one step per conjunct an action
can disturb.  The refinement theorem maps each action to `Mark`, `Close`, `Lose`,
`Cancel` or a stutter, from `IInv`.

### RunAndStatusProofs

A run, and the page that follows it.

*The run.*  For any set of providers, any positive number of tasks in a chain, and
whatever a user may cancel, delete or set, any number of such requests and of losses
(`TaskCountAssumption`, `CancelableAssumption`, `DeletableAssumption`, `EditableAssumption`,
`MaximaAssumption`):

| theorem | property |
|---|---|
| `TypeCorrect` | `TypeOK` |
| `WaitsForProviders` | `FinalizedAfterProviders` |
| `CompleteZip` | `ZipIsComplete` |
| `EndIsRestored` | `EndIsKept` |
| `ImplementsLifecycles` | `LifecycleSpec` |

The properties speak of the rows; the rows are what several processes save as they read
them earlier.  `IInv` says who can have written what, and what a copy still to be saved
would make of it:

- `SentAfterParsing`, `StageSays`: before the chains are sent nothing is decided or
  finalized, and every copy of the run row is the submitted one; then, what each stage
  of a chain says of its provider.
- `Writers`, `CancellerCopy`: only the finalize link writes that a provider has ended,
  and only users that it is CANCELED; a canceller that read an ended provider saves
  what is still there.
- `OutputRecorded`, `StagedUntilDone`: a completed provider has a file, and the staging
  directory goes with a finalization chain that has done its work.
- `ZipPhases`: a finalization chain about to write the zip lists everything completed,
  or lists nothing and the zip is complete; one that writes or copies it has listed
  everything; later it knows that the download is complete, or that another chain is
  copying again, and from `ReadRun` on that what it read of the run row has the url.  This is
  why two such chains one after the other do no harm: one that finds nothing staged comes
  after another that is done.
- `EndedIsZipped`, `RunCopies`: an ended run has its zip and was ended by a finalization
  chain; a row that `SaveRun` is about to save is finished, one that a deletion is about to save
  deleted.  `EndIsKept` itself is a conjunct: each step that could take the end back is one of
  a chain whose `SaveRun` is to come.

The first two hold while no user interferes, no two chains were at the zip file together and no
old row was saved (`Clean`): the theorem says as much of what these leave as is left.

`AllDecided` is what all of finalization needs: while no user interferes, providers
that are looked at have the status their own finalize link gave them.

*The page.*  For any set of jobs, any of them the user's own, and any positive bounds on
requests, runs and strays (`JobsAssumption`, `BoundsAssumption`):

| theorem | property |
|---|---|
| `StatusTypeCorrect` | `StatusTypeOK` |
| `RightRun` | `ActsOnTheRunAsked` |

A dialog stays about the run in the store because drawing another run closes it; so
`StatusInv` adds `DialogIsDrawn`, that only a page that draws has a dialog.  Without it
an answer could replace the run behind a page that draws nothing and keeps its dialog.

### TaskLocksProofs

For any chains, any sets of tasks without a key or without a queue, and any processes
(`NTasksAssumption`, `TaskSetsAssumption`, `NoProviderAssumption`).

| theorem | property |
|---|---|
| `TypeCorrect` | `TypeOK` |
| `OnceOnly` | `RunsOnce` |
| `LastTaskFirst` | `LastTaskBeforeEnd` |

A *token* is a message whose task is still to be run, in a queue or in a process that
has taken it.  `OnceOnly` follows from `OneToken` (no link has two), `NotRunYet` (none
that has run has one) and `Foremost`: what travels with the rest of the chain is the
foremost link of it, so the next link that is sent is new.  None of them mentions a
lock: `TokenMoves` shows once that a step that replaces a token by one for the same link
and at most one for the next keeps them, and every action is such a step, whatever
expires.  Requeueing is the one that has to be right: if the copy that is queued
again kept its chain, the next link would be sent twice.

`LastTaskFirst` adds `ResultOfRun`: a message that was given a result follows a link that
has run.  The finalize link sets FINISHED only with a result, which its message has only from
the last task; a wait link that finds all providers FINISHED therefore finds all last
tasks run.

### RunTableProofs

The two modules about the rows of `ExportRun`.

*Admission.*  For any finite set of requests, any limit and any number of old runs
(`RequestsAssumption`, `MaxRunsAssumption`, `OldRunsAssumption`), whichever of the
requests may fail (`MayFailAssumption`):

| theorem | property |
|---|---|
| `TypeCorrect` | `TypeOK` |
| `ExcessIsBounded` | `BoundedExcess` |

A request relies on a count that
others make wrong, so `IInv` adds `Accounted`: for each request under way there is a
set `S` of requests accepted since it counted, such that it sees at most `S` more runs
than it believes there are, and of `S` and the requests under way all but one have
raced.  A commit then leaves at most the limit and `S`; and `S` is no larger than
`raced`, because either all of `S` have raced, or all but one and the request itself.
That a run is about to be deleted counts as deleted (`Left`, `Believed`): another
request may delete it first, and has then made room for its own.

*Expiration.*  For any runs, any requests, superusers and users without email among
them, and any choice of the days that `DaysAssumption` allows:

| theorem | property |
|---|---|
| `ExpiryTypeCorrect` | `ExpirationTypeOK` |
| `WarnedBeforeDeleted` | `DeletedWasWarned` |

`ExpiryInv` adds `WarningsMade`, that no copy of a
row, in the table, in the pass or in a request, notes a warning later than the last one
made; and, of the runs the pass came to, `HandledSpared` and then `QuietSpared`: they
expire later, and if within `ShortLead` days, there was a warning of those days.  An old
copy saved over a row may forget a warning but cannot invent one.

### SessionAndLibraryProofs

Two pages that rest on what is on its way to them.

*The session.*  For any set of licences, any pings, any bound on the requests in
flight, and any limit with a warning before it (`LimitAssumption`, `PingsAssumption`):

| theorem | property |
|---|---|
| `SessionTypeCorrect` | `SessionTypeOK` |
| `WithinSession` | `DeadlineWithinSession` |

The second is inductive once the types are known, because it speaks of the times *on
their way* too: when a session ends or is renewed, the lemma `NoMoreTime` says that no
step takes a tick from the session that it leaves to the tab's deadline or to an answer.

*The library.*  For any finite set of runs and any queries and page sizes (`RunsAssumption`,
`BoundsAssumption`):

| theorem | property |
|---|---|
| `TypeCorrect` | `TypeOK` |
| `AnswersState` | `ListAnswersState` |
| `GoneForGood` | `DeletedIsGone` |

Neither property says anything of the requests in flight, whose answers become the
list.  `IInv` adds `RequestsAskForState`, that the request of an open page asks for
what the page asks for now, but for boxes the drawer shares; `NothingConfirmedComes`,
that the answer it brings has no run whose deletion was confirmed; and `DeletionDone`,
that a deletion which is answered has taken place.  The step that matters to all of
them is `AskPreserves`: a new request cancels the one before.

### CreatePageProofs

For any finite set of providers and any positive bounds on submissions, lists and
checks (`ProvidersAssumption`, `BoundsAssumption`):

| theorem | property |
|---|---|
| `TypeCorrect` | `TypeOK` |
| `OverlayGoes` | `OverlayEnds` |
| `PendingChecked` | `PendingIsChecked` |

`OverlayEnds` is not inductive: the page goes on when it sees a success appear in the store,
and one left there by an earlier submission would hide that of this one, so `IInv`
adds `Expected`, that there is none while a submission of this visit is in flight.  Most
steps are `Quiet`: they leave submissions and overlay alone, and one lemma (`QuietSteps`)
leaves of them only the part of the state they change.  What remains is the click, the
timeout, and the three answers.

### AoiEditorProofs

For any shapes, flat ones among them, and any bounds on lookups and uploads
(`ShapesAssumption`, `BoundsAssumption`):

| theorem | property |
|---|---|
| `TypeCorrect` | `TypeOK` |
| `ShownIsSelected` | `SelectionIsDrawn` |
| `AreaFirst` | `AreaBeforeNext` |

The area in the store, the draw layer, the tool and the Next button are set by
different handlers, and most of these look at one of them only.  `SelectionIsDrawn` is not
inductive: drawing makes it vacuous, and it has to hold again when the drawing ends.
`IInv` says what the tool in use knows of the others:

- `NoToolNoArea`: without a tool there is no area, so that drawing and importing,
  for which a tool is chosen first, start from nothing.
- `DrawingAlone`, `ImportAlone`: while a box or a polygon is drawn, or the import dialog is
  open, there is no area in the store; what is drawn, or imported, can only become it.
- `OneDrawn`: the layer has one feature at most, so that a vertex is moved of the one that
  was selected.
- `DialogsHaveArea`, `SelectionTyped`: a dialog for buffering or reverting is over an area,
  and an area has the one to revert to.  So `OnBufferClick` and `ResetAoi` draw what they save.
- `SearchSelects`: while the search tool is in use, the area is what a search selected, or
  there is none and Next is off; this is what `AreaBeforeNext` has to know when another
  tool takes over.
- `WentOnWithArea`: the user comes back from a later step to what was gone on with.

Most of them speak of a page no answer has disturbed (`Calm`): `late` is what the theorems
except.
Handlers that leave store, layer, tool and button alone are one lemma (`SameAreaSteps`).

### GroupsPageProofs

For any users and groups and any bounds (`UsersAssumption`,
`BoundsAssumption`):

| theorem | property |
|---|---|
| `TypeCorrect` | `TypeOK` |
| `OwnShown` | `OwnChangesShown` |
| `SelectedListed` | `SelectionIsListed` |

`OwnChangesShown` speaks of a page at rest, and nothing keeps it there.  `IInv` says what
an open page is waiting for while its list is old:

- `Awaited`: unless a change was `missed`, each one on its way is the
  one the page waits for, so that no other answer can be taken for it.
- `OldIsAwaited`: an old list, shown or on its way, is either about to be replaced by one
  that was asked for after the change, or of a change the server has made and whose
  answer, which makes the page ask again, has not come.
- `AnswerNoticed`: the answer to a request for the users that is alone changes a prop,
  so that the page looks at its selection again.
- `ClosedSelectsNothing`: a page that has gone selects nobody.

### Only model-checked

Liveness (`ChainSettles`, `RunConcludes`, `TasksRun`, `RequestsEnd`), which needs
ENABLED and fairness.  And `LeavesOnlyIfAsked`, which does not hold.

## 5. Not modelled

Feature selection, format conversion, data services, geocoding and provider checks
are sequential code around external tools: their results are choices in the models.
Serializers, filters, validators and routing keep no state.  The components of the
client that only draw, and `bootstrap.js`, have nothing to check.
`ServePing` takes the
computation of `last_active_at` (ui/helpers.py:225) and the save of the session by the
middleware as one step: two pings served at once may be saved in the other order, by which the
session ends earlier than the later answer says by what the server takes to handle
them, which is far less than a tick.  Partly modelled:
the hooks of `FinalizeRunHookTask`, of which only `prepare_for_export_zip_task` is
active without plugins; `GroupViewSet`, whose requests are one step each, so that
two that interleave are not covered; `Application`'s drawer and its timeouts.
`PROJECT.json` gives the reason for each component and for each hazard without a property.

## 6. Plan

Order so far: statuses; one provider's chain and its abstract lifecycle, because
every other component relies on it; its proofs; the run; locks; admission;
expiration; then the client, its session first, and the pages by how much they
share with requests in flight; the safety properties of each proved after TLC had
agreed.  What is left:

1. `GroupViewSet`'s requests as interleaved transactions, and whether a group keeps
   an administrator.
2. Hooks of `FinalizeRunHookTask` in `RunPipeline`; the lock under which `cancel_run`
   calls `cancel_export_provider_task`, which nobody releases.

Runs are kept few: a module has one run with all its properties, and one property that does not
hold has another.
