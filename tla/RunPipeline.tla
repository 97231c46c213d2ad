------------------------------ MODULE RunPipeline ------------------------------
(***************************************************************************)
(* An ExportRun from the moment it is submitted: pick_up_run_task creates  *)
(* a chain per provider, every chain ends in finalize_export_provider_task *)
(* and wait_for_providers_task, and a wait task that finds every provider  *)
(* finished starts the finalization chain prepare_for_export_zip_task ->   *)
(* zip_file_task -> finalize_run_task.  Meanwhile users cancel providers,  *)
(* delete the run or set its expiration from the web process.              *)
(*                                                                         *)
(* A provider's chain is seen at the granularity of ProviderLifecycle,     *)
(* which ExportTaskChain implements.  Each wait task that fires starts a   *)
(* finalization chain of its own, so finalizers are named by providers.    *)
(* The locks of LockingTask are taken as granted; TaskLocks is about what  *)
(* happens when they are not.                                              *)
(* A process's copy of a row is reset when the process no longer uses it.  *)
(***************************************************************************)
EXTENDS Naturals, FiniteSets, TaskStates

CONSTANTS Providers,
          TaskCount,    \* the tasks of a provider's chain
          Cancelable,   \* bound: the providers a user may cancel
          Deletable,    \* bound: may a user delete the run
          Editable,     \* bound: may its expiration or notified be set, once
          MaxRequests,  \* bound: how many of these requests a run meets
          MaxLosses     \* bound: how many of its processes die

ASSUME TaskCountAssumption == TaskCount \in Nat \ {0}
ASSUME CancelableAssumption == Cancelable \subseteq Providers
ASSUME DeletableAssumption == Deletable \in BOOLEAN
ASSUME EditableAssumption == Editable \in BOOLEAN
ASSUME MaximaAssumption == MaxRequests \in Nat /\ MaxLosses \in Nat

(***************************************************************************)
(* An ExportRun row: its status, whether it is soft-deleted, and whether   *)
(* zipfile_url is set.                                                     *)
(***************************************************************************)
RunRow == [status : States, deleted : BOOLEAN, zip : BOOLEAN]

NewRun == [status |-> "SUBMITTED", deleted |-> FALSE, zip |-> FALSE]

ChainStages == {"none", "queued", "marking", "working", "closed", "over", "lost"}

FinalizerPcs == {"none", "prepare", "zip", "writing", "copying", "refresh", "url",
                 "read", "query", "save", "cleanup", "done", "dead", "lost"}

VARIABLES
    run,      \* the ExportRun row
    pickup,   \* where pick_up_run_task is
    prun,     \* its copy of the run row
    pstat,    \* the DataProviderTaskRecord statuses; "ABSENT": no record yet
    chain,    \* how far each provider's chain is
    left,     \* the tasks of each chain that have not ended
    last,     \* 'status' in the result of its last task that has
    outcome,  \* what finalize_export_provider_task decided, "NONE" before
    output,   \* the providers with an export file, recorded and in staging
    staged,   \* does the run's staging directory hold what was put there (the empty
              \* one FinalizeRunHookTask makes anew does not)
    archive,  \* the providers with files in the zip file in staging
    download, \* the providers with files in the copy of it users can download
    spoiled,  \* history: two chains were at the zip file at once, one died
              \* there, or the save of zipfile_url failed
    fpc,      \* where each finalization chain is
    flist,    \* the providers prepare_for_export_zip_task listed; while the zip
              \* file is copied, those in it
    frun,     \* its copy of the run row
    ccl,      \* each provider's canceller: "idle", "begun" or "done"
    seen,     \* the provider status that canceller read
    stopped,  \* the providers whose tasks a cancellation has all treated
    del,      \* deletion of the run: "idle", "begun" or "done"
    drun,     \* its copy of the run row
    edit,     \* setting the run's expiration: "idle", "begun" or "done"
    erun,     \* its copy of the run row
    undone    \* history: that copy was saved over a row changed meanwhile

pickVars == <<pickup, prun>>
taskVars == <<left, last>>
provVars == <<pstat, chain, taskVars, outcome, output>>
zipVars == <<archive, download, spoiled>>
dirVars == <<staged, zipVars>>
finVars == <<fpc, flist, frun>>
editVars == <<edit, erun, undone>>
userVars == <<ccl, seen, stopped, del, drun, editVars>>
vars == <<run, pickVars, provVars, dirVars, finVars, userVars>>

Init ==
    /\ run = NewRun
    /\ pickup = "waiting" /\ prun = NewRun
    /\ pstat = [p \in Providers |-> "ABSENT"]
    /\ chain = [p \in Providers |-> "none"]
    /\ left = [p \in Providers |-> TaskCount]
    /\ last = [p \in Providers |-> "NONE"]
    /\ outcome = [p \in Providers |-> "NONE"]
    /\ output = {}
    /\ staged = FALSE
    /\ archive = {} /\ download = {}
    /\ spoiled = FALSE
    /\ fpc = [p \in Providers |-> "none"]
    /\ flist = [p \in Providers |-> {}]
    /\ frun = [p \in Providers |-> NewRun]
    /\ ccl = [p \in Providers |-> "idle"]
    /\ seen = [p \in Providers |-> "ABSENT"]
    /\ stopped = {}
    /\ del = "idle" /\ drun = NewRun
    /\ edit = "idle" /\ erun = NewRun
    /\ undone = FALSE

Records == {p \in Providers : pstat[p] # "ABSENT"}

\* The providers whose chain is made and not sent.
Unsent == {p \in Records : chain[p] = "none"}

Count(met) == IF met THEN 1 ELSE 0

\* Bounds: fewer than MaxLosses processes have died, and fewer than MaxRequests
\* requests of users have been made.
MayDie == Count(pickup = "lost") + Cardinality({p \in Providers : chain[p] = "lost"})
          + Cardinality({f \in Providers : fpc[f] = "lost"}) < MaxLosses

MayAsk == Count(del # "idle") + Count(edit # "idle")
          + Cardinality({p \in Providers : ccl[p] # "idle"}) < MaxRequests
-------------------------------------------------------------------------------
(* pick_up_run_task and TaskFactory.parse_tasks *)

\* The worker's name is set in the run row, which is read ...
PickUpRun ==
    /\ pickup = "waiting"
    /\ pickup' = "saving" /\ prun' = run
    /\ UNCHANGED <<run, provVars, dirVars, finVars, userVars>>

\* ... and saved.
SaveWorker ==
    /\ pickup = "saving"
    /\ pickup' = "parsing" /\ run' = prun
    /\ UNCHANGED <<prun, provVars, dirVars, finVars, userVars>>

\* A task runner makes the records of a provider and its chain.  It does not if
\* it knows none of the formats, and for some types there is no runner.
MakeRecord(p) ==
    /\ pickup = "parsing" /\ pstat[p] = "ABSENT"
    /\ pstat' = [pstat EXCEPT ![p] = "PENDING"]
    /\ staged' = TRUE
    /\ UNCHANGED <<run, pickVars, chain, taskVars, outcome, output, zipVars, finVars,
                   userVars>>

\* The chains are sent when all are made.
SendChain(p) ==
    /\ pickup \in {"parsing", "sending"} /\ p \in Unsent
    /\ pickup' = "sending"
    /\ chain' = [chain EXCEPT ![p] = "queued"]
    /\ UNCHANGED <<run, prun, pstat, taskVars, outcome, output, dirVars, finVars, userVars>>

EndPickUp ==
    /\ pickup \in {"parsing", "sending"} /\ Unsent = {}
    /\ pickup' = "done" /\ prun' = NewRun
    /\ staged' = (staged \/ pickup = "parsing")
    /\ UNCHANGED <<run, provVars, zipVars, finVars, userVars>>

\* An exception: the records and directories made by then stay, the chains sent
\* by then run, and the run row read at the beginning is saved.
ParseFails ==
    /\ pickup = "parsing" \/ (pickup = "sending" /\ Unsent # {})
    /\ pickup' = "failed" /\ prun' = NewRun
    /\ staged' \in {staged, staged \/ pickup = "parsing"}
    /\ run' = [prun EXCEPT !.status = "FAILED"]
    /\ UNCHANGED <<provVars, zipVars, finVars, userVars>>

\* Its worker process dies.
LosePickUp ==
    /\ MayDie /\ pickup \in {"saving", "parsing", "sending"}
    /\ pickup' = "lost" /\ prun' = NewRun
    /\ UNCHANGED <<run, provVars, dirVars, finVars, userVars>>
-------------------------------------------------------------------------------
(* A provider's chain *)

\* A task ends with the status r and the next link of the chain is sent.
Return(p, r) ==
    /\ chain' = [chain EXCEPT ![p] = "queued"]
    /\ left' = [left EXCEPT ![p] = left[p] - 1]
    /\ last' = [last EXCEPT ![p] = r]

\* Mutant: the end of the chain is not noticed.
ReadyForEver(p) == chain[p] = "queued"

Ready(p) == chain[p] = "queued" /\ left[p] > 0

\* The provider is cancelled, so is the task before, or a complete cancellation
\* has CANCELED the task's own row, whatever the provider's says now.
Stopped(p) == "CANCELED" \in {pstat[p], last[p]} \/ p \in stopped

\* update_task_state stops a task that was cancelled before it ran, maybe by a
\* cancellation that has not got to the provider yet ...
SkipTask(p) ==
    /\ Ready(p) /\ (Stopped(p) \/ ccl[p] = "begun")
    /\ Return(p, "CANCELED")
    /\ UNCHANGED <<run, pickVars, pstat, outcome, output, dirVars, finVars, userVars>>

\* ... and any other runs, whatever has happened since it looked.
StartTask(p) ==
    /\ Ready(p) /\ ~Stopped(p)
    /\ chain' = [chain EXCEPT ![p] = "marking"]
    /\ UNCHANGED <<run, pickVars, pstat, taskVars, outcome, output, dirVars, finVars,
                   userVars>>

MarkProvider(p) ==
    /\ chain[p] = "marking"
    /\ chain' = [chain EXCEPT ![p] = "working"]
    /\ pstat' = [pstat EXCEPT ![p] = "RUNNING"]
    /\ UNCHANGED <<run, pickVars, taskVars, outcome, output, dirVars, finVars, userVars>>

\* The task succeeds: its file is in staging and recorded.  Or it fails, or it
\* finds that a user has cancelled it meanwhile.
EndTask(p, r) ==
    /\ chain[p] = "working"
    /\ r = "SUCCESS" => staged /\ pstat[p] # "CANCELED"
    /\ r = "CANCELED" => ccl[p] # "idle" \/ p \in stopped
    /\ Return(p, r)
    /\ output' = IF r = "SUCCESS" THEN output \cup {p} ELSE output
    /\ UNCHANGED <<run, pickVars, pstat, outcome, dirVars, finVars, userVars>>

\* finalize_export_provider_task: the result of the last task decides.
FinalizeProvider(p) ==
    /\ chain[p] = "queued" /\ left[p] = 0
    /\ chain' = [chain EXCEPT ![p] = "closed"]
    /\ outcome' = [outcome EXCEPT ![p] =
                     IF last[p] = "SUCCESS" THEN "COMPLETED" ELSE "INCOMPLETE"]
    /\ pstat' = [pstat EXCEPT ![p] = outcome'[p]]
    /\ UNCHANGED <<run, pickVars, taskVars, output, dirVars, finVars, userVars>>

\* Mutant: one finished provider is enough.
WaitForAnyProvider(p) ==
    /\ chain[p] = "closed"
    /\ chain' = [chain EXCEPT ![p] = "over"]
    /\ fpc' = IF \E q \in Records : pstat[q] \in FinishedStates
              THEN [fpc EXCEPT ![p] = "prepare"] ELSE fpc
    /\ UNCHANGED <<run, pickVars, pstat, taskVars, outcome, output, dirVars, flist, frun,
                   userVars>>

\* Mutant: only the states finalize_export_provider_task writes are waited for.
WaitForFinalized(p) ==
    /\ chain[p] = "closed"
    /\ chain' = [chain EXCEPT ![p] = "over"]
    /\ fpc' = IF \A q \in Records : pstat[q] \in {"COMPLETED", "INCOMPLETE"}
              THEN [fpc EXCEPT ![p] = "prepare"] ELSE fpc
    /\ UNCHANGED <<run, pickVars, pstat, taskVars, outcome, output, dirVars, flist, frun,
                   userVars>>

\* The run is finalized by any wait task that finds all providers finished.
WaitForProviders(p) ==
    /\ chain[p] = "closed"
    /\ chain' = [chain EXCEPT ![p] = "over"]
    /\ fpc' = IF \A q \in Records : pstat[q] \in FinishedStates
              THEN [fpc EXCEPT ![p] = "prepare"] ELSE fpc
    /\ UNCHANGED <<run, pickVars, pstat, taskVars, outcome, output, dirVars, flist, frun,
                   userVars>>

\* The worker process running the chain dies, or kill_task kills it.
LoseChain(p) ==
    /\ MayDie /\ chain[p] \in {"marking", "working", "closed"}
    /\ chain' = [chain EXCEPT ![p] = "lost"]
    /\ UNCHANGED <<run, pickVars, pstat, taskVars, outcome, output, dirVars, finVars,
                   userVars>>
-------------------------------------------------------------------------------
(* The finalization chain f *)

\* The files of every provider not in an incomplete state, if they are there.
PrepareZip(f) ==
    /\ fpc[f] = "prepare"
    /\ fpc' = [fpc EXCEPT ![f] = "zip"]
    /\ flist' = [flist EXCEPT ![f] =
                   IF staged THEN {p \in output : pstat[p] \notin IncompleteStates}
                   ELSE {}]
    /\ UNCHANGED <<run, pickVars, provVars, dirVars, frun, userVars>>

AtZip(f) == fpc[f] \in {"writing", "copying"}

\* Two processes at one zip file: each writes where it believes the end to be,
\* and a copy is of whatever is there, so what comes of it may be unreadable.
Kept(files) == {files} \cup (IF spoiled THEN {{}} ELSE {})

\* Nothing to zip: nothing is done.
SkipZip(f) ==
    /\ fpc[f] = "zip" /\ flist[f] = {}
    /\ fpc' = [fpc EXCEPT ![f] = "read"]
    /\ UNCHANGED <<run, pickVars, provVars, dirVars, flist, frun, userVars>>

\* The zip file in staging is opened for appending, ...
OpenZip(f) ==
    /\ fpc[f] = "zip" /\ flist[f] # {} /\ staged
    /\ fpc' = [fpc EXCEPT ![f] = "writing"]
    /\ spoiled' = (spoiled \/ \E g \in Providers : AtZip(g))
    /\ UNCHANGED <<run, pickVars, provVars, staged, archive, download, flist, frun, userVars>>

\* Mutant: the copy is begun before the zip file is closed.
CopyBeforeClose(f) ==
    /\ fpc[f] = "writing" /\ staged
    /\ fpc' = [fpc EXCEPT ![f] = "copying"]
    /\ archive' \in Kept(archive \cup flist[f])
    /\ download' = {}
    /\ flist' = [flist EXCEPT ![f] = archive]
    /\ UNCHANGED <<run, pickVars, provVars, staged, spoiled, frun, userVars>>

\* ... and is closed; the file in the download directory is opened, which
\* empties it, ...
CopyZip(f) ==
    /\ fpc[f] = "writing" /\ staged
    /\ fpc' = [fpc EXCEPT ![f] = "copying"]
    /\ archive' \in Kept(archive \cup flist[f])
    /\ download' = {}
    /\ flist' = [flist EXCEPT ![f] = archive']
    /\ UNCHANGED <<run, pickVars, provVars, staged, spoiled, frun, userVars>>

\* ... and has all that was in the zip file when the copy ends.
EndCopy(f) ==
    /\ fpc[f] = "copying"
    /\ fpc' = [fpc EXCEPT ![f] = "refresh"]
    /\ download' \in Kept(flist[f])
    /\ flist' = [flist EXCEPT ![f] = {}]
    /\ UNCHANGED <<run, pickVars, provVars, staged, archive, spoiled, frun, userVars>>

\* The run row is read again ...
RefreshRun(f) ==
    /\ fpc[f] = "refresh"
    /\ fpc' = [fpc EXCEPT ![f] = "url"]
    /\ frun' = [frun EXCEPT ![f] = run]
    /\ UNCHANGED <<run, pickVars, provVars, dirVars, flist, userVars>>

\* ... and saved with zipfile_url, with whatever status it had; if the save
\* fails the chain goes on all the same.
SaveUrl(f) ==
    /\ fpc[f] = "url"
    /\ fpc' = [fpc EXCEPT ![f] = "read"]
    /\ \/ run' = [frun[f] EXCEPT !.zip = TRUE] /\ UNCHANGED spoiled
       \/ spoiled' = TRUE /\ UNCHANGED run
    /\ frun' = [frun EXCEPT ![f] = NewRun]
    /\ UNCHANGED <<pickVars, provVars, staged, archive, download, flist, userVars>>

\* The staging directory is gone: zip_file_task raises and its chain ends.
ZipFails(f) ==
    /\ fpc[f] \in {"zip", "writing"} /\ flist[f] # {} /\ ~staged
    /\ fpc' = [fpc EXCEPT ![f] = "dead"]
    /\ flist' = [flist EXCEPT ![f] = {}]
    /\ UNCHANGED <<run, pickVars, provVars, dirVars, frun, userVars>>

\* The status finalize_run_task gives a run.
RunStatus ==
    IF \A p \in Records : pstat[p] = "CANCELED" THEN "CANCELED"
    ELSE IF \E p \in Records : pstat[p] \in IncompleteStates THEN "INCOMPLETE"
    ELSE "COMPLETED"

\* finalize_run_task reads the run ...
ReadRun(f) ==
    /\ fpc[f] = "read"
    /\ fpc' = [fpc EXCEPT ![f] = "query"]
    /\ frun' = [frun EXCEPT ![f] = run]
    /\ UNCHANGED <<run, pickVars, provVars, dirVars, flist, userVars>>

\* ... and the providers, which decide its status, ...
ReadProviders(f) ==
    /\ fpc[f] = "query"
    /\ fpc' = [fpc EXCEPT ![f] = "save"]
    /\ frun' = [frun EXCEPT ![f].status = RunStatus]
    /\ UNCHANGED <<run, pickVars, provVars, dirVars, flist, userVars>>

\* ... and saves the run.
SaveRun(f) ==
    /\ fpc[f] = "save"
    /\ fpc' = [fpc EXCEPT ![f] = "cleanup"]
    /\ run' = frun[f]
    /\ frun' = [frun EXCEPT ![f] = NewRun]
    /\ UNCHANGED <<pickVars, provVars, dirVars, flist, userVars>>

\* FinalizeRunBase.after_return
RemoveStageDir(f) ==
    /\ fpc[f] = "cleanup"
    /\ fpc' = [fpc EXCEPT ![f] = "done"]
    /\ staged' = FALSE
    /\ archive' = {}
    /\ UNCHANGED <<run, pickVars, provVars, download, spoiled, flist, frun, userVars>>

LoseFinalizer(f) ==
    /\ MayDie /\ fpc[f] \notin {"none", "done", "dead", "lost"}
    /\ fpc' = [fpc EXCEPT ![f] = "lost"]
    /\ flist' = [flist EXCEPT ![f] = {}]
    /\ frun' = [frun EXCEPT ![f] = NewRun]
    /\ spoiled' = (spoiled \/ AtZip(f))
    /\ UNCHANGED <<run, pickVars, provVars, staged, archive, download, userVars>>
-------------------------------------------------------------------------------
(* The web process *)

\* cancel_export_provider_task reads the provider, treats its tasks, and saves
\* the provider as it read it or CANCELED.
BeginCancel(p) ==
    /\ MayAsk /\ p \in Records \cap Cancelable /\ ccl[p] = "idle"
    /\ ccl' = [ccl EXCEPT ![p] = "begun"]
    /\ seen' = [seen EXCEPT ![p] = pstat[p]]
    /\ UNCHANGED <<run, pickVars, provVars, dirVars, finVars, stopped, del,
                   drun, editVars>>

\* Mutant: a provider that is running is saved as it was read.
EndCancelPendingOnly(p) ==
    /\ ccl[p] = "begun"
    /\ ccl' = [ccl EXCEPT ![p] = "done"]
    /\ pstat' = [pstat EXCEPT ![p] = IF seen[p] = "PENDING" THEN "CANCELED" ELSE seen[p]]
    /\ seen' = [seen EXCEPT ![p] = "ABSENT"]
    /\ stopped' = stopped \cup {p}
    /\ UNCHANGED <<run, pickVars, chain, taskVars, outcome, output, dirVars, finVars, del,
                   drun, editVars>>

EndCancel(p) ==
    /\ ccl[p] = "begun"
    /\ ccl' = [ccl EXCEPT ![p] = "done"]
    /\ pstat' = [pstat EXCEPT ![p] =
                   IF seen[p] \in FinishedStates THEN seen[p] ELSE "CANCELED"]
    /\ seen' = [seen EXCEPT ![p] = "ABSENT"]
    /\ stopped' = stopped \cup {p}
    /\ UNCHANGED <<run, pickVars, chain, taskVars, outcome, output, dirVars, finVars, del,
                   drun, editVars>>

\* Mutant: the run is marked as deleted after it was saved.
BeginDeleteUnmarked ==
    /\ MayAsk /\ Deletable /\ del = "idle" /\ ~run.deleted
    /\ del' = "begun" /\ drun' = run
    /\ UNCHANGED <<run, pickVars, provVars, dirVars, finVars, ccl, seen, stopped, editVars>>

\* ExportRun.soft_delete, on the row the view read ...
BeginDelete ==
    /\ MayAsk /\ Deletable /\ del = "idle" /\ ~run.deleted
    /\ del' = "begun" /\ drun' = [run EXCEPT !.deleted = TRUE]
    /\ UNCHANGED <<run, pickVars, provVars, dirVars, finVars, ccl, seen, stopped, editVars>>

\* ... and the commit of the view's transaction: every provider not finished
\* is CANCELED and that row is saved.
CommitDelete ==
    /\ del = "begun"
    /\ del' = "done"
    /\ pstat' = [p \in Providers |->
                   IF p \in Records /\ pstat[p] \notin FinishedStates
                   THEN "CANCELED" ELSE pstat[p]]
    /\ stopped' = stopped \cup Records
    /\ run' = drun
    /\ drun' = NewRun
    /\ UNCHANGED <<pickVars, chain, taskVars, outcome, output, dirVars, finVars, ccl, seen,
                   editVars>>

\* ExportRunViewSet.partial_update and expire_runs read a run, set its
\* expiration or the time of the last warning ...
BeginEdit ==
    /\ MayAsk /\ Editable /\ edit = "idle" /\ ~run.deleted
    /\ edit' = "begun" /\ erun' = run
    /\ UNCHANGED <<run, pickVars, provVars, dirVars, finVars, ccl, seen, stopped, del, drun,
                   undone>>

\* ... and save the whole row.
SaveEdit ==
    /\ edit = "begun"
    /\ edit' = "done"
    /\ run' = erun /\ erun' = NewRun
    /\ undone' = (undone \/ erun # run)
    /\ UNCHANGED <<pickVars, provVars, dirVars, finVars, ccl, seen, stopped, del, drun>>
-------------------------------------------------------------------------------
PickUp == \/ PickUpRun \/ SaveWorker \/ EndPickUp \/ ParseFails
          \/ \E p \in Providers : MakeRecord(p) \/ SendChain(p)

Provider(p) == \/ SkipTask(p) \/ StartTask(p) \/ MarkProvider(p)
               \/ \E r \in {"SUCCESS", "FAILED", "CANCELED"} : EndTask(p, r)
               \/ FinalizeProvider(p) \/ WaitForProviders(p)

Finalizer(f) == \/ PrepareZip(f) \/ SkipZip(f) \/ OpenZip(f) \/ CopyZip(f)
                \/ EndCopy(f) \/ RefreshRun(f) \/ SaveUrl(f) \/ ZipFails(f)
                \/ ReadRun(f) \/ ReadProviders(f) \/ SaveRun(f) \/ RemoveStageDir(f)

User == \/ BeginDelete \/ CommitDelete \/ BeginEdit \/ SaveEdit
        \/ \E p \in Providers : BeginCancel(p) \/ EndCancel(p)

Next == \/ PickUp \/ LosePickUp \/ User
        \/ \E p \in Providers : \/ Provider(p) \/ LoseChain(p)
                                \/ Finalizer(p) \/ LoseFinalizer(p)

\* Celery workers keep consuming their queues and the work of a task ends; a
\* request that has begun runs to its end; nobody has to cancel or delete and
\* no process has to die.
Fairness == /\ WF_vars(PickUp)
            /\ \A p \in Providers : /\ WF_vars(Provider(p))
                                    /\ WF_vars(Finalizer(p))
                                    /\ WF_vars(EndCancel(p))
            /\ WF_vars(CommitDelete)
            /\ WF_vars(SaveEdit)

Spec == Init /\ [][Next]_vars /\ Fairness
-------------------------------------------------------------------------------
(* Properties *)

TypeOK ==
    /\ run \in RunRow
    /\ pickup \in {"waiting", "saving", "parsing", "sending", "done", "failed", "lost"}
    /\ prun \in RunRow
    /\ pstat \in [Providers -> States \cup {"ABSENT"}]
    /\ chain \in [Providers -> ChainStages]
    /\ left \in [Providers -> 0..TaskCount]
    /\ last \in [Providers -> {"NONE", "SUCCESS", "FAILED", "CANCELED"}]
    /\ outcome \in [Providers -> {"NONE", "COMPLETED", "INCOMPLETE"}]
    /\ output \subseteq Providers
    /\ staged \in BOOLEAN
    /\ archive \subseteq Providers /\ download \subseteq Providers
    /\ spoiled \in BOOLEAN
    /\ fpc \in [Providers -> FinalizerPcs]
    /\ flist \in [Providers -> SUBSET Providers]
    /\ frun \in [Providers -> RunRow]
    /\ ccl \in [Providers -> {"idle", "begun", "done"}]
    /\ seen \in [Providers -> States \cup {"ABSENT"}]
    /\ stopped \subseteq Providers
    /\ del \in {"idle", "begun", "done"}
    /\ drun \in RunRow
    /\ edit \in {"idle", "begun", "done"}
    /\ erun \in RunRow
    /\ undone \in BOOLEAN

\* A user interfered with the provider, by itself or by deleting the run.
Touched(p) == ccl[p] # "idle" \/ del # "idle"

\* The run is not finalized under a working provider: when a finalization chain
\* exists, each provider's chain has been closed, unless a user interfered with
\* that provider (export_tasks.py:856-870).
FinalizedAfterProviders ==
    \A f \in Providers : fpc[f] # "none" =>
        \A p \in Records : outcome[p] # "NONE" \/ Touched(p)

Completed == {p \in Providers : outcome[p] = "COMPLETED"}

\* A run ended, nobody interfered and no chain is copying the zip file now.
Ended == /\ run.status \in {"COMPLETED", "INCOMPLETE"}
         /\ \A p \in Providers : ~Touched(p) /\ fpc[p] # "copying"

\* The zip file of a run that ended can be downloaded and has the data of every
\* completed provider, although of two finalization chains one may list and zip
\* while the other removes the staging directory and each saves the run row over
\* the other's (997-1034, 1066-1163); unless they were at the zip file at the
\* same time, or somebody else saved an old row of the run.
ZipIsComplete ==
    Ended /\ ~spoiled /\ ~undone =>
        /\ Completed \subseteq download
        /\ Completed # {} => run.zip

SomethingLost == \/ pickup = "lost"
                 \/ \E p \in Providers : chain[p] = "lost" \/ fpc[p] = "lost"

\* A run that a finalization chain has ended is ended or deleted ever after,
\* unless another chain saved zipfile_url in a row it had read before
\* (1153-1158) and is still to end it again, or died before it did, or the
\* setting of the expiration brought an old row back (views.py:797-811).
EndIsKept ==
    (\E f \in Providers : fpc[f] \in {"cleanup", "done"}) =>
        \/ run.status \in FinishedStates \/ run.deleted \/ undone
        \/ \E g \in Providers : fpc[g] \in {"read", "query", "save", "lost"}

\* No provider had anything to run: nobody will finalize the run.
NothingToRun == pickup = "done" /\ Records = {}

\* Every other run ends up finished for good: of the wait tasks the last one
\* always finds all providers finished, and of the finalization chains one
\* always gets past the zip file.
RunConcludes == <>[](\/ run.status \in FinishedStates \/ run.deleted \/ undone
                     \/ SomethingLost \/ NothingToRun)

\* Each provider is one of ProviderLifecycle.
Lifecycle(p) == INSTANCE ProviderLifecycle WITH
    stage <- IF outcome[p] # "NONE" THEN "closed"
             ELSE IF chain[p] = "lost" THEN "lost" ELSE "open",
    status <- IF pstat[p] = "ABSENT" THEN "PENDING" ELSE pstat[p]

LifecycleSpec ==
    /\ \A p \in Providers : Lifecycle(p)!Init
    /\ [][\A p \in Providers : [Lifecycle(p)!Next]_(Lifecycle(p)!vars)]_vars
===============================================================================
