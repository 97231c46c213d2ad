---------------------------- MODULE ExportTaskChain ----------------------------
(***************************************************************************)
(* One DataProviderTaskRecord, the chain of export tasks a celery worker   *)
(* runs for it, and a user who cancels it from the web process meanwhile.  *)
(*                                                                         *)
(* Every database access of ExportTask.__call__, update_task_state,        *)
(* task_failure, update_progress and cancel_export_provider_task is a step *)
(* of its own, because that is where the two processes interleave: Django  *)
(* reads a row into a Python object and save() later writes the WHOLE row  *)
(* back, so whatever was written in between is lost.                       *)
(*                                                                         *)
(* The lock of LockingTask is taken as granted here (the chain's tasks do  *)
(* not overlap); TaskLocks is about what happens when it is not.           *)
(***************************************************************************)
EXTENDS Naturals, TaskStates

CONSTANTS NTasks,      \* the length of the chain
          AbortTasks,  \* the tasks declared with abort_on_error=True
          MaxUpdates   \* bound: progress updates during one task

ASSUME NTasksAssumption == NTasks \in Nat \ {0}
ASSUME AbortAssumption == AbortTasks \subseteq 1..NTasks
ASSUME MaxUpdatesAssumption == MaxUpdates \in Nat

Task == 1..NTasks

(***************************************************************************)
(* An ExportTaskRecord row: its status, whether celery_uid is set, whether *)
(* pid is a process (it is -1 otherwise), and whether result links a       *)
(* FileProducingTaskResult.                                                *)
(***************************************************************************)
TaskRow == [status : States, uid : BOOLEAN, pid : BOOLEAN, result : BOOLEAN]

NewRow == [status |-> "PENDING", uid |-> FALSE, pid |-> FALSE, result |-> FALSE]

WorkerPcs == {"idle", "fetch", "read", "saved", "mark", "markprov", "body",
              "progress", "check", "save", "record", "fail", "failing", "done",
              "dead"}

VARIABLES
    task,     \* the ExportTaskRecord rows
    prov,     \* DataProviderTaskRecord.status
    file,     \* the downloadable file of each task: "absent", "live", "deleted"
    staged,   \* does the provider's staging directory exist
    wpc,      \* where the worker is
    cur,      \* the task it is at
    copy,     \* the row ExportTask.__call__ read first and saves last
    row,      \* the row the code now running read last
    last,     \* 'status' in the result the previous task handed on
    updates,  \* progress updates left in this task
    unrecorded, \* history: tasks that failed, or whose worker died, between
                \* the publishing of their file and the save of their row
    cpc,      \* where the canceller is
    pcopy,    \* the provider status the canceller read
    rows,     \* the task rows the canceller read
    todo,     \* the rows it has still to treat
    kills     \* kill_task messages in the worker's .cancel queue

rowVars == <<task, prov, file, staged>>
workVars == <<wpc, cur, copy, row, last, updates, unrecorded>>
cancelVars == <<cpc, pcopy, rows, todo>>
vars == <<rowVars, workVars, cancelVars, kills>>

Init ==
    /\ task = [i \in Task |-> NewRow]
    /\ prov = "PENDING"
    /\ file = [i \in Task |-> "absent"]
    /\ staged = TRUE
    /\ wpc = "idle"
    /\ cur = 1
    /\ copy = NewRow
    /\ row = NewRow
    /\ last = "NONE"
    /\ updates = MaxUpdates
    /\ unrecorded = {}
    /\ cpc = "idle"
    /\ pcopy = "PENDING"
    /\ rows = [i \in Task |-> NewRow]
    /\ todo = {}
    /\ kills = {}
-------------------------------------------------------------------------------
(* The worker: one task after the other. *)

\* The task hands on the status s and celery sends the next link.
Return(s) ==
    /\ wpc' = "idle"
    /\ cur' = cur + 1
    /\ last' = s
    /\ updates' = MaxUpdates
    /\ UNCHANGED unrecorded

Goto(pc) == wpc' = pc /\ UNCHANGED <<cur, last, updates, unrecorded>>

\* The worker leaves the task without a save: between publishing and recording
\* that forsakes a published file.
Leave(pc) ==
    /\ wpc' = pc
    /\ unrecorded' = IF wpc = "record" THEN unrecorded \cup {cur} ELSE unrecorded
    /\ UNCHANGED <<cur, last, updates>>

\* __call__ fetches the row ...
TaskStart ==
    /\ wpc = "idle" /\ cur \in Task
    /\ copy' = task[cur]
    /\ Goto("fetch")
    /\ UNCHANGED <<rowVars, row, cancelVars, kills>>

\* ... and update_task_state fetches it once more.
FetchRow ==
    /\ wpc = "fetch"
    /\ row' = task[cur]
    /\ Goto("read")
    /\ UNCHANGED <<rowVars, copy, cancelVars, kills>>

SaveCeleryUid ==
    /\ wpc = "read"
    /\ row' = [row EXCEPT !.uid = TRUE]
    /\ task' = [task EXCEPT ![cur] = row']
    /\ Goto("saved")
    /\ UNCHANGED <<prov, file, staged, copy, cancelVars, kills>>

\* Mutant: the task's own row is not looked at.
CanceledElsewhere == "CANCELED" \in {prov, last}

Canceled == "CANCELED" \in {row.status, prov, last}

\* update_task_state stops a task that was cancelled before it ran ...
CancelBeforeRun ==
    /\ wpc = "saved" /\ Canceled
    /\ task' = [task EXCEPT ![cur] = [row EXCEPT !.status = "CANCELED"]]
    /\ Return("CANCELED")
    /\ UNCHANGED <<prov, file, staged, copy, row, cancelVars, kills>>

\* ... and lets any other go on ...
PassCancelCheck ==
    /\ wpc = "saved" /\ ~Canceled
    /\ Goto("mark")
    /\ UNCHANGED <<rowVars, copy, row, cancelVars, kills>>

\* ... saving first the task row, then the provider row.
MarkRunning ==
    /\ wpc = "mark"
    /\ row' = [row EXCEPT !.status = "RUNNING", !.pid = TRUE]
    /\ task' = [task EXCEPT ![cur] = row']
    /\ Goto("markprov")
    /\ UNCHANGED <<prov, file, staged, copy, cancelVars, kills>>

MarkProvider ==
    /\ wpc = "markprov"
    /\ prov' = "RUNNING"
    /\ Goto("body")
    /\ UNCHANGED <<task, file, staged, copy, row, cancelVars, kills>>

\* update_progress, and TaskProcess.store_pid, called while the body runs.
ReadProgress ==
    /\ wpc = "body" /\ updates > 0
    /\ row' = task[cur]
    /\ wpc' = "progress" /\ updates' = updates - 1
    /\ UNCHANGED <<rowVars, cur, copy, last, unrecorded, cancelVars, kills>>

SaveProgress ==
    /\ wpc = "progress"
    /\ task' = [task EXCEPT ![cur] = row]
    /\ Goto("body")
    /\ UNCHANGED <<prov, file, staged, copy, row, cancelVars, kills>>

\* The body made its output; it cannot once the staging directory is gone.
BodyEnds ==
    /\ wpc = "body" /\ staged
    /\ Goto("check")
    /\ UNCHANGED <<rowVars, copy, row, cancelVars, kills>>

BodyRaises ==
    /\ wpc = "body"
    /\ Goto("fail")
    /\ UNCHANGED <<rowVars, copy, row, cancelVars, kills>>

\* TaskProcess.start_process finds the task cancelled when its subprocess ends.
BodyCanceled ==
    /\ wpc = "body" /\ task[cur].status = "CANCELED"
    /\ Return("CANCELED")
    /\ UNCHANGED <<rowVars, copy, row, cancelVars, kills>>

\* Mutant: the file is published before the last look at the provider.
PublishThenCheck ==
    /\ wpc = "check"
    /\ file' = [file EXCEPT ![cur] = "live"]
    /\ Goto(IF "CANCELED" \in {copy.status, prov} THEN "fail" ELSE "save")
    /\ UNCHANGED <<task, prov, staged, copy, row, cancelVars, kills>>

\* Mutant: nothing is done for a task that was cancelled meanwhile.
CheckWithoutElse ==
    /\ wpc = "check" /\ "CANCELED" \notin {copy.status, prov}
    /\ Goto("save")
    /\ UNCHANGED <<rowVars, copy, row, cancelVars, kills>>

\* Cancelled meanwhile?  copy is as old as the start of the task, the provider
\* is read now.  copy has no cancel_user, so formatting the CancelException
\* raises and the code ends in task_failure.
CheckProvider ==
    /\ wpc = "check"
    /\ Goto(IF "CANCELED" \in {copy.status, prov} THEN "fail" ELSE "save")
    /\ UNCHANGED <<rowVars, copy, row, cancelVars, kills>>

\* make_file_downloadable copies the file to the download directory ...
Publish ==
    /\ wpc = "save"
    /\ file' = [file EXCEPT ![cur] = "live"]
    /\ Goto("record")
    /\ UNCHANGED <<task, prov, staged, copy, row, cancelVars, kills>>

\* ... the result is created and copy is saved with a link to it.
SaveSuccess ==
    /\ wpc = "record"
    /\ task' = [task EXCEPT ![cur] =
                  [copy EXCEPT !.status = "SUCCESS", !.pid = FALSE, !.result = TRUE]]
    /\ Return("SUCCESS")
    /\ UNCHANGED <<prov, file, staged, copy, row, cancelVars, kills>>

\* Any of the three raises: the output cannot be read, the disk is full, the
\* database does not answer.  A copy cut short is a file that was published.
SaveRaises ==
    /\ wpc \in {"save", "record"}
    /\ Leave("fail")
    /\ UNCHANGED <<rowVars, copy, row, cancelVars, kills>>

\* task_failure fetches the row ...
FailRead ==
    /\ wpc = "fail"
    /\ row' = task[cur]
    /\ Goto("failing")
    /\ UNCHANGED <<rowVars, copy, cancelVars, kills>>

\* Mutant: the error handler leaves the staging directory.
FailKeepsStaging ==
    /\ wpc = "failing"
    /\ LET s == IF row.status = "CANCELED" THEN "CANCELED" ELSE "FAILED" IN
       /\ task' = [task EXCEPT ![cur] = [row EXCEPT !.status = s]]
       /\ Return(s)
    /\ UNCHANGED <<prov, file, staged, copy, row, cancelVars, kills>>

\* ... and its transaction writes it back.  For an abort_on_error task it also
\* calls cancel_synchronous_task_chain, which compares an Enum member with a
\* string and so changes nothing, and the error handler, which removes the
\* staging directory.
FailSave ==
    /\ wpc = "failing"
    /\ IF row.status = "CANCELED"
       THEN /\ task' = [task EXCEPT ![cur] = row]
            /\ Return("CANCELED")
            /\ UNCHANGED staged
       ELSE /\ task' = [task EXCEPT ![cur] = [row EXCEPT !.status = "FAILED"]]
            /\ Return("FAILED")
            /\ staged' = (staged /\ cur \notin AbortTasks)
    /\ UNCHANGED <<prov, file, copy, row, cancelVars, kills>>

\* The error handler's email cannot be sent: its exception rolls the
\* transaction back and leaves __call__, so celery drops the rest of the chain.
FailMailError ==
    /\ wpc = "failing" /\ row.status # "CANCELED" /\ cur \in AbortTasks
    /\ staged' = FALSE
    /\ Goto("dead")
    /\ UNCHANGED <<task, prov, file, copy, row, cancelVars, kills>>

\* Mutant: the provider gets the status of its last task.
FinalizeWithTaskStatus ==
    /\ wpc = "idle" /\ cur > NTasks
    /\ prov' = last
    /\ Goto("done")
    /\ UNCHANGED <<task, file, staged, copy, row, cancelVars, kills>>

\* Mutant: finalizing sends another link of the chain.
FinalizeAndContinue ==
    /\ wpc = "idle" /\ cur > NTasks
    /\ prov' = IF last = "SUCCESS" THEN "COMPLETED" ELSE "INCOMPLETE"
    /\ Return(last)
    /\ UNCHANGED <<task, file, staged, copy, row, cancelVars, kills>>

\* finalize_export_provider_task: the result of the last task decides.
FinalizeProvider ==
    /\ wpc = "idle" /\ cur > NTasks
    /\ prov' = IF last = "SUCCESS" THEN "COMPLETED" ELSE "INCOMPLETE"
    /\ Goto("done")
    /\ UNCHANGED <<task, file, staged, copy, row, cancelVars, kills>>

\* The worker process dies (out of memory, host restart): the message was
\* acknowledged when it was received, so nothing redelivers it.
WorkerLost ==
    /\ wpc \notin {"idle", "done", "dead"}
    /\ Leave("dead")
    /\ UNCHANGED <<rowVars, copy, row, cancelVars, kills>>
-------------------------------------------------------------------------------
(* The canceller: DataProviderTaskViewSet.partial_update calls             *)
(* cancel_export_provider_task in the web process.                         *)

CancelBegin ==
    /\ cpc = "idle"
    /\ cpc' = "query" /\ pcopy' = prov
    /\ UNCHANGED <<rowVars, workVars, rows, todo, kills>>

CancelQuery ==
    /\ cpc = "query"
    /\ cpc' = "loop" /\ rows' = task /\ todo' = Task
    /\ UNCHANGED <<rowVars, workVars, pcopy, kills>>

\* Mutant: a task already running is saved without a change of status.
CancelPendingOnly(i) ==
    LET r == rows[i] IN
    /\ cpc = "loop" /\ i \in todo
    /\ todo' = todo \ {i}
    /\ task' = [task EXCEPT ![i] =
                  IF r.status = "PENDING" THEN [r EXCEPT !.status = "CANCELED"] ELSE r]
    /\ file' = IF r.result THEN [file EXCEPT ![i] = "deleted"] ELSE file
    /\ kills' = IF r.pid THEN kills \cup {i} ELSE kills
    /\ UNCHANGED <<prov, staged, workVars, cpc, pcopy, rows>>

\* Mutant: only tasks with a process are cancelled.
CancelRunningOnly(i) ==
    LET r == rows[i] IN
    /\ cpc = "loop" /\ i \in todo
    /\ todo' = todo \ {i}
    /\ task' = IF r.pid THEN [task EXCEPT ![i] = [r EXCEPT !.status = "CANCELED"]]
               ELSE task
    /\ kills' = IF r.pid THEN kills \cup {i} ELSE kills
    /\ UNCHANGED <<prov, file, staged, workVars, cpc, pcopy, rows>>

\* One turn of the loop, on the row as it was when the query ran.  The query's
\* filter, not CANCELED or not FAILED, lets every row pass.
CancelTask(i) ==
    LET r == rows[i] IN
    /\ cpc = "loop" /\ i \in todo
    /\ todo' = todo \ {i}
    /\ task' = IF r.status \notin FinishedStates
               THEN [task EXCEPT ![i] = [r EXCEPT !.status = "CANCELED"]]
               ELSE IF r.result THEN [task EXCEPT ![i] = r] ELSE task
    /\ file' = IF r.result THEN [file EXCEPT ![i] = "deleted"] ELSE file
    /\ kills' = IF r.pid THEN kills \cup {i} ELSE kills
    /\ UNCHANGED <<prov, staged, workVars, cpc, pcopy, rows>>

\* Mutant: a provider that is running is saved as it was read.
CancelPendingProvider ==
    /\ cpc = "loop" /\ todo = {}
    /\ cpc' = "done"
    /\ prov' = IF pcopy = "PENDING" THEN "CANCELED" ELSE pcopy
    /\ UNCHANGED <<task, file, staged, workVars, pcopy, rows, todo, kills>>

CancelProvider ==
    /\ cpc = "loop" /\ todo = {}
    /\ cpc' = "done"
    /\ prov' = IF pcopy \notin FinishedStates THEN "CANCELED" ELSE pcopy
    /\ UNCHANGED <<task, file, staged, workVars, pcopy, rows, todo, kills>>

\* kill_task signals the process only while celery has the task as STARTED.
\* The pid is the worker process itself, which dies with the chain, or that of
\* an external tool, whose failure the body reports.
KillTask(i) ==
    /\ i \in kills
    /\ kills' = kills \ {i}
    /\ \/ /\ cur = i /\ wpc \notin {"idle", "done", "dead"}
          /\ Leave("dead")
       \/ /\ cur = i /\ wpc = "body"
          /\ Leave("fail")
       \/ /\ ~(cur = i /\ wpc \notin {"idle", "done", "dead"})
          /\ UNCHANGED <<wpc, cur, last, updates, unrecorded>>
    /\ UNCHANGED <<rowVars, copy, row, cancelVars>>
-------------------------------------------------------------------------------
RunTask == \/ TaskStart \/ FetchRow \/ SaveCeleryUid \/ CancelBeforeRun
           \/ PassCancelCheck \/ MarkRunning \/ MarkProvider \/ ReadProgress \/ SaveProgress
           \/ BodyEnds \/ BodyRaises \/ BodyCanceled \/ CheckProvider
           \/ Publish \/ SaveSuccess \/ SaveRaises \/ FailRead \/ FailSave
           \/ FailMailError \/ FinalizeProvider

Cancel == \/ CancelBegin \/ CancelQuery \/ CancelProvider
          \/ \E i \in Task : CancelTask(i)

Next == RunTask \/ Cancel \/ WorkerLost \/ \E i \in Task : KillTask(i)

\* Celery workers keep consuming their queue and the tools a body runs end; a
\* request that has begun runs to its end.  Nobody has to cancel, nothing has
\* to crash.
Fairness == /\ WF_vars(RunTask)
            /\ WF_vars(cpc # "idle" /\ Cancel)

Spec == Init /\ [][Next]_vars /\ Fairness
-------------------------------------------------------------------------------
(* Properties *)

TypeOK ==
    /\ task \in [Task -> TaskRow]
    /\ prov \in States
    /\ file \in [Task -> {"absent", "live", "deleted"}]
    /\ staged \in BOOLEAN
    /\ wpc \in WorkerPcs
    /\ cur \in 1..(NTasks + 1)
    /\ copy \in TaskRow
    /\ row \in TaskRow
    /\ last \in {"NONE", "SUCCESS", "FAILED", "CANCELED"}
    /\ updates \in 0..MaxUpdates
    /\ unrecorded \subseteq Task
    /\ cpc \in {"idle", "query", "loop", "done"}
    /\ pcopy \in States
    /\ rows \in [Task -> TaskRow]
    /\ todo \subseteq Task
    /\ kills \subseteq Task

\* A task the worker has left is in a finished state and no later save, from
\* however old a copy of its row, reopens it (the canceller saves rows it read
\* long before, export_tasks.py:1377-1406).
PassedTasksFinished == \A i \in Task : i < cur => task[i].status \in FinishedStates

\* Tasks the worker has not picked up yet.
Unstarted == {i \in Task : i > cur \/ (i = cur /\ wpc = "idle")}

\* When a cancellation is complete, every task not yet picked up is CANCELED:
\* no lost update can keep the rest of the chain alive (1377-1386).
CancelReachesUnstarted ==
    cpc = "done" => \A i \in Unstarted : task[i].status = "CANCELED"

\* A task picked up as CANCELED never gets as far as its body, so together
\* with CancelReachesUnstarted a completed cancellation lets at most the task
\* in progress run (336-340).
CanceledNeverRuns ==
    wpc \in {"mark", "markprov", "body", "progress", "check", "save", "record"}
        => copy.status # "CANCELED"

\* Every file published for download is linked from its task's row as soon as
\* the worker has gone on, and stays linked, with two exceptions after which
\* nobody will ever delete the file: its task failed or its worker died between
\* the copy and the save (252, 266), or the canceller had read the row
\* unfinished and saved it over the success (1382-1386).
FileRecorded ==
    \A i \in Task :
        file[i] # "absent" => \/ task[i].result
                             \/ (i = cur /\ wpc = "record")
                             \/ i \in unrecorded
                             \/ /\ cpc \in {"loop", "done"} /\ i \notin todo
                                /\ rows[i].status \notin FinishedStates

\* After an abort_on_error task failed no later task of the chain succeeds,
\* although nothing cancels them (309-318): they have no staging directory.
NothingSucceedsAfterAbort ==
    \A i \in AbortTasks, j \in Task :
        i < j /\ task[i].status = "FAILED" => task[j].status # "SUCCESS"

\* Once the chain has been finalized the provider's status is finished in every
\* later state, even when a canceller that read RUNNING saves last (1408-1413).
ClosedIsFinished == wpc = "done" => prov \in FinishedStates

\* The chain runs to its end unless its process dies, and the provider's
\* status settles on a finished value.
ChainSettles == <>[](wpc = "dead" \/ (wpc = "done" /\ prov \in FinishedStates))

\* The interface RunPipeline relies on.
Lifecycle == INSTANCE ProviderLifecycle WITH
    stage <- CASE wpc = "done" -> "closed" [] wpc = "dead" -> "lost" [] OTHER -> "open",
    status <- prov

LifecycleSpec == Lifecycle!Spec
===============================================================================
