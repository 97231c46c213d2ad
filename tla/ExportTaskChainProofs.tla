------------------------- MODULE ExportTaskChainProofs -------------------------
(***************************************************************************)
(* The safety properties of ExportTaskChain, for chains of every length    *)
(* and every set of abort_on_error tasks.                                  *)
(*                                                                         *)
(* None of the properties says anything of the rows a process holds in     *)
(* memory, and those are what it saves later.  The inductive invariant     *)
(* therefore says how stale each copy can be: a row the worker holds was   *)
(* read before its task ended, and a row the canceller holds of a task     *)
(* nobody has picked up is still the row in the database.                  *)
(***************************************************************************)
EXTENDS ExportTaskChain, TLAPS

Busy == wpc \notin {"idle", "done", "dead"}

\* A row of a task that has not ended.
Open(r) == r.status \in {"PENDING", "RUNNING", "CANCELED"} /\ r.result = FALSE

\* Task i has a file that its row does not link yet, or that no save will.
Forsaken(i) == (i = cur /\ wpc = "record") \/ i \in unrecorded

\* The worker is at a task of the chain, and behind it after the last one.
AtTask == /\ Busy => cur \in Task
          /\ wpc = "done" => cur = NTasks + 1

\* The task the worker is at, and all that follow, have not ended: not in the
\* database and not in anybody's copy; and none has a file but one that was
\* published a moment ago or forsaken.
NotEnded ==
    /\ Open(row) /\ Open(copy)
    /\ \A i \in Task : i >= cur => /\ Open(task[i]) /\ Open(rows[i])
                                   /\ file[i] = "absent" \/ Forsaken(i)

\* A task that was CANCELED when __call__ read it is CANCELED until
\* update_task_state reads it, and so in the row the cancel check sees.
SameRead ==
    copy.status = "CANCELED" =>
        /\ wpc = "fetch" => task[cur].status = "CANCELED"
        /\ wpc \in {"read", "saved"} => row.status = "CANCELED"

\* Until the canceller comes to a task not picked up its row is new, and so is
\* the canceller's copy; from then on it is CANCELED.
UnstartedRows ==
    \A i \in Unstarted :
        IF cpc \in {"idle", "query"} \/ (cpc = "loop" /\ i \in todo)
        THEN task[i] = NewRow /\ (cpc = "loop" => rows[i] = NewRow)
        ELSE task[i].status = "CANCELED"

\* A row with a result is that of a success, in the database and in the
\* canceller's copy; and a success it holds a copy of is one still.
ResultsAreSuccesses ==
    \A i \in Task :
        /\ task[i].result => task[i].status = "SUCCESS"
        /\ rows[i].result => rows[i].status = "SUCCESS"
        /\ cpc = "loop" /\ i \in todo /\ rows[i].status = "SUCCESS"
              => task[i].status = "SUCCESS"

\* After an abort_on_error task failed there is no staging directory, and
\* without one no task gets past its body.
AbortRemovesStaging ==
    /\ \A i \in AbortTasks : task[i].status = "FAILED" => ~staged
    /\ ~staged => wpc \notin {"check", "save", "record"}

\* Before the canceller saves it the provider is finished only if its chain is,
\* and then the canceller's copy is up to date.
ProviderCopy ==
    /\ cpc # "done" /\ prov \in FinishedStates => wpc = "done"
    /\ cpc \in {"query", "loop"} /\ pcopy \in FinishedStates
          => wpc = "done" /\ prov = pcopy

IInv == /\ TypeOK
        /\ AtTask
        /\ NotEnded
        /\ SameRead
        /\ UnstartedRows
        /\ ResultsAreSuccesses
        /\ AbortRemovesStaging
        /\ ProviderCopy
        /\ PassedTasksFinished
        /\ CanceledNeverRuns
        /\ FileRecorded
        /\ NothingSucceedsAfterAbort
        /\ ClosedIsFinished

-------------------------------------------------------------------------------
(* Lemmas about rows *)

\* What the saves of the code write is a row.
LEMMA RowUpdates ==
    ASSUME NEW r \in TaskRow, NEW s \in States
    PROVE  /\ [r EXCEPT !.uid = TRUE] \in TaskRow
           /\ [r EXCEPT !.status = s] \in TaskRow
           /\ [r EXCEPT !.status = s, !.pid = TRUE] \in TaskRow
           /\ [r EXCEPT !.status = s, !.pid = FALSE, !.result = TRUE] \in TaskRow
  BY DEF TaskRow

\* And they change no other field of it.
LEMMA RowFields ==
    ASSUME NEW r \in TaskRow, NEW s \in States
    PROVE  /\ [r EXCEPT !.uid = TRUE].status = r.status
           /\ [r EXCEPT !.uid = TRUE].result = r.result
           /\ [r EXCEPT !.status = s].status = s
           /\ [r EXCEPT !.status = s].result = r.result
  BY DEF TaskRow

\* A save leaves the table a table.
LEMMA SetRow ==
    ASSUME TypeOK, NEW i \in Task, NEW r \in TaskRow
    PROVE  [task EXCEPT ![i] = r] \in [Task -> TaskRow]
  BY DEF TypeOK

\* The statuses a task can have are statuses.
LEMMA RowStates == {"PENDING", "RUNNING", "CANCELED", "SUCCESS", "FAILED"}
                       \subseteq States
  BY DEF States

\* Handing on to the next link keeps cur and updates in their ranges.
LEMMA NextTask ==
    ASSUME cur \in Task
    PROVE  cur + 1 \in 1..(NTasks + 1) /\ MaxUpdates \in 0..MaxUpdates
  BY NTasksAssumption, MaxUpdatesAssumption DEF Task

-------------------------------------------------------------------------------
(* Type correctness *)

\* The initial state has the types of TypeOK.
LEMMA TypeInit == Init => TypeOK /\ AtTask
  BY NTasksAssumption, MaxUpdatesAssumption
     DEF Init, TypeOK, AtTask, Busy, Task, TaskRow, NewRow, States, WorkerPcs

\* Every step keeps them: a row is only ever replaced by a row, and the worker
\* is at a task of the chain whenever it is busy.
LEMMA TypeStep ==
    ASSUME TypeOK, AtTask, [Next]_vars
    PROVE  TypeOK' /\ AtTask'
<1> USE DEF TypeOK, AtTask, Busy
<1>a. Busy => cur \in Task /\ task[cur] \in TaskRow
  OBVIOUS
<1>1. CASE TaskStart
  BY <1>1, NTasksAssumption DEF TaskStart, Goto, WorkerPcs, rowVars, cancelVars, Task
<1>1b. CASE FetchRow
  BY <1>1b, <1>a DEF FetchRow, Goto, WorkerPcs, rowVars, cancelVars
<1>2. CASE SaveCeleryUid
  <2>1. row' \in TaskRow
    BY <1>2, RowUpdates, RowStates DEF SaveCeleryUid
  <2>2. task' \in [Task -> TaskRow]
    BY <1>2, <1>a, <2>1, SetRow DEF SaveCeleryUid
  <2> QED
    BY <1>2, <2>1, <2>2 DEF SaveCeleryUid, Goto, WorkerPcs, cancelVars
<1>3. CASE CancelBeforeRun
  <2>1. task' \in [Task -> TaskRow]
    BY <1>3, <1>a, RowUpdates, RowStates, SetRow DEF CancelBeforeRun
  <2> QED
    BY <1>3, <1>a, <2>1, NextTask DEF CancelBeforeRun, Return, WorkerPcs, cancelVars
<1>4. CASE PassCancelCheck
  BY <1>4 DEF PassCancelCheck, Goto, WorkerPcs, rowVars, cancelVars
<1>5. CASE MarkRunning
  <2>1. row' \in TaskRow
    BY <1>5, RowUpdates, RowStates DEF MarkRunning
  <2>2. task' \in [Task -> TaskRow]
    BY <1>5, <1>a, <2>1, SetRow DEF MarkRunning
  <2> QED
    BY <1>5, <2>1, <2>2 DEF MarkRunning, Goto, WorkerPcs, cancelVars
<1>6. CASE MarkProvider
  BY <1>6 DEF MarkProvider, Goto, WorkerPcs, cancelVars, States
<1>7. CASE ReadProgress
  BY <1>7, <1>a, MaxUpdatesAssumption DEF ReadProgress, WorkerPcs, rowVars,
     cancelVars
<1>8. CASE SaveProgress
  BY <1>8 DEF SaveProgress, Goto, WorkerPcs, cancelVars
<1>9. CASE BodyEnds
  BY <1>9 DEF BodyEnds, Goto, WorkerPcs, rowVars, cancelVars
<1>10. CASE BodyRaises
  BY <1>10 DEF BodyRaises, Goto, WorkerPcs, rowVars, cancelVars
<1>11. CASE BodyCanceled
  BY <1>11, <1>a, NextTask DEF BodyCanceled, Return, WorkerPcs, rowVars, cancelVars
<1>12. CASE CheckProvider
  BY <1>12 DEF CheckProvider, Goto, WorkerPcs, rowVars, cancelVars
<1>12b. CASE Publish
  BY <1>12b, <1>a DEF Publish, Goto, WorkerPcs, cancelVars
<1>12c. CASE SaveRaises
  BY <1>12c, <1>a DEF SaveRaises, Leave, WorkerPcs, rowVars, cancelVars
<1>13. CASE SaveSuccess
  <2>1. task' \in [Task -> TaskRow]
    BY <1>13, <1>a, RowUpdates, RowStates, SetRow DEF SaveSuccess
  <2> QED
    BY <1>13, <1>a, <2>1, NextTask DEF SaveSuccess, Return, WorkerPcs, cancelVars
<1>14. CASE FailRead
  BY <1>14, <1>a DEF FailRead, Goto, WorkerPcs, rowVars, cancelVars
<1>15. CASE FailSave
  <2>1. \E r \in TaskRow : task' = [task EXCEPT ![cur] = r]
    <3>1. CASE row.status = "CANCELED"
      BY <1>15, <3>1 DEF FailSave
    <3>2. CASE row.status # "CANCELED"
      BY <1>15, <3>2, RowUpdates, RowStates DEF FailSave
    <3> QED
      BY <3>1, <3>2
  <2>2. task' \in [Task -> TaskRow]
    BY <1>15, <1>a, <2>1, SetRow DEF FailSave
  <2> QED
    BY <1>15, <1>a, <2>2, NextTask DEF FailSave, Return, WorkerPcs, cancelVars
<1>16. CASE FailMailError
  BY <1>16 DEF FailMailError, Goto, WorkerPcs, cancelVars
<1>17. CASE FinalizeProvider
  BY <1>17, NTasksAssumption DEF FinalizeProvider, Goto, WorkerPcs,
     cancelVars, States, Task
<1>18. CASE WorkerLost
  BY <1>18, <1>a DEF WorkerLost, Leave, WorkerPcs, rowVars, cancelVars
<1>19. CASE CancelBegin
  BY <1>19 DEF CancelBegin, rowVars, workVars
<1>20. CASE CancelQuery
  BY <1>20 DEF CancelQuery, rowVars, workVars
<1>21. CASE \E i \in Task : CancelTask(i)
  <2> PICK i \in Task : CancelTask(i)
    BY <1>21
  <2>1. task' \in [Task -> TaskRow]
    BY RowUpdates, RowStates, SetRow DEF CancelTask
  <2> QED
    BY <2>1 DEF CancelTask, workVars
<1>22. CASE CancelProvider
  BY <1>22 DEF CancelProvider, workVars, States
<1>23. CASE \E i \in Task : KillTask(i)
  BY <1>23, <1>a DEF KillTask, Leave, WorkerPcs, rowVars, cancelVars
<1>24. CASE UNCHANGED vars
  BY <1>24 DEF vars, rowVars, workVars, cancelVars
<1> QED
  BY <1>1, <1>1b, <1>2, <1>3, <1>4, <1>5, <1>6, <1>7, <1>8, <1>9, <1>10, <1>11,
     <1>12, <1>12b, <1>12c, <1>13, <1>14, <1>15, <1>16, <1>17, <1>18, <1>19, <1>20, <1>21,
     <1>22, <1>23, <1>24
     DEF Next, RunTask, Cancel

\* ExportTaskChain's variables always have the types of TypeOK.
THEOREM TypeCorrect == Spec => []TypeOK
<1>1. Init => TypeOK /\ AtTask
  BY TypeInit
<1>2. TypeOK /\ AtTask /\ [Next]_vars => (TypeOK /\ AtTask)'
  BY TypeStep
<1> QED
  BY <1>1, <1>2, PTL DEF Spec

-------------------------------------------------------------------------------
(* The inductive invariant *)

\* At the beginning nothing has been read or saved.
LEMMA InvInit == Init => IInv
  BY TypeInit, NTasksAssumption, AbortAssumption
     DEF Init, IInv, NotEnded, Forsaken, Open, SameRead, UnstartedRows, Unstarted,
         ResultsAreSuccesses, AbortRemovesStaging, ProviderCopy, PassedTasksFinished,
         CanceledNeverRuns, FileRecorded, NothingSucceedsAfterAbort, ClosedIsFinished,
         NewRow, Task, FinishedStates

\* Each process's steps keep the bounds on the staleness of every copy.
LEMMA InvStep ==
    ASSUME IInv, [Next]_vars
    PROVE  IInv'
<1>t. TypeOK' /\ AtTask'
  BY TypeStep DEF IInv
<1> USE NTasksAssumption, AbortAssumption
    DEF IInv, AtTask, Busy, NotEnded, Forsaken, Open, SameRead, UnstartedRows, Unstarted,
        ResultsAreSuccesses, AbortRemovesStaging, ProviderCopy, PassedTasksFinished,
        CanceledNeverRuns, FileRecorded, NothingSucceedsAfterAbort, ClosedIsFinished,
        TypeOK, Task, FinishedStates, Return, Goto, Leave, rowVars, workVars, cancelVars
<1>1. CASE TaskStart
  BY <1>1, <1>t DEF TaskStart
<1>1b. CASE FetchRow
  BY <1>1b, <1>t DEF FetchRow
<1>2. CASE SaveCeleryUid
  <2>1. row'.status = row.status /\ row'.result = row.result
    BY <1>2, RowFields, RowStates DEF SaveCeleryUid
  <2>2. task'[cur] = row' /\ \A i \in Task : i # cur => task'[i] = task[i]
    BY <1>2 DEF SaveCeleryUid
  <2>3. NotEnded' /\ SameRead'
    BY <1>2, <1>t, <2>1, <2>2 DEF SaveCeleryUid
  <2>4. UnstartedRows' /\ ResultsAreSuccesses' /\ AbortRemovesStaging'
    BY <1>2, <1>t, <2>1, <2>2 DEF SaveCeleryUid
  <2>5. PassedTasksFinished' /\ FileRecorded' /\ NothingSucceedsAfterAbort'
    BY <1>2, <1>t, <2>1, <2>2 DEF SaveCeleryUid
  <2> QED
    BY <1>2, <1>t, <2>1, <2>2, <2>3, <2>4, <2>5 DEF SaveCeleryUid
<1>3. CASE CancelBeforeRun
  <2>1. /\ task'[cur].status = "CANCELED" /\ task'[cur].result = FALSE
        /\ \A i \in Task : i # cur => task'[i] = task[i]
    BY <1>3, RowFields, RowStates DEF CancelBeforeRun
  <2>2. NotEnded' /\ SameRead'
    BY <1>3, <1>t, <2>1 DEF CancelBeforeRun
  <2>3. UnstartedRows' /\ ResultsAreSuccesses' /\ AbortRemovesStaging'
    BY <1>3, <1>t, <2>1 DEF CancelBeforeRun
  <2>4. PassedTasksFinished' /\ FileRecorded' /\ NothingSucceedsAfterAbort'
    BY <1>3, <1>t, <2>1 DEF CancelBeforeRun
  <2> QED
    BY <1>3, <1>t, <2>2, <2>3, <2>4 DEF CancelBeforeRun
<1>4. CASE PassCancelCheck
  BY <1>4, <1>t DEF PassCancelCheck, Canceled
<1>5. CASE MarkRunning
  <2>1. /\ row'.status = "RUNNING" /\ row'.result = FALSE /\ task'[cur] = row'
        /\ \A i \in Task : i # cur => task'[i] = task[i]
    BY <1>5 DEF MarkRunning
  <2>2. NotEnded' /\ SameRead'
    BY <1>5, <1>t, <2>1 DEF MarkRunning
  <2>3. UnstartedRows' /\ ResultsAreSuccesses' /\ AbortRemovesStaging'
    BY <1>5, <1>t, <2>1 DEF MarkRunning
  <2>4. PassedTasksFinished' /\ FileRecorded' /\ NothingSucceedsAfterAbort'
    BY <1>5, <1>t, <2>1 DEF MarkRunning
  <2> QED
    BY <1>5, <1>t, <2>2, <2>3, <2>4 DEF MarkRunning
<1>6. CASE MarkProvider
  BY <1>6, <1>t DEF MarkProvider
<1>7. CASE ReadProgress
  BY <1>7, <1>t DEF ReadProgress
<1>8. CASE SaveProgress
  BY <1>8, <1>t DEF SaveProgress
<1>9. CASE BodyEnds
  BY <1>9, <1>t DEF BodyEnds
<1>10. CASE BodyRaises
  BY <1>10, <1>t DEF BodyRaises
<1>11. CASE BodyCanceled
  BY <1>11, <1>t DEF BodyCanceled
<1>12. CASE CheckProvider
  BY <1>12, <1>t DEF CheckProvider
<1>12b. CASE Publish
  <2>1. NotEnded' /\ SameRead'
    BY <1>12b, <1>t DEF Publish
  <2>2. UnstartedRows' /\ ResultsAreSuccesses'
    BY <1>12b, <1>t DEF Publish
  <2>3. AbortRemovesStaging' /\ PassedTasksFinished' /\ FileRecorded'
    BY <1>12b, <1>t DEF Publish
  <2> QED
    BY <1>12b, <1>t, <2>1, <2>2, <2>3 DEF Publish
<1>12c. CASE SaveRaises
  BY <1>12c, <1>t DEF SaveRaises
<1>13. CASE SaveSuccess
  <2>1. NotEnded' /\ SameRead'
    BY <1>13, <1>t DEF SaveSuccess
  <2>2. UnstartedRows' /\ ResultsAreSuccesses'
    BY <1>13, <1>t DEF SaveSuccess
  <2>3. AbortRemovesStaging' /\ NothingSucceedsAfterAbort'
    BY <1>13, <1>t DEF SaveSuccess
  <2>4. PassedTasksFinished' /\ FileRecorded'
    BY <1>13, <1>t DEF SaveSuccess
  <2> QED
    BY <1>13, <1>t, <2>1, <2>2, <2>3, <2>4 DEF SaveSuccess
<1>14. CASE FailRead
  BY <1>14, <1>t DEF FailRead
<1>15. CASE FailSave
  <2> DEFINE failed == [row EXCEPT !.status = "FAILED"]
  <2>0. failed.status = "FAILED" /\ failed.result = FALSE
    BY RowFields, RowStates
  <2>1. PICK r : /\ task' = [task EXCEPT ![cur] = r]
                 /\ r.status = last' /\ last' \in {"CANCELED", "FAILED"}
                 /\ r.result = FALSE
                 /\ last' = "FAILED" /\ cur \in AbortTasks => ~staged'
    <3>1. CASE row.status = "CANCELED"
      BY <1>15, <3>1 DEF FailSave
    <3>2. CASE row.status # "CANCELED"
      <4>1. task' = [task EXCEPT ![cur] = failed] /\ last' = "FAILED"
        BY <1>15, <3>2 DEF FailSave
      <4>2. cur \in AbortTasks => ~staged'
        BY <1>15, <3>2 DEF FailSave
      <4> QED
        BY <2>0, <4>1, <4>2
    <3> QED
      BY <3>1, <3>2
  <2>2. NotEnded' /\ SameRead'
    BY <1>15, <2>1, <1>t DEF FailSave
  <2>3. UnstartedRows' /\ ResultsAreSuccesses'
    BY <1>15, <2>1, <1>t DEF FailSave
  <2>4. AbortRemovesStaging' /\ NothingSucceedsAfterAbort'
    BY <1>15, <2>1, <1>t DEF FailSave
  <2>5. PassedTasksFinished' /\ FileRecorded'
    BY <1>15, <2>1, <1>t DEF FailSave
  <2> QED
    BY <1>15, <1>t, <2>2, <2>3, <2>4, <2>5 DEF FailSave
<1>16. CASE FailMailError
  BY <1>16, <1>t DEF FailMailError
<1>17. CASE FinalizeProvider
  BY <1>17, <1>t DEF FinalizeProvider
<1>18. CASE WorkerLost
  BY <1>18, <1>t DEF WorkerLost
<1>19. CASE CancelBegin
  BY <1>19, <1>t DEF CancelBegin
<1>20. CASE CancelQuery
  BY <1>20, <1>t DEF CancelQuery
<1>21. CASE \E i \in Task : CancelTask(i)
  <2> PICK i \in Task : CancelTask(i)
    BY <1>21
  <2>1. NotEnded' /\ SameRead'
    BY <1>t DEF CancelTask
  <2>2. UnstartedRows' /\ ResultsAreSuccesses'
    BY <1>t DEF CancelTask
  <2>3. AbortRemovesStaging' /\ NothingSucceedsAfterAbort'
    BY <1>t DEF CancelTask
  <2>4. PassedTasksFinished' /\ FileRecorded'
    BY <1>t DEF CancelTask
  <2> QED
    BY <1>t, <2>1, <2>2, <2>3, <2>4 DEF CancelTask
<1>22. CASE CancelProvider
  BY <1>22, <1>t DEF CancelProvider
<1>23. CASE \E i \in Task : KillTask(i)
  BY <1>23, <1>t DEF KillTask
<1>24. CASE UNCHANGED vars
  BY <1>24, <1>t DEF vars
<1> QED
  BY <1>1, <1>1b, <1>2, <1>3, <1>4, <1>5, <1>6, <1>7, <1>8, <1>9, <1>10, <1>11,
     <1>12, <1>12b, <1>12c, <1>13, <1>14, <1>15, <1>16, <1>17, <1>18, <1>19, <1>20, <1>21,
     <1>22, <1>23, <1>24
     DEF Next, RunTask, Cancel

\* The copies held in memory are never staler than that.
THEOREM Invariance == Spec => []IInv
<1>1. Init => IInv
  BY InvInit
<1>2. IInv /\ [Next]_vars => IInv'
  BY InvStep
<1> QED
  BY <1>1, <1>2, PTL DEF Spec

\* No save, from however old a copy of a row, reopens a task the worker has left.
THEOREM NoTaskReopened == Spec => []PassedTasksFinished
  BY Invariance, PTL DEF IInv

\* A complete cancellation has CANCELED every task not yet picked up.
THEOREM CancellationComplete == Spec => []CancelReachesUnstarted
<1>1. IInv => CancelReachesUnstarted
  BY DEF IInv, UnstartedRows, CancelReachesUnstarted
<1> QED
  BY <1>1, Invariance, PTL

\* A task that was CANCELED when it was picked up does not get to its body.
THEOREM CanceledTasksStop == Spec => []CanceledNeverRuns
  BY Invariance, PTL DEF IInv

\* No published file is forgotten but by a failure or a loss between its copy and
\* the save of its row, or by a canceller's stale save.
THEOREM FilesAreRecorded == Spec => []FileRecorded
  BY Invariance, PTL DEF IInv

\* No task succeeds after an abort_on_error task before it has failed.
THEOREM AbortIsFinal == Spec => []NothingSucceedsAfterAbort
  BY Invariance, PTL DEF IInv

\* No save reopens a provider whose chain has been closed.
THEOREM ClosedForEver == Spec => []ClosedIsFinished
  BY Invariance, PTL DEF IInv

-------------------------------------------------------------------------------
(* Refinement *)

\* A step of the chain or of the canceller is a step of the provider's life.
LEMMA LifecycleStep ==
    ASSUME IInv, [Next]_vars
    PROVE  [Lifecycle!Next]_(Lifecycle!vars)
<1> USE DEF Lifecycle!Next, Lifecycle!vars, Goto, Leave, Return, rowVars, workVars, cancelVars
<1>1. CASE TaskStart
  BY <1>1 DEF TaskStart
<1>1b. CASE FetchRow
  BY <1>1b DEF FetchRow
<1>12b. CASE Publish
  BY <1>12b DEF Publish
<1>12c. CASE SaveRaises
  BY <1>12c DEF SaveRaises
<1>2. CASE SaveCeleryUid
  BY <1>2 DEF SaveCeleryUid
<1>3. CASE CancelBeforeRun
  BY <1>3 DEF CancelBeforeRun
<1>4. CASE PassCancelCheck
  BY <1>4 DEF PassCancelCheck
<1>5. CASE MarkRunning
  BY <1>5 DEF MarkRunning
<1>6. CASE MarkProvider
  BY <1>6 DEF MarkProvider, Lifecycle!Mark
<1>7. CASE ReadProgress
  BY <1>7 DEF ReadProgress
<1>8. CASE SaveProgress
  BY <1>8 DEF SaveProgress
<1>9. CASE BodyEnds
  BY <1>9 DEF BodyEnds
<1>10. CASE BodyRaises
  BY <1>10 DEF BodyRaises
<1>11. CASE BodyCanceled
  BY <1>11 DEF BodyCanceled
<1>12. CASE CheckProvider
  BY <1>12 DEF CheckProvider
<1>13. CASE SaveSuccess
  BY <1>13 DEF SaveSuccess
<1>14. CASE FailRead
  BY <1>14 DEF FailRead
<1>15. CASE FailSave
  BY <1>15 DEF FailSave
<1>16. CASE FailMailError
  BY <1>16 DEF FailMailError, Lifecycle!Lose
<1>17. CASE FinalizeProvider
  BY <1>17 DEF FinalizeProvider, Lifecycle!Close
<1>18. CASE WorkerLost
  BY <1>18 DEF WorkerLost, Lifecycle!Lose
<1>19. CASE CancelBegin
  BY <1>19 DEF CancelBegin
<1>20. CASE CancelQuery
  BY <1>20 DEF CancelQuery
<1>21. CASE \E i \in Task : CancelTask(i)
  BY <1>21 DEF CancelTask
<1>22. CASE CancelProvider
  BY <1>22 DEF CancelProvider, Lifecycle!Cancel, IInv, ProviderCopy
<1>23. CASE \E i \in Task : KillTask(i)
  BY <1>23 DEF KillTask, Lifecycle!Lose
<1>24. CASE UNCHANGED vars
  BY <1>24 DEF vars
<1> QED
  BY <1>1, <1>1b, <1>2, <1>3, <1>4, <1>5, <1>6, <1>7, <1>8, <1>9, <1>10, <1>11,
     <1>12, <1>12b, <1>12c, <1>13, <1>14, <1>15, <1>16, <1>17, <1>18, <1>19, <1>20, <1>21,
     <1>22, <1>23, <1>24
     DEF Next, RunTask, Cancel

\* The chain and its canceller, database access by database access, implement
\* what RunPipeline relies on.
THEOREM ImplementsLifecycle == Spec => LifecycleSpec
<1>1. Init => Lifecycle!Init
  BY DEF Init, Lifecycle!Init
<1>2. IInv /\ [Next]_vars => [Lifecycle!Next]_(Lifecycle!vars)
  BY LifecycleStep
<1> QED
  BY <1>1, <1>2, Invariance, PTL DEF Spec, LifecycleSpec, Lifecycle!Spec
===============================================================================
