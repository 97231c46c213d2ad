--------------------------- MODULE RunAndStatusProofs --------------------------
(***************************************************************************)
(* The safety properties of RunPipeline for any providers, any number of   *)
(* tasks and any cancellations, and those of StatusPage, the page that     *)
(* follows a run, for any jobs and any bounds on requests, runs and        *)
(* strays.                                                                 *)
(*                                                                         *)
(* The run.  Everything rests on who may have written what: the row of a   *)
(* provider, which wait tasks and finalization chains look at, and the row *)
(* of the run, which several processes save as they read it earlier.  The  *)
(* zip file is complete because a finalization chain that finds nothing    *)
(* staged has another one before it that has finished, and every copy of   *)
(* the run row that ends the run was read after a complete zip file.       *)
(*                                                                         *)
(* The page.  A dialog is about the run in the store because what is drawn *)
(* decides whether it stays: what needs to be known is that a page that    *)
(* does not draw has no dialog.                                            *)
(***************************************************************************)
EXTENDS RunPipeline, StatusPage, TLAPS

\* No user has interfered with the run, or with a provider of it.
Untouched == del = "idle" /\ \A p \in Providers : ~Touched(p)

\* A finalization chain has been started.
Finalizing == \E f \in Providers : fpc[f] # "none"

\* Nor has anything else that ZipIsComplete excepts happened.
Clean == Untouched /\ ~spoiled /\ ~undone

\* The data of all completed providers can be downloaded, or is being copied, and the
\* run says where.
Downloaded == Completed \subseteq download \/ \E f \in Providers : fpc[f] = "copying"
UrlSet == Completed = {} \/ run.zip
Zipped == Downloaded /\ UrlSet

\* Before the chains are sent there is nothing to finalize, and nobody's copy of the
\* run row says anything else.
SentAfterParsing ==
    /\ pickup \in {"waiting", "saving", "parsing"} => \A p \in Providers : chain[p] = "none"
    /\ pickup \in {"waiting", "saving"} =>
          /\ run.status = "SUBMITTED" /\ prun.status = "SUBMITTED" /\ drun.status = "SUBMITTED"
          /\ erun.status = "SUBMITTED"

\* What the stage of a chain says of its provider.
StageSays ==
    \A p \in Providers :
        /\ chain[p] # "none" => pstat[p] # "ABSENT"
        /\ chain[p] \in {"none", "queued", "marking", "working"} => outcome[p] = "NONE"
        /\ chain[p] \in {"marking", "working"} => left[p] > 0
        /\ chain[p] \in {"closed", "over"} => outcome[p] # "NONE"
        /\ fpc[p] # "none" => chain[p] = "over"

\* Who can have written a provider's status: only finalize_export_provider_task
\* writes that it ended, only users that it is CANCELED.
Writers ==
    \A p \in Providers :
        /\ pstat[p] \in {"ABSENT", "PENDING", "RUNNING", "CANCELED", "COMPLETED", "INCOMPLETE"}
        /\ pstat[p] \in {"COMPLETED", "INCOMPLETE"} => pstat[p] = outcome[p]
        /\ pstat[p] = "CANCELED" => Touched(p)
        /\ outcome[p] # "NONE" /\ ~Touched(p) => pstat[p] = outcome[p]

\* A canceller that read an ended provider saves what is still there.
CancellerCopy ==
    \A p \in Providers : ccl[p] = "begun" =>
        /\ pstat[p] # "ABSENT"
        /\ seen[p] \in {"PENDING", "RUNNING", "CANCELED", "COMPLETED", "INCOMPLETE"}
        /\ seen[p] \in {"COMPLETED", "INCOMPLETE"} => pstat[p] = seen[p]

\* A provider that is completed has a file.
OutputRecorded ==
    \A p \in Providers : last[p] = "SUCCESS" \/ outcome[p] = "COMPLETED" => p \in output

\* Only a finalization chain that has done its work removes what is staged.
StagedUntilDone == Records = {} \/ staged \/ \E f \in Providers : fpc[f] = "done"

\* What a finalization chain is about to put in the zip file, or knows to be there.
ZipPhases ==
    Clean =>
        \A f \in Providers :
            /\ fpc[f] = "zip" => \/ Completed \subseteq flist[f]
                                 \/ flist[f] = {} /\ Zipped
            /\ fpc[f] \in {"writing", "copying"} => Completed \subseteq flist[f]
            /\ fpc[f] \in {"refresh", "url"} => Downloaded
            /\ fpc[f] \in {"read", "query", "save", "cleanup", "done"} => Zipped
            /\ fpc[f] \in {"query", "save"} => Completed = {} \/ frun[f].zip

\* The zip file of an ended run is complete, and was made by a finalization chain.
EndedIsZipped ==
    Clean /\ run.status \in {"COMPLETED", "INCOMPLETE"} => Finalizing /\ Zipped

\* What the copies of the run row that are saved later would make of it.
RunCopies ==
    /\ \A f \in Providers : fpc[f] = "save" => frun[f].status \in FinishedStates
    /\ del = "begun" => drun.deleted

IInv == /\ TypeOK /\ SentAfterParsing /\ StageSays /\ Writers /\ CancellerCopy
        /\ FinalizedAfterProviders /\ OutputRecorded /\ StagedUntilDone
        /\ ZipPhases /\ EndedIsZipped /\ RunCopies /\ EndIsKept

USE DEF pickVars, taskVars, provVars, zipVars, dirVars, finVars, editVars, userVars,
        States, FinishedStates, IncompleteStates,
        Records, Touched, Untouched, Clean, Finalizing, Completed, Downloaded, UrlSet,
        Zipped

-------------------------------------------------------------------------------
(* What the steps are made of *)

LEMMA RowTyped ==
    ASSUME NEW r \in RunRow
    PROVE  /\ \A s \in States : [r EXCEPT !.status = s] \in RunRow
           /\ [r EXCEPT !.deleted = TRUE] \in RunRow
           /\ [r EXCEPT !.zip = TRUE] \in RunRow
           /\ NewRun \in RunRow
BY DEF RunRow, NewRun, States

LEMMA NewRunTyped == NewRun \in RunRow
BY DEF RunRow, NewRun, States

LEMMA RunStatusTyped == RunStatus \in FinishedStates /\ RunStatus \in States
BY DEF RunStatus, FinishedStates, States

\* One task less is left.
LEMMA OneLess ==
    ASSUME TypeOK, NEW p \in Providers, left[p] > 0
    PROVE  left[p] - 1 \in 0..TaskCount
<1>1. left[p] \in 0..TaskCount BY DEF TypeOK
<1> QED BY <1>1, TaskCountAssumption

\* While nobody interferes, a run that is being finalized has only ended providers,
\* and these have the status that finalize_export_provider_task gave them.
LEMMA AllDecided ==
    ASSUME IInv, Untouched, Finalizing, NEW p \in Records
    PROVE  outcome[p] # "NONE" /\ pstat[p] = outcome[p] /\ chain[p] # "none"
BY DEF IInv, FinalizedAfterProviders, Finalizing, Untouched, Writers, StageSays, Records

\* Before the chains are sent, and when one of them is not, nothing is finalized.
LEMMA NothingFinalized ==
    ASSUME IInv, pickup \in {"waiting", "saving", "parsing"} \/ (Untouched /\ Unsent # {})
    PROVE  ~Finalizing
<1>1. CASE pickup \in {"waiting", "saving", "parsing"}
  BY <1>1 DEF IInv, SentAfterParsing, StageSays, Finalizing
<1>2. CASE Untouched /\ Unsent # {} BY <1>2, AllDecided DEF Unsent
<1> QED BY <1>1, <1>2

\* A step that leaves the run row and the finalization chains alone.
LEMMA ZipKept ==
    ASSUME IInv, UNCHANGED <<run, outcome, fpc, flist, frun, download>>, Clean' => Clean,
           undone => undone'
    PROVE  ZipPhases' /\ EndedIsZipped' /\ EndIsKept'
<1>1. ZipPhases' /\ EndedIsZipped'
  BY DEF IInv, ZipPhases, EndedIsZipped
<1>2. EndIsKept'
  BY DEF IInv, EndIsKept
<1> QED BY <1>1, <1>2

\* Where nothing is finalized nothing is claimed, nor of the zip file where a user
\* interferes.
LEMMA NothingClaimed ==
    ASSUME ~Finalizing' \/ ~Clean',
           Clean' => run'.status \notin {"COMPLETED", "INCOMPLETE"}
    PROVE  /\ ZipPhases' /\ EndedIsZipped'
           /\ ~Finalizing' => EndIsKept'
BY DEF ZipPhases, EndedIsZipped, EndIsKept

-------------------------------------------------------------------------------
(* pick_up_run_task *)

LEMMA PickUpRunPreserves == ASSUME IInv, PickUpRun PROVE IInv'
<1> USE DEF PickUpRun, IInv
<1>1. TypeOK' BY DEF TypeOK, ChainStages, FinalizerPcs
<1>2. SentAfterParsing' /\ RunCopies'
  BY DEF TypeOK, SentAfterParsing, RunCopies, StageSays, NewRun
<1>3. StageSays' /\ Writers' /\ CancellerCopy' /\ OutputRecorded'
  BY DEF TypeOK, SentAfterParsing, StageSays, Writers, CancellerCopy, OutputRecorded
<1>4. FinalizedAfterProviders'
  BY DEF TypeOK, FinalizedAfterProviders, SentAfterParsing, StageSays, Writers
<1>5. StagedUntilDone'
  BY DEF TypeOK, StagedUntilDone, StageSays, CancellerCopy
<1>6. ZipPhases' /\ EndedIsZipped' /\ EndIsKept' BY ZipKept DEF TypeOK
<1> QED BY <1>1, <1>2, <1>3, <1>4, <1>5, <1>6

LEMMA SaveWorkerPreserves == ASSUME IInv, SaveWorker PROVE IInv'
<1> USE DEF SaveWorker, IInv
<1>1. TypeOK' BY NewRunTyped DEF TypeOK, ChainStages, FinalizerPcs
<1>2. SentAfterParsing' /\ RunCopies'
  BY DEF TypeOK, SentAfterParsing, RunCopies, StageSays, NewRun
<1>3. StageSays' /\ Writers' /\ CancellerCopy' /\ OutputRecorded'
  BY DEF TypeOK, SentAfterParsing, StageSays, Writers, CancellerCopy, OutputRecorded
<1>4. FinalizedAfterProviders'
  BY DEF TypeOK, FinalizedAfterProviders, SentAfterParsing, StageSays, Writers
<1>5. StagedUntilDone'
  BY DEF TypeOK, StagedUntilDone, StageSays, CancellerCopy
<1>6. ZipPhases' /\ EndedIsZipped' /\ EndIsKept'
  <2>1. ~Finalizing' BY NothingFinalized
  <2>2. run'.status = "SUBMITTED" BY DEF SentAfterParsing
  <2> QED BY ONLY <2>1, <2>2, NothingClaimed
<1> QED BY <1>1, <1>2, <1>3, <1>4, <1>5, <1>6

LEMMA EndPickUpPreserves == ASSUME IInv, EndPickUp PROVE IInv'
<1> USE DEF EndPickUp, IInv, Unsent
<1>1. TypeOK' BY NewRunTyped DEF TypeOK, ChainStages, FinalizerPcs
<1>2. SentAfterParsing' /\ RunCopies'
  BY DEF TypeOK, SentAfterParsing, RunCopies, StageSays, NewRun
<1>3. StageSays' /\ Writers' /\ CancellerCopy' /\ OutputRecorded'
  BY DEF TypeOK, SentAfterParsing, StageSays, Writers, CancellerCopy, OutputRecorded
<1>4. FinalizedAfterProviders'
  BY DEF TypeOK, FinalizedAfterProviders, SentAfterParsing, StageSays, Writers
<1>5. StagedUntilDone'
  BY DEF TypeOK, StagedUntilDone, StageSays, CancellerCopy
<1>6. ZipPhases' /\ EndedIsZipped' /\ EndIsKept' BY ZipKept DEF TypeOK
<1> QED BY <1>1, <1>2, <1>3, <1>4, <1>5, <1>6

LEMMA ParseFailsPreserves == ASSUME IInv, ParseFails PROVE IInv'
<1> USE DEF ParseFails, IInv, Unsent
<1>1. TypeOK' BY RowTyped DEF TypeOK, ChainStages, FinalizerPcs
<1>2. SentAfterParsing' /\ RunCopies'
  BY DEF TypeOK, SentAfterParsing, RunCopies, StageSays, NewRun
<1>3. StageSays' /\ Writers' /\ CancellerCopy' /\ OutputRecorded'
  BY DEF TypeOK, SentAfterParsing, StageSays, Writers, CancellerCopy, OutputRecorded
<1>4. FinalizedAfterProviders'
  BY DEF TypeOK, FinalizedAfterProviders, SentAfterParsing, StageSays, Writers
<1>5. StagedUntilDone'
  <2>1. staged => staged' BY DEF TypeOK
  <2> QED BY <2>1 DEF StagedUntilDone
<1>6. ZipPhases' /\ EndedIsZipped' /\ EndIsKept'
  <2>1. Untouched' => ~Finalizing' BY NothingFinalized
  <2>2. run'.status = "FAILED" BY DEF TypeOK, RunRow
  <2>3. Clean' => Untouched' OBVIOUS
  <2>4. ZipPhases' /\ EndedIsZipped' BY ONLY <2>1, <2>2, <2>3, NothingClaimed
  <2> QED BY ONLY <2>2, <2>4 DEF EndIsKept, FinishedStates
<1> QED BY <1>1, <1>2, <1>3, <1>4, <1>5, <1>6

LEMMA LosePickUpPreserves == ASSUME IInv, LosePickUp PROVE IInv'
<1> USE DEF LosePickUp, IInv
<1>1. TypeOK' BY NewRunTyped DEF TypeOK, ChainStages, FinalizerPcs
<1>2. SentAfterParsing' /\ RunCopies'
  BY DEF TypeOK, SentAfterParsing, RunCopies, StageSays, NewRun
<1>3. StageSays' /\ Writers' /\ CancellerCopy' /\ OutputRecorded'
  BY DEF TypeOK, SentAfterParsing, StageSays, Writers, CancellerCopy, OutputRecorded
<1>4. FinalizedAfterProviders'
  BY DEF TypeOK, FinalizedAfterProviders, SentAfterParsing, StageSays, Writers
<1>5. StagedUntilDone'
  BY DEF TypeOK, StagedUntilDone, StageSays, CancellerCopy
<1>6. ZipPhases' /\ EndedIsZipped' /\ EndIsKept' BY ZipKept DEF TypeOK
<1> QED BY <1>1, <1>2, <1>3, <1>4, <1>5, <1>6

LEMMA MakeRecordPreserves == ASSUME IInv, NEW p \in Providers, MakeRecord(p) PROVE IInv'
<1> USE DEF MakeRecord, IInv
<1>1. TypeOK' BY DEF TypeOK, ChainStages, FinalizerPcs
<1>2. SentAfterParsing' /\ RunCopies'
  BY DEF TypeOK, SentAfterParsing, RunCopies, StageSays, NewRun
<1>3. StageSays' /\ Writers' /\ CancellerCopy' /\ OutputRecorded'
  BY DEF TypeOK, SentAfterParsing, StageSays, Writers, CancellerCopy, OutputRecorded
<1>4. FinalizedAfterProviders'
  BY DEF TypeOK, FinalizedAfterProviders, SentAfterParsing, StageSays, Writers
<1>5. StagedUntilDone'
  BY DEF TypeOK, StagedUntilDone, StageSays, CancellerCopy
<1>6. ZipPhases' /\ EndedIsZipped' /\ EndIsKept' BY ZipKept DEF TypeOK
<1> QED BY <1>1, <1>2, <1>3, <1>4, <1>5, <1>6

LEMMA SendChainPreserves == ASSUME IInv, NEW p \in Providers, SendChain(p) PROVE IInv'
<1> USE DEF SendChain, IInv, Unsent
<1>1. TypeOK' BY DEF TypeOK, ChainStages, FinalizerPcs
<1>2. SentAfterParsing' /\ RunCopies'
  BY DEF TypeOK, SentAfterParsing, RunCopies, StageSays, NewRun
<1>3. StageSays' /\ Writers' /\ CancellerCopy' /\ OutputRecorded'
  BY DEF TypeOK, SentAfterParsing, StageSays, Writers, CancellerCopy, OutputRecorded
<1>4. FinalizedAfterProviders'
  BY DEF TypeOK, FinalizedAfterProviders, SentAfterParsing, StageSays, Writers
<1>5. StagedUntilDone'
  BY DEF TypeOK, StagedUntilDone, StageSays, CancellerCopy
<1>6. ZipPhases' /\ EndedIsZipped' /\ EndIsKept' BY ZipKept DEF TypeOK
<1> QED BY <1>1, <1>2, <1>3, <1>4, <1>5, <1>6

-------------------------------------------------------------------------------
(* A provider's chain *)

LEMMA SkipTaskPreserves == ASSUME IInv, NEW p \in Providers, SkipTask(p) PROVE IInv'
<1> USE DEF SkipTask, IInv, Return, Ready, Stopped
<1>0. left[p] - 1 \in 0..TaskCount BY OneLess DEF StageSays
<1>1. TypeOK' BY <1>0 DEF TypeOK, ChainStages
<1>2. SentAfterParsing' /\ RunCopies'
  BY DEF TypeOK, SentAfterParsing, RunCopies, StageSays, NewRun
<1>3. StageSays' /\ Writers' /\ CancellerCopy' /\ OutputRecorded'
  BY DEF TypeOK, SentAfterParsing, StageSays, Writers, CancellerCopy, OutputRecorded
<1>4. FinalizedAfterProviders'
  BY DEF TypeOK, FinalizedAfterProviders, SentAfterParsing, StageSays, Writers
<1>5. StagedUntilDone'
  BY DEF TypeOK, StagedUntilDone, StageSays, CancellerCopy
<1>6. ZipPhases' /\ EndedIsZipped' /\ EndIsKept' BY ZipKept DEF TypeOK
<1> QED BY <1>1, <1>2, <1>3, <1>4, <1>5, <1>6

LEMMA StartTaskPreserves == ASSUME IInv, NEW p \in Providers, StartTask(p) PROVE IInv'
<1> USE DEF StartTask, IInv, Ready, Stopped
<1>1. TypeOK' BY DEF TypeOK, ChainStages, FinalizerPcs
<1>2. SentAfterParsing' /\ RunCopies'
  BY DEF TypeOK, SentAfterParsing, RunCopies, StageSays, NewRun
<1>3. StageSays' /\ Writers' /\ CancellerCopy' /\ OutputRecorded'
  BY DEF TypeOK, SentAfterParsing, StageSays, Writers, CancellerCopy, OutputRecorded
<1>4. FinalizedAfterProviders'
  BY DEF TypeOK, FinalizedAfterProviders, SentAfterParsing, StageSays, Writers
<1>5. StagedUntilDone'
  BY DEF TypeOK, StagedUntilDone, StageSays, CancellerCopy
<1>6. ZipPhases' /\ EndedIsZipped' /\ EndIsKept' BY ZipKept DEF TypeOK
<1> QED BY <1>1, <1>2, <1>3, <1>4, <1>5, <1>6

LEMMA MarkProviderPreserves == ASSUME IInv, NEW p \in Providers, MarkProvider(p) PROVE IInv'
<1> USE DEF MarkProvider, IInv
<1>1. TypeOK' BY DEF TypeOK, ChainStages, FinalizerPcs
<1>2. SentAfterParsing' /\ RunCopies'
  BY DEF TypeOK, SentAfterParsing, RunCopies, StageSays, NewRun
<1>3. StageSays' /\ Writers' /\ CancellerCopy' /\ OutputRecorded'
  BY DEF TypeOK, SentAfterParsing, StageSays, Writers, CancellerCopy, OutputRecorded
<1>4. FinalizedAfterProviders'
  BY DEF TypeOK, FinalizedAfterProviders, SentAfterParsing, StageSays, Writers
<1>5. StagedUntilDone'
  BY DEF TypeOK, StagedUntilDone, StageSays, CancellerCopy
<1>6. ZipPhases' /\ EndedIsZipped' /\ EndIsKept' BY ZipKept DEF TypeOK
<1> QED BY <1>1, <1>2, <1>3, <1>4, <1>5, <1>6

LEMMA EndTaskPreserves ==
    ASSUME IInv, NEW p \in Providers, NEW r \in {"SUCCESS", "FAILED", "CANCELED"},
           EndTask(p, r)
    PROVE  IInv'
<1> USE DEF EndTask, IInv, Return
<1>0. left[p] - 1 \in 0..TaskCount BY OneLess DEF StageSays
<1>1. TypeOK' BY <1>0 DEF TypeOK, ChainStages
<1>2. SentAfterParsing' /\ RunCopies'
  BY DEF TypeOK, SentAfterParsing, RunCopies, StageSays, NewRun
<1>3. StageSays' /\ Writers' /\ CancellerCopy' /\ OutputRecorded'
  BY DEF TypeOK, SentAfterParsing, StageSays, Writers, CancellerCopy, OutputRecorded
<1>4. FinalizedAfterProviders'
  BY DEF TypeOK, FinalizedAfterProviders, SentAfterParsing, StageSays, Writers
<1>5. StagedUntilDone'
  BY DEF TypeOK, StagedUntilDone, StageSays, CancellerCopy
<1>6. ZipPhases' /\ EndedIsZipped' /\ EndIsKept' BY ZipKept DEF TypeOK
<1> QED BY <1>1, <1>2, <1>3, <1>4, <1>5, <1>6

LEMMA FinalizeProviderPreserves ==
    ASSUME IInv, NEW p \in Providers, FinalizeProvider(p)
    PROVE  IInv'
<1> USE DEF FinalizeProvider, IInv
<1>1. TypeOK'
  <2>1. outcome' \in [Providers -> {"NONE", "COMPLETED", "INCOMPLETE"}] BY DEF TypeOK
  <2>2. outcome'[p] \in States BY DEF TypeOK
  <2>3. pstat' \in [Providers -> States \cup {"ABSENT"}] BY <2>2 DEF TypeOK
  <2> QED BY <2>1, <2>3 DEF TypeOK, ChainStages
<1>2. SentAfterParsing' /\ RunCopies'
  BY DEF TypeOK, SentAfterParsing, RunCopies, StageSays, NewRun
<1>3. StageSays' /\ Writers' /\ CancellerCopy' /\ OutputRecorded'
  BY DEF TypeOK, SentAfterParsing, StageSays, Writers, CancellerCopy, OutputRecorded
<1>4. FinalizedAfterProviders'
  BY DEF TypeOK, FinalizedAfterProviders, SentAfterParsing, StageSays, Writers
<1>5. StagedUntilDone'
  BY DEF TypeOK, StagedUntilDone, StageSays, CancellerCopy
<1>6. ZipPhases' /\ EndedIsZipped' /\ EndIsKept'
  <2>1. Untouched => ~Finalizing BY AllDecided DEF StageSays
  <2>2. Clean => run.status \notin {"COMPLETED", "INCOMPLETE"} BY <2>1 DEF EndedIsZipped
  <2>3. Clean' = Clean /\ Finalizing' = Finalizing BY DEF TypeOK
  <2>4. Clean => Untouched OBVIOUS
  <2>5. ZipPhases' /\ EndedIsZipped' BY ONLY <2>1, <2>2, <2>3, <2>4, run' = run, NothingClaimed
  <2> QED BY <2>5 DEF EndIsKept
<1> QED BY <1>1, <1>2, <1>3, <1>4, <1>5, <1>6

LEMMA WaitForProvidersPreserves ==
    ASSUME IInv, NEW p \in Providers, WaitForProviders(p)
    PROVE  IInv'
<1> USE DEF WaitForProviders, IInv
<1>1. TypeOK' BY DEF TypeOK, ChainStages, FinalizerPcs
<1>2. SentAfterParsing' /\ RunCopies'
  BY DEF TypeOK, SentAfterParsing, RunCopies, StageSays, NewRun
<1>3. StageSays' /\ Writers' /\ CancellerCopy' /\ OutputRecorded'
  BY DEF TypeOK, SentAfterParsing, StageSays, Writers, CancellerCopy, OutputRecorded
<1>4. FinalizedAfterProviders'
  BY DEF TypeOK, FinalizedAfterProviders, SentAfterParsing, StageSays, Writers
<1>5. StagedUntilDone'
  BY DEF TypeOK, StagedUntilDone, StageSays, CancellerCopy
<1>6. ZipPhases' /\ EndedIsZipped' /\ EndIsKept'
  <2>0. EndIsKept' BY DEF TypeOK, EndIsKept, StageSays
  <2> SUFFICES ASSUME Clean' PROVE ZipPhases' /\ EndedIsZipped'
    BY <2>0 DEF ZipPhases, EndedIsZipped
  <2>1. /\ Clean /\ Completed' = Completed
        /\ Finalizing => Finalizing'
        /\ \A f \in Providers : fpc'[f] = fpc[f] \/ (fpc'[f] = "prepare" /\ fpc[f] = "none")
    BY DEF TypeOK, StageSays
  <2>2. (Downloaded => Downloaded') /\ (Zipped => Zipped') BY <2>1
  <2> QED BY <2>1, <2>2 DEF ZipPhases, EndedIsZipped
<1> QED BY <1>1, <1>2, <1>3, <1>4, <1>5, <1>6

LEMMA LoseChainPreserves == ASSUME IInv, NEW p \in Providers, LoseChain(p) PROVE IInv'
<1> USE DEF LoseChain, IInv
<1>1. TypeOK' BY DEF TypeOK, ChainStages, FinalizerPcs
<1>2. SentAfterParsing' /\ RunCopies'
  BY DEF TypeOK, SentAfterParsing, RunCopies, StageSays, NewRun
<1>3. StageSays' /\ Writers' /\ CancellerCopy' /\ OutputRecorded'
  BY DEF TypeOK, SentAfterParsing, StageSays, Writers, CancellerCopy, OutputRecorded
<1>4. FinalizedAfterProviders'
  BY DEF TypeOK, FinalizedAfterProviders, SentAfterParsing, StageSays, Writers
<1>5. StagedUntilDone'
  BY DEF TypeOK, StagedUntilDone, StageSays, CancellerCopy
<1>6. ZipPhases' /\ EndedIsZipped' /\ EndIsKept' BY ZipKept DEF TypeOK
<1> QED BY <1>1, <1>2, <1>3, <1>4, <1>5, <1>6

-------------------------------------------------------------------------------
(* The finalization chain *)

LEMMA PrepareZipPreserves == ASSUME IInv, NEW p \in Providers, PrepareZip(p) PROVE IInv'
<1> USE DEF PrepareZip, IInv
<1>1. TypeOK' BY DEF TypeOK, ChainStages, FinalizerPcs
<1>2. SentAfterParsing' /\ RunCopies'
  BY DEF TypeOK, SentAfterParsing, RunCopies, StageSays, NewRun
<1>3. StageSays' /\ Writers' /\ CancellerCopy' /\ OutputRecorded'
  BY DEF TypeOK, SentAfterParsing, StageSays, Writers, CancellerCopy, OutputRecorded
<1>4. FinalizedAfterProviders'
  BY DEF TypeOK, FinalizedAfterProviders, SentAfterParsing, StageSays, Writers
<1>5. StagedUntilDone'
  BY DEF TypeOK, StagedUntilDone, StageSays, CancellerCopy
<1>6. ZipPhases' /\ EndedIsZipped' /\ EndIsKept'
  <2>0. EndIsKept' BY DEF TypeOK, EndIsKept
  <2> SUFFICES ASSUME Clean' PROVE ZipPhases' /\ EndedIsZipped'
    BY <2>0 DEF ZipPhases, EndedIsZipped
  <2>1. Untouched /\ Finalizing /\ p \in Records BY DEF StageSays
  <2>2. CASE staged
    <3>1. Completed \subseteq flist'[p]
      BY <2>1, <2>2, AllDecided DEF TypeOK, OutputRecorded, Writers
    <3> QED BY <2>1, <3>1 DEF TypeOK, ZipPhases, EndedIsZipped
  <2>3. CASE ~staged
    <3>1. Zipped BY <2>1, <2>3 DEF StagedUntilDone, ZipPhases
    <3>2. flist'[p] = {} BY <2>3 DEF TypeOK
    <3> QED BY <2>1, <3>1, <3>2 DEF TypeOK, ZipPhases, EndedIsZipped
  <2> QED BY <2>2, <2>3
<1> QED BY <1>1, <1>2, <1>3, <1>4, <1>5, <1>6

LEMMA SkipZipPreserves == ASSUME IInv, NEW p \in Providers, SkipZip(p) PROVE IInv'
<1> USE DEF SkipZip, IInv
<1>1. TypeOK' BY DEF TypeOK, ChainStages, FinalizerPcs
<1>2. SentAfterParsing' /\ RunCopies'
  BY DEF TypeOK, SentAfterParsing, RunCopies, StageSays, NewRun
<1>3. StageSays' /\ Writers' /\ CancellerCopy' /\ OutputRecorded'
  BY DEF TypeOK, SentAfterParsing, StageSays, Writers, CancellerCopy, OutputRecorded
<1>4. FinalizedAfterProviders'
  BY DEF TypeOK, FinalizedAfterProviders, SentAfterParsing, StageSays, Writers
<1>5. StagedUntilDone'
  BY DEF TypeOK, StagedUntilDone, StageSays, CancellerCopy
<1>6. ZipPhases' /\ EndedIsZipped' /\ EndIsKept'
  <2>0. EndIsKept' BY DEF TypeOK, EndIsKept
  <2> SUFFICES ASSUME Clean' PROVE ZipPhases' /\ EndedIsZipped'
    BY <2>0 DEF ZipPhases, EndedIsZipped
  <2>1. Clean /\ Finalizing /\ Finalizing' /\ Completed' = Completed BY DEF TypeOK
  <2>2. Zipped BY <2>1 DEF ZipPhases
  <2>3. Downloaded' /\ UrlSet' BY <2>1, <2>2 DEF TypeOK
  <2> QED BY <2>1, <2>3 DEF TypeOK, ZipPhases, EndedIsZipped
<1> QED BY <1>1, <1>2, <1>3, <1>4, <1>5, <1>6

LEMMA OpenZipPreserves == ASSUME IInv, NEW p \in Providers, OpenZip(p) PROVE IInv'
<1> USE DEF OpenZip, IInv
<1>1. TypeOK' BY DEF TypeOK, ChainStages, FinalizerPcs
<1>2. SentAfterParsing' /\ RunCopies'
  BY DEF TypeOK, SentAfterParsing, RunCopies, StageSays, NewRun
<1>3. StageSays' /\ Writers' /\ CancellerCopy' /\ OutputRecorded'
  BY DEF TypeOK, SentAfterParsing, StageSays, Writers, CancellerCopy, OutputRecorded
<1>4. FinalizedAfterProviders'
  BY DEF TypeOK, FinalizedAfterProviders, SentAfterParsing, StageSays, Writers
<1>5. StagedUntilDone'
  BY DEF TypeOK, StagedUntilDone, StageSays, CancellerCopy
<1>6. ZipPhases' /\ EndedIsZipped' /\ EndIsKept'
  <2>0. EndIsKept' BY DEF TypeOK, EndIsKept
  <2> SUFFICES ASSUME Clean' PROVE ZipPhases' /\ EndedIsZipped'
    BY <2>0 DEF ZipPhases, EndedIsZipped
  <2>1. Clean /\ Finalizing /\ Finalizing' /\ Completed' = Completed BY DEF TypeOK
  <2>2. Completed \subseteq flist[p] BY <2>1 DEF ZipPhases
  <2>3. (Downloaded => Downloaded') /\ (UrlSet => UrlSet') BY <2>1 DEF TypeOK
  <2> QED BY <2>1, <2>2, <2>3 DEF TypeOK, ZipPhases, EndedIsZipped
<1> QED BY <1>1, <1>2, <1>3, <1>4, <1>5, <1>6

LEMMA CopyZipPreserves == ASSUME IInv, NEW p \in Providers, CopyZip(p) PROVE IInv'
<1> USE DEF CopyZip, IInv
<1>1. TypeOK'
  <2>1. archive' \subseteq Providers BY DEF TypeOK, Kept
  <2> QED BY <2>1 DEF TypeOK, FinalizerPcs
<1>2. SentAfterParsing' /\ RunCopies'
  BY DEF TypeOK, SentAfterParsing, RunCopies, StageSays, NewRun
<1>3. StageSays' /\ Writers' /\ CancellerCopy' /\ OutputRecorded'
  BY DEF TypeOK, SentAfterParsing, StageSays, Writers, CancellerCopy, OutputRecorded
<1>4. FinalizedAfterProviders'
  BY DEF TypeOK, FinalizedAfterProviders, SentAfterParsing, StageSays, Writers
<1>5. StagedUntilDone'
  BY DEF TypeOK, StagedUntilDone, StageSays, CancellerCopy
<1>6. ZipPhases' /\ EndedIsZipped' /\ EndIsKept'
  <2>0. EndIsKept' BY DEF TypeOK, EndIsKept
  <2> SUFFICES ASSUME Clean' PROVE ZipPhases' /\ EndedIsZipped'
    BY <2>0 DEF ZipPhases, EndedIsZipped
  <2>1. Clean /\ Finalizing /\ Finalizing' /\ Completed' = Completed BY DEF TypeOK
  <2>2. Completed \subseteq flist'[p]
    <3>1. archive' = archive \cup flist[p] BY <2>1 DEF Kept
    <3> QED BY <2>1, <3>1 DEF TypeOK, ZipPhases
  <2>3. Downloaded' /\ (UrlSet => UrlSet') BY <2>1 DEF TypeOK
  <2> QED BY <2>1, <2>2, <2>3 DEF TypeOK, ZipPhases, EndedIsZipped
<1> QED BY <1>1, <1>2, <1>3, <1>4, <1>5, <1>6

LEMMA EndCopyPreserves == ASSUME IInv, NEW p \in Providers, EndCopy(p) PROVE IInv'
<1> USE DEF EndCopy, IInv
<1>1. TypeOK'
  <2>1. download' \subseteq Providers BY DEF TypeOK, Kept
  <2> QED BY <2>1 DEF TypeOK, FinalizerPcs
<1>2. SentAfterParsing' /\ RunCopies'
  BY DEF TypeOK, SentAfterParsing, RunCopies, StageSays, NewRun
<1>3. StageSays' /\ Writers' /\ CancellerCopy' /\ OutputRecorded'
  BY DEF TypeOK, SentAfterParsing, StageSays, Writers, CancellerCopy, OutputRecorded
<1>4. FinalizedAfterProviders'
  BY DEF TypeOK, FinalizedAfterProviders, SentAfterParsing, StageSays, Writers
<1>5. StagedUntilDone'
  BY DEF TypeOK, StagedUntilDone, StageSays, CancellerCopy
<1>6. ZipPhases' /\ EndedIsZipped' /\ EndIsKept'
  <2>0. EndIsKept' BY DEF TypeOK, EndIsKept
  <2> SUFFICES ASSUME Clean' PROVE ZipPhases' /\ EndedIsZipped'
    BY <2>0 DEF ZipPhases, EndedIsZipped
  <2>1. Clean /\ Finalizing /\ Finalizing' /\ Completed' = Completed BY DEF TypeOK
  <2>2. Completed \subseteq download'
    <3>1. download' = flist[p] BY <2>1 DEF Kept
    <3> QED BY <2>1, <3>1 DEF ZipPhases
  <2>3. Downloaded' /\ (UrlSet => UrlSet') BY <2>1, <2>2 DEF TypeOK
  <2> QED BY <2>1, <2>3 DEF TypeOK, ZipPhases, EndedIsZipped
<1> QED BY <1>1, <1>2, <1>3, <1>4, <1>5, <1>6

LEMMA RefreshRunPreserves == ASSUME IInv, NEW p \in Providers, RefreshRun(p) PROVE IInv'
<1> USE DEF RefreshRun, IInv
<1>1. TypeOK' BY DEF TypeOK, ChainStages, FinalizerPcs
<1>2. SentAfterParsing' /\ RunCopies'
  BY DEF TypeOK, SentAfterParsing, RunCopies, StageSays, NewRun
<1>3. StageSays' /\ Writers' /\ CancellerCopy' /\ OutputRecorded'
  BY DEF TypeOK, SentAfterParsing, StageSays, Writers, CancellerCopy, OutputRecorded
<1>4. FinalizedAfterProviders'
  BY DEF TypeOK, FinalizedAfterProviders, SentAfterParsing, StageSays, Writers
<1>5. StagedUntilDone'
  BY DEF TypeOK, StagedUntilDone, StageSays, CancellerCopy
<1>6. ZipPhases' /\ EndedIsZipped' /\ EndIsKept'
  <2>0. EndIsKept' BY DEF TypeOK, EndIsKept
  <2> SUFFICES ASSUME Clean' PROVE ZipPhases' /\ EndedIsZipped'
    BY <2>0 DEF ZipPhases, EndedIsZipped
  <2>1. Clean /\ Finalizing /\ Finalizing' /\ Completed' = Completed BY DEF TypeOK
  <2>2. (Downloaded => Downloaded') /\ (UrlSet => UrlSet') BY <2>1 DEF TypeOK
  <2> QED BY <2>1, <2>2 DEF TypeOK, ZipPhases, EndedIsZipped
<1> QED BY <1>1, <1>2, <1>3, <1>4, <1>5, <1>6

LEMMA SaveUrlPreserves == ASSUME IInv, NEW p \in Providers, SaveUrl(p) PROVE IInv'
<1> USE DEF SaveUrl, IInv
<1>1. TypeOK'
  <2>1. run' \in RunRow
    <3>1. frun[p] \in RunRow /\ run \in RunRow BY DEF TypeOK
    <3>2. run' = [frun[p] EXCEPT !.zip = TRUE] \/ run' = run OBVIOUS
    <3> QED BY ONLY <3>1, <3>2, RowTyped
  <2>2. frun' \in [Providers -> RunRow] /\ fpc' \in [Providers -> FinalizerPcs]
    BY NewRunTyped DEF TypeOK, FinalizerPcs
  <2>3. spoiled' \in BOOLEAN /\ pstat' = pstat /\ left' = left BY DEF TypeOK
  <2> QED BY <2>1, <2>2, <2>3 DEF TypeOK
<1>2. SentAfterParsing' /\ RunCopies'
  BY DEF TypeOK, SentAfterParsing, RunCopies, StageSays, NewRun
<1>3. StageSays' /\ Writers' /\ CancellerCopy' /\ OutputRecorded'
  BY DEF TypeOK, SentAfterParsing, StageSays, Writers, CancellerCopy, OutputRecorded
<1>4. FinalizedAfterProviders'
  BY DEF TypeOK, FinalizedAfterProviders, SentAfterParsing, StageSays, Writers
<1>5. StagedUntilDone'
  BY DEF TypeOK, StagedUntilDone, StageSays, CancellerCopy
<1>6. ZipPhases' /\ EndedIsZipped' /\ EndIsKept'
  <2>0. EndIsKept' BY DEF TypeOK, EndIsKept
  <2> SUFFICES ASSUME Clean' PROVE ZipPhases' /\ EndedIsZipped'
    BY <2>0 DEF ZipPhases, EndedIsZipped
  <2>1. Clean /\ Finalizing /\ Finalizing' /\ Completed' = Completed BY DEF TypeOK
  <2>2. run'.zip BY <2>1 DEF TypeOK, RunRow
  <2>3. Downloaded BY <2>1 DEF ZipPhases
  <2>4. Downloaded' /\ UrlSet' BY <2>1, <2>2, <2>3 DEF TypeOK
  <2> QED BY <2>1, <2>4 DEF TypeOK, ZipPhases, EndedIsZipped
<1> QED BY <1>1, <1>2, <1>3, <1>4, <1>5, <1>6

LEMMA ZipFailsPreserves == ASSUME IInv, NEW p \in Providers, ZipFails(p) PROVE IInv'
<1> USE DEF ZipFails, IInv
<1>1. TypeOK' BY DEF TypeOK, ChainStages, FinalizerPcs
<1>2. SentAfterParsing' /\ RunCopies'
  BY DEF TypeOK, SentAfterParsing, RunCopies, StageSays, NewRun
<1>3. StageSays' /\ Writers' /\ CancellerCopy' /\ OutputRecorded'
  BY DEF TypeOK, SentAfterParsing, StageSays, Writers, CancellerCopy, OutputRecorded
<1>4. FinalizedAfterProviders'
  BY DEF TypeOK, FinalizedAfterProviders, SentAfterParsing, StageSays, Writers
<1>5. StagedUntilDone'
  BY DEF TypeOK, StagedUntilDone, StageSays, CancellerCopy
<1>6. ZipPhases' /\ EndedIsZipped' /\ EndIsKept'
  <2>0. EndIsKept' BY DEF TypeOK, EndIsKept
  <2> SUFFICES ASSUME Clean' PROVE ZipPhases' /\ EndedIsZipped'
    BY <2>0 DEF ZipPhases, EndedIsZipped
  <2>1. Clean /\ Finalizing /\ Finalizing' /\ Completed' = Completed BY DEF TypeOK
  <2>2. (Downloaded => Downloaded') /\ (UrlSet => UrlSet') BY <2>1 DEF TypeOK
  <2> QED BY <2>1, <2>2 DEF TypeOK, ZipPhases, EndedIsZipped
<1> QED BY <1>1, <1>2, <1>3, <1>4, <1>5, <1>6

LEMMA ReadRunPreserves == ASSUME IInv, NEW p \in Providers, ReadRun(p) PROVE IInv'
<1> USE DEF ReadRun, IInv
<1>1. TypeOK' BY DEF TypeOK, ChainStages, FinalizerPcs
<1>2. SentAfterParsing' /\ RunCopies'
  BY DEF TypeOK, SentAfterParsing, RunCopies, StageSays, NewRun
<1>3. StageSays' /\ Writers' /\ CancellerCopy' /\ OutputRecorded'
  BY DEF TypeOK, SentAfterParsing, StageSays, Writers, CancellerCopy, OutputRecorded
<1>4. FinalizedAfterProviders'
  BY DEF TypeOK, FinalizedAfterProviders, SentAfterParsing, StageSays, Writers
<1>5. StagedUntilDone'
  BY DEF TypeOK, StagedUntilDone, StageSays, CancellerCopy
<1>6. ZipPhases' /\ EndedIsZipped' /\ EndIsKept'
  <2>0. EndIsKept' BY DEF TypeOK, EndIsKept
  <2> SUFFICES ASSUME Clean' PROVE ZipPhases' /\ EndedIsZipped'
    BY <2>0 DEF ZipPhases, EndedIsZipped
  <2>1. Clean /\ Finalizing /\ Finalizing' /\ Completed' = Completed BY DEF TypeOK
  <2>2. (Downloaded => Downloaded') /\ (UrlSet => UrlSet') BY <2>1 DEF TypeOK
  <2>3. UrlSet BY <2>1 DEF ZipPhases
  <2> QED BY <2>1, <2>2, <2>3 DEF TypeOK, ZipPhases, EndedIsZipped
<1> QED BY <1>1, <1>2, <1>3, <1>4, <1>5, <1>6

LEMMA ReadProvidersPreserves == ASSUME IInv, NEW p \in Providers, ReadProviders(p) PROVE IInv'
<1> USE DEF ReadProviders, IInv
<1>0. /\ [frun[p] EXCEPT !.status = RunStatus] \in RunRow
      /\ frun'[p] = [frun[p] EXCEPT !.status = RunStatus]
  BY RowTyped, RunStatusTyped DEF TypeOK
<1>1. TypeOK' BY <1>0 DEF TypeOK, FinalizerPcs
<1>2. SentAfterParsing' /\ RunCopies'
  <2>1. frun'[p].status \in FinishedStates BY <1>0, RunStatusTyped DEF TypeOK, RunRow
  <2> QED BY <2>1 DEF TypeOK, SentAfterParsing, RunCopies
<1>3. StageSays' /\ Writers' /\ CancellerCopy' /\ OutputRecorded'
  BY DEF TypeOK, SentAfterParsing, StageSays, Writers, CancellerCopy, OutputRecorded
<1>4. FinalizedAfterProviders'
  BY DEF TypeOK, FinalizedAfterProviders, SentAfterParsing, StageSays, Writers
<1>5. StagedUntilDone'
  BY DEF TypeOK, StagedUntilDone, StageSays, CancellerCopy
<1>6. ZipPhases' /\ EndedIsZipped' /\ EndIsKept'
  <2>0. EndIsKept' BY DEF TypeOK, EndIsKept
  <2> SUFFICES ASSUME Clean' PROVE ZipPhases' /\ EndedIsZipped'
    BY <2>0 DEF ZipPhases, EndedIsZipped
  <2>1. Clean /\ Finalizing /\ Finalizing' /\ Completed' = Completed BY DEF TypeOK
  <2>2. (Downloaded => Downloaded') /\ (UrlSet => UrlSet') BY <2>1 DEF TypeOK
  <2>3. frun'[p].zip = frun[p].zip BY <1>0 DEF TypeOK, RunRow
  <2> QED BY <2>1, <2>2, <2>3 DEF TypeOK, ZipPhases, EndedIsZipped
<1> QED BY <1>1, <1>2, <1>3, <1>4, <1>5, <1>6

LEMMA SaveRunPreserves == ASSUME IInv, NEW p \in Providers, SaveRun(p) PROVE IInv'
<1> USE DEF SaveRun, IInv
<1>1. TypeOK' BY NewRunTyped DEF TypeOK, ChainStages, FinalizerPcs
<1>2. SentAfterParsing' /\ RunCopies'
  BY DEF TypeOK, SentAfterParsing, RunCopies, StageSays, NewRun
<1>3. StageSays' /\ Writers' /\ CancellerCopy' /\ OutputRecorded'
  BY DEF TypeOK, SentAfterParsing, StageSays, Writers, CancellerCopy, OutputRecorded
<1>4. FinalizedAfterProviders'
  BY DEF TypeOK, FinalizedAfterProviders, SentAfterParsing, StageSays, Writers
<1>5. StagedUntilDone'
  BY DEF TypeOK, StagedUntilDone, StageSays, CancellerCopy
<1>6. ZipPhases' /\ EndedIsZipped' /\ EndIsKept'
  <2>0. EndIsKept' BY DEF TypeOK, EndIsKept, RunCopies
  <2> SUFFICES ASSUME Clean' PROVE ZipPhases' /\ EndedIsZipped'
    BY <2>0 DEF ZipPhases, EndedIsZipped
  <2>1. Clean /\ Finalizing /\ Finalizing' /\ Completed' = Completed BY DEF TypeOK
  <2>2. Downloaded' /\ UrlSet' BY <2>1 DEF TypeOK, ZipPhases
  <2> QED BY <2>1, <2>2 DEF TypeOK, ZipPhases, EndedIsZipped
<1> QED BY <1>1, <1>2, <1>3, <1>4, <1>5, <1>6

LEMMA RemoveStageDirPreserves ==
    ASSUME IInv, NEW p \in Providers, RemoveStageDir(p)
    PROVE  IInv'
<1> USE DEF RemoveStageDir, IInv
<1>1. TypeOK' BY DEF TypeOK, ChainStages, FinalizerPcs
<1>2. SentAfterParsing' /\ RunCopies'
  BY DEF TypeOK, SentAfterParsing, RunCopies, StageSays, NewRun
<1>3. StageSays' /\ Writers' /\ CancellerCopy' /\ OutputRecorded'
  BY DEF TypeOK, SentAfterParsing, StageSays, Writers, CancellerCopy, OutputRecorded
<1>4. FinalizedAfterProviders'
  BY DEF TypeOK, FinalizedAfterProviders, SentAfterParsing, StageSays, Writers
<1>5. StagedUntilDone'
  BY DEF TypeOK, StagedUntilDone, StageSays, CancellerCopy
<1>6. ZipPhases' /\ EndedIsZipped' /\ EndIsKept'
  <2>0. EndIsKept' BY DEF TypeOK, EndIsKept
  <2> SUFFICES ASSUME Clean' PROVE ZipPhases' /\ EndedIsZipped'
    BY <2>0 DEF ZipPhases, EndedIsZipped
  <2>1. Clean /\ Finalizing /\ Finalizing' /\ Completed' = Completed BY DEF TypeOK
  <2>2. (Downloaded => Downloaded') /\ (UrlSet => UrlSet') BY <2>1 DEF TypeOK
  <2> QED BY <2>1, <2>2 DEF TypeOK, ZipPhases, EndedIsZipped
<1> QED BY <1>1, <1>2, <1>3, <1>4, <1>5, <1>6

LEMMA LoseFinalizerPreserves == ASSUME IInv, NEW p \in Providers, LoseFinalizer(p) PROVE IInv'
<1> USE DEF LoseFinalizer, IInv
<1>1. TypeOK' BY NewRunTyped DEF TypeOK, ChainStages, FinalizerPcs
<1>2. SentAfterParsing' /\ RunCopies'
  BY DEF TypeOK, SentAfterParsing, RunCopies, StageSays, NewRun
<1>3. StageSays' /\ Writers' /\ CancellerCopy' /\ OutputRecorded'
  BY DEF TypeOK, SentAfterParsing, StageSays, Writers, CancellerCopy, OutputRecorded
<1>4. FinalizedAfterProviders'
  BY DEF TypeOK, FinalizedAfterProviders, SentAfterParsing, StageSays, Writers
<1>5. StagedUntilDone'
  BY DEF TypeOK, StagedUntilDone, StageSays, CancellerCopy
<1>6. ZipPhases' /\ EndedIsZipped' /\ EndIsKept'
  <2>0. EndIsKept' BY DEF TypeOK, EndIsKept
  <2> SUFFICES ASSUME Clean' PROVE ZipPhases' /\ EndedIsZipped'
    BY <2>0 DEF ZipPhases, EndedIsZipped
  <2>1. Clean /\ Finalizing /\ Finalizing' /\ Completed' = Completed BY DEF TypeOK
  <2>2. fpc[p] # "copying" BY <2>1 DEF TypeOK, AtZip
  <2>3. \A f \in Providers : fpc[f] = "copying" => fpc'[f] = "copying"
    BY <2>2 DEF TypeOK
  <2>4. (Downloaded => Downloaded') /\ (UrlSet => UrlSet')
    BY <2>1, <2>3
  <2> QED BY <2>1, <2>4 DEF TypeOK, ZipPhases, EndedIsZipped
<1> QED BY <1>1, <1>2, <1>3, <1>4, <1>5, <1>6

-------------------------------------------------------------------------------
(* The web process *)

LEMMA BeginCancelPreserves == ASSUME IInv, NEW p \in Providers, BeginCancel(p) PROVE IInv'
<1> USE DEF BeginCancel, IInv
<1>1. TypeOK' BY DEF TypeOK, ChainStages, FinalizerPcs
<1>2. SentAfterParsing' /\ RunCopies'
  BY DEF TypeOK, SentAfterParsing, RunCopies, StageSays, NewRun
<1>3. StageSays' /\ Writers' /\ CancellerCopy' /\ OutputRecorded'
  BY DEF TypeOK, SentAfterParsing, StageSays, Writers, CancellerCopy, OutputRecorded
<1>4. FinalizedAfterProviders'
  BY DEF TypeOK, FinalizedAfterProviders, SentAfterParsing, StageSays, Writers
<1>5. StagedUntilDone'
  BY DEF TypeOK, StagedUntilDone, StageSays, CancellerCopy
<1>6. ZipPhases' /\ EndedIsZipped' /\ EndIsKept' BY ZipKept DEF TypeOK
<1> QED BY <1>1, <1>2, <1>3, <1>4, <1>5, <1>6

LEMMA EndCancelPreserves == ASSUME IInv, NEW p \in Providers, EndCancel(p) PROVE IInv'
<1> USE DEF EndCancel, IInv
<1>1. TypeOK' BY DEF TypeOK, ChainStages, FinalizerPcs
<1>2. SentAfterParsing' /\ RunCopies'
  BY DEF TypeOK, SentAfterParsing, RunCopies, StageSays, NewRun
<1>3. StageSays' /\ Writers' /\ CancellerCopy' /\ OutputRecorded'
  BY DEF TypeOK, SentAfterParsing, StageSays, Writers, CancellerCopy, OutputRecorded
<1>4. FinalizedAfterProviders'
  BY DEF TypeOK, FinalizedAfterProviders, SentAfterParsing, StageSays, Writers
<1>5. StagedUntilDone'
  BY DEF TypeOK, StagedUntilDone, StageSays, CancellerCopy
<1>6. ZipPhases' /\ EndedIsZipped' /\ EndIsKept' BY ZipKept DEF TypeOK
<1> QED BY <1>1, <1>2, <1>3, <1>4, <1>5, <1>6

LEMMA BeginDeletePreserves == ASSUME IInv, BeginDelete PROVE IInv'
<1> USE DEF BeginDelete, IInv
<1>1. TypeOK' BY RowTyped DEF TypeOK, ChainStages, FinalizerPcs
<1>2. SentAfterParsing' /\ RunCopies'
  BY DEF TypeOK, SentAfterParsing, RunCopies, StageSays, NewRun
<1>3. StageSays' /\ Writers' /\ CancellerCopy' /\ OutputRecorded'
  BY DEF TypeOK, SentAfterParsing, StageSays, Writers, CancellerCopy, OutputRecorded
<1>4. FinalizedAfterProviders'
  BY DEF TypeOK, FinalizedAfterProviders, SentAfterParsing, StageSays, Writers
<1>5. StagedUntilDone'
  BY DEF TypeOK, StagedUntilDone, StageSays, CancellerCopy
<1>6. ZipPhases' /\ EndedIsZipped' /\ EndIsKept' BY ZipKept DEF TypeOK
<1> QED BY <1>1, <1>2, <1>3, <1>4, <1>5, <1>6

LEMMA CommitDeletePreserves == ASSUME IInv, CommitDelete PROVE IInv'
<1> USE DEF CommitDelete, IInv
<1>1. TypeOK' BY NewRunTyped DEF TypeOK, ChainStages, FinalizerPcs
<1>2. SentAfterParsing' /\ RunCopies'
  BY DEF TypeOK, SentAfterParsing, RunCopies, StageSays, NewRun
<1>3. StageSays' /\ Writers' /\ CancellerCopy' /\ OutputRecorded'
  BY DEF TypeOK, SentAfterParsing, StageSays, Writers, CancellerCopy, OutputRecorded
<1>4. FinalizedAfterProviders'
  BY DEF TypeOK, FinalizedAfterProviders, SentAfterParsing, StageSays, Writers
<1>5. StagedUntilDone'
  BY DEF TypeOK, StagedUntilDone, StageSays, CancellerCopy
<1>6. ZipPhases' /\ EndedIsZipped' /\ EndIsKept'
  <2>1. ~Clean' OBVIOUS
  <2>2. ZipPhases' /\ EndedIsZipped' BY ONLY <2>1, NothingClaimed
  <2> QED BY <2>2 DEF EndIsKept, RunCopies
<1> QED BY <1>1, <1>2, <1>3, <1>4, <1>5, <1>6

LEMMA BeginEditPreserves == ASSUME IInv, BeginEdit PROVE IInv'
<1> USE DEF BeginEdit, IInv
<1>1. TypeOK' BY DEF TypeOK, ChainStages, FinalizerPcs
<1>2. SentAfterParsing' /\ RunCopies'
  BY DEF TypeOK, SentAfterParsing, RunCopies, StageSays, NewRun
<1>3. StageSays' /\ Writers' /\ CancellerCopy' /\ OutputRecorded'
  BY DEF TypeOK, SentAfterParsing, StageSays, Writers, CancellerCopy, OutputRecorded
<1>4. FinalizedAfterProviders'
  BY DEF TypeOK, FinalizedAfterProviders, SentAfterParsing, StageSays, Writers
<1>5. StagedUntilDone'
  BY DEF TypeOK, StagedUntilDone, StageSays, CancellerCopy
<1>6. ZipPhases' /\ EndedIsZipped' /\ EndIsKept' BY ZipKept DEF TypeOK
<1> QED BY <1>1, <1>2, <1>3, <1>4, <1>5, <1>6

LEMMA SaveEditPreserves == ASSUME IInv, SaveEdit PROVE IInv'
<1> USE DEF SaveEdit, IInv
<1>1. TypeOK' BY NewRunTyped DEF TypeOK, ChainStages, FinalizerPcs
<1>2. SentAfterParsing' /\ RunCopies'
  BY DEF TypeOK, SentAfterParsing, RunCopies, StageSays, NewRun
<1>3. StageSays' /\ Writers' /\ CancellerCopy' /\ OutputRecorded'
  BY DEF TypeOK, SentAfterParsing, StageSays, Writers, CancellerCopy, OutputRecorded
<1>4. FinalizedAfterProviders'
  BY DEF TypeOK, FinalizedAfterProviders, SentAfterParsing, StageSays, Writers
<1>5. StagedUntilDone'
  BY DEF TypeOK, StagedUntilDone, StageSays, CancellerCopy
<1>6. ZipPhases' /\ EndedIsZipped' /\ EndIsKept'
  <2>1. CASE erun = run BY <2>1, ZipKept DEF TypeOK
  <2>2. CASE erun # run
    <3>1. undone' BY <2>2
    <3>2. ~Clean' BY <3>1
    <3>3. ZipPhases' /\ EndedIsZipped' BY ONLY <3>2, NothingClaimed
    <3> QED BY <3>1, <3>3 DEF EndIsKept
  <2> QED BY <2>1, <2>2
<1> QED BY <1>1, <1>2, <1>3, <1>4, <1>5, <1>6

-------------------------------------------------------------------------------
(* The theorems *)

LEMMA InitIInv == ASSUME Init PROVE IInv
<1> USE DEF Init
<1>1. NewRun \in RunRow /\ NewRun.status = "SUBMITTED" BY DEF NewRun, RunRow, States
<1>2. TypeOK
  <2>1. TaskCount \in 0..TaskCount BY TaskCountAssumption
  <2> QED BY <1>1, <2>1 DEF TypeOK, ChainStages, FinalizerPcs
<1>3. SentAfterParsing /\ StageSays /\ Writers /\ CancellerCopy /\ OutputRecorded /\ RunCopies
  BY <1>1 DEF SentAfterParsing, StageSays, Writers, CancellerCopy, OutputRecorded, RunCopies
<1>4. FinalizedAfterProviders /\ StagedUntilDone /\ ZipPhases
  BY DEF FinalizedAfterProviders, StagedUntilDone, Records, ZipPhases
<1>5. EndedIsZipped /\ EndIsKept BY <1>1 DEF EndedIsZipped, EndIsKept
<1> QED BY <1>2, <1>3, <1>4, <1>5 DEF IInv

LEMMA StutterPreserves == ASSUME IInv, UNCHANGED vars PROVE IInv'
<1> USE DEF vars, IInv
<1>1. TypeOK' BY DEF TypeOK
<1>2. /\ SentAfterParsing' /\ RunCopies' /\ StageSays' /\ Writers' /\ CancellerCopy'
      /\ OutputRecorded'
  BY DEF SentAfterParsing, RunCopies, StageSays, Writers, CancellerCopy, OutputRecorded
<1>3. FinalizedAfterProviders' /\ StagedUntilDone'
  BY DEF FinalizedAfterProviders, StagedUntilDone
<1>4. ZipPhases' /\ EndedIsZipped' /\ EndIsKept' BY ZipKept
<1> QED BY <1>1, <1>2, <1>3, <1>4

LEMMA StepIInv == ASSUME IInv, [Next]_vars PROVE IInv'
<1>1. CASE PickUp \/ LosePickUp
  BY <1>1, PickUpRunPreserves, SaveWorkerPreserves, EndPickUpPreserves, ParseFailsPreserves,
     MakeRecordPreserves, SendChainPreserves, LosePickUpPreserves DEF PickUp
<1>2. ASSUME NEW p \in Providers, Provider(p) \/ LoseChain(p) PROVE IInv'
  BY <1>2, SkipTaskPreserves, StartTaskPreserves, MarkProviderPreserves, EndTaskPreserves,
     FinalizeProviderPreserves, WaitForProvidersPreserves, LoseChainPreserves DEF Provider
<1>3. ASSUME NEW f \in Providers, Finalizer(f) \/ LoseFinalizer(f) PROVE IInv'
  BY <1>3, PrepareZipPreserves, SkipZipPreserves, OpenZipPreserves, CopyZipPreserves,
     EndCopyPreserves, RefreshRunPreserves, SaveUrlPreserves, ZipFailsPreserves,
     ReadRunPreserves, ReadProvidersPreserves, SaveRunPreserves, RemoveStageDirPreserves,
     LoseFinalizerPreserves DEF Finalizer
<1>4. CASE User
  BY <1>4, BeginDeletePreserves, CommitDeletePreserves, BeginCancelPreserves,
     EndCancelPreserves, BeginEditPreserves, SaveEditPreserves DEF User
<1>5. CASE UNCHANGED vars BY <1>5, StutterPreserves
<1> QED BY <1>1, <1>2, <1>3, <1>4, <1>5 DEF Next

LEMMA Inductive == Spec => []IInv
BY InitIInv, StepIInv, PTL DEF Spec

\* The rows, their copies, the chains and what is in staging keep their types, and no
\* chain runs more tasks than it has.
THEOREM TypeCorrect == Spec => []TypeOK
<1>1. IInv => TypeOK BY DEF IInv
<1> QED BY <1>1, Inductive, PTL

\* wait_for_providers_task starts no finalization chain while a provider nobody has
\* interfered with is not decided, whatever is saved over the rows it looks at.
THEOREM WaitsForProviders == Spec => []FinalizedAfterProviders
<1>1. IInv => FinalizedAfterProviders BY DEF IInv
<1> QED BY <1>1, Inductive, PTL

\* However many finalization chains list, zip, remove and save in whatever order, and
\* whichever of them are lost elsewhere, the zip file of an ended run that no two chains
\* wrote at once can be downloaded and is complete.
THEOREM CompleteZip == Spec => []ZipIsComplete
<1>1. IInv => ZipIsComplete
  <2> SUFFICES ASSUME IInv, Ended, ~spoiled, ~undone, NEW q \in Providers
               PROVE  Clean
    BY DEF IInv, EndedIsZipped, ZipIsComplete, Ended
  <2> QED BY DEF Ended
<1> QED BY <1>1, Inductive, PTL

\* Whatever the refreshed and saved rows of any number of finalization chains take back,
\* one of them is still there to end the run again, or has died.
THEOREM EndIsRestored == Spec => []EndIsKept
<1>1. IInv => EndIsKept BY DEF IInv
<1> QED BY <1>1, Inductive, PTL

-------------------------------------------------------------------------------
(* Refinement *)

\* A step that changes neither the row of a provider nor what its chain has come to.
LEMMA LifecycleStutter ==
    ASSUME NEW p \in Providers, pstat'[p] = pstat[p], outcome'[p] = outcome[p],
           chain'[p] = "lost" <=> chain[p] = "lost"
    PROVE  UNCHANGED Lifecycle(p)!vars
BY DEF Lifecycle!vars

LEMMA LifecycleStep ==
    ASSUME IInv, [Next]_vars, NEW p \in Providers
    PROVE  [Lifecycle(p)!Next]_(Lifecycle(p)!vars)
<1> USE DEF IInv, TypeOK
<1>1. CASE PickUp \/ LosePickUp
  <2>1. CASE \E q \in Providers : MakeRecord(q)
    BY <2>1 DEF MakeRecord, Lifecycle!vars
  <2>2. CASE \E q \in Providers : SendChain(q)
    BY <2>2, LifecycleStutter DEF SendChain, Unsent
  <2>3. CASE PickUpRun \/ SaveWorker \/ EndPickUp \/ ParseFails \/ LosePickUp
    BY <2>3, LifecycleStutter DEF PickUpRun, SaveWorker, EndPickUp, ParseFails, LosePickUp
  <2> QED BY <1>1, <2>1, <2>2, <2>3 DEF PickUp
<1>2. ASSUME NEW q \in Providers, Provider(q) \/ LoseChain(q)
      PROVE  [Lifecycle(p)!Next]_(Lifecycle(p)!vars)
  <2>1. CASE SkipTask(q) \/ StartTask(q) \/ WaitForProviders(q)
    BY <2>1, LifecycleStutter DEF SkipTask, StartTask, Ready, Return, WaitForProviders
  <2>2. ASSUME NEW r \in {"SUCCESS", "FAILED", "CANCELED"}, EndTask(q, r)
        PROVE  [Lifecycle(p)!Next]_(Lifecycle(p)!vars)
    BY <2>2, LifecycleStutter DEF EndTask, Return
  <2>3. CASE MarkProvider(q)
    <3>1. CASE q = p
      BY <2>3, <3>1 DEF MarkProvider, StageSays, Lifecycle!Next, Lifecycle!Mark
    <3>2. CASE q # p BY <2>3, <3>2, LifecycleStutter DEF MarkProvider
    <3> QED BY <3>1, <3>2
  <2>4. CASE FinalizeProvider(q)
    <3>1. CASE q = p
      BY <2>4, <3>1 DEF FinalizeProvider, StageSays, Lifecycle!Next, Lifecycle!Close
    <3>2. CASE q # p BY <2>4, <3>2, LifecycleStutter DEF FinalizeProvider
    <3> QED BY <3>1, <3>2
  <2>5. CASE LoseChain(q)
    <3>1. CASE q = p
      BY <2>5, <3>1 DEF LoseChain, StageSays, Lifecycle!Next, Lifecycle!Lose, Lifecycle!vars
    <3>2. CASE q # p BY <2>5, <3>2, LifecycleStutter DEF LoseChain
    <3> QED BY <3>1, <3>2
  <2> QED BY <1>2, <2>1, <2>2, <2>3, <2>4, <2>5 DEF Provider
<1>3. CASE User
  <2>1. CASE BeginDelete \/ BeginEdit \/ SaveEdit \/ \E q \in Providers : BeginCancel(q)
    BY <2>1, LifecycleStutter DEF BeginDelete, BeginEdit, SaveEdit, BeginCancel
  <2>2. CASE CommitDelete
    BY <2>2, LifecycleStutter DEF CommitDelete, Records, Lifecycle!Next, Lifecycle!Cancel
  <2>3. ASSUME NEW q \in Providers, EndCancel(q)
        PROVE  [Lifecycle(p)!Next]_(Lifecycle(p)!vars)
    <3>1. CASE q = p
      <4>1. pstat'[p] = "CANCELED" \/ pstat'[p] = pstat[p]
        BY <2>3, <3>1 DEF EndCancel, CancellerCopy, FinishedStates
      <4> QED BY <2>3, <4>1, LifecycleStutter DEF EndCancel, Lifecycle!Next, Lifecycle!Cancel
    <3>2. CASE q # p BY <2>3, <3>2, LifecycleStutter DEF EndCancel
    <3> QED BY <3>1, <3>2
  <2> QED BY <1>3, <2>1, <2>2, <2>3 DEF User
<1>4. ASSUME UNCHANGED <<pstat, outcome, chain>>
      PROVE  [Lifecycle(p)!Next]_(Lifecycle(p)!vars)
  BY <1>4, LifecycleStutter
<1>5. ASSUME NEW f \in Providers, Finalizer(f) \/ LoseFinalizer(f)
      PROVE  UNCHANGED <<pstat, outcome, chain>>
  BY <1>5 DEF Finalizer, PrepareZip, SkipZip, OpenZip, CopyZip, EndCopy, RefreshRun, SaveUrl,
              ZipFails, ReadRun, ReadProviders, SaveRun, RemoveStageDir, LoseFinalizer
<1>6. CASE UNCHANGED vars BY <1>4, <1>6 DEF vars
<1> QED BY <1>1, <1>2, <1>3, <1>4, <1>5, <1>6 DEF Next

\* Whole tasks, finalization, cancellation and deletion do to a provider what
\* ProviderLifecycle allows: the chain of ExportTaskChain may stand for each of them.
THEOREM ImplementsLifecycles == Spec => LifecycleSpec
<1>1. Init => \A p \in Providers : Lifecycle(p)!Init BY DEF Init, Lifecycle!Init
<1>2. IInv /\ [Next]_vars =>
        [\A p \in Providers : [Lifecycle(p)!Next]_(Lifecycle(p)!vars)]_vars
  BY LifecycleStep
<1> QED BY <1>1, <1>2, Inductive, PTL DEF Spec, LifecycleSpec

-------------------------------------------------------------------------------
(***************************************************************************)
(* The page that follows a run.                                            *)
(***************************************************************************)

Data == Run \cup {Nothing, Cleared}

\* Only a page that draws has a dialog.
DialogIsDrawn == dialog # NoDialog => Open

StatusInv == StatusTypeOK /\ ActsOnTheRunAsked /\ DialogIsDrawn

\* The parts of the types, for the steps that change few of them.
ServerOK == server \in [Jobs -> [run : 0..MaxRuns, stage : Stages]]
GetsOK == gets \subseteq [phase : {"sent", "answered"}, job : Jobs, data : Data]
PostOK == post \in [phase : {"idle", "sent", "answered"}, what : {"none", "rerun", "delete"},
                    job : Jobs \cup {"none"}, run : 0..MaxRuns]
ShownOK == shown \in Data
ViewOK == /\ page \in Jobs \cup {"none"} /\ broken \in BOOLEAN
          /\ dialog \in [what : {"none", "rerun", "delete", "clone"},
                        job : Jobs \cup {"none"}, run : 0..MaxRuns]
ClocksOK == /\ fetched \in BOOLEAN /\ timer \in BOOLEAN /\ timeout \in BOOLEAN
            /\ intervals \subseteq Jobs /\ timeouts \subseteq Jobs
TimersOK == timer \/ timeout => page \in Jobs

LEMMA Parts ==
    StatusInv <=> /\ ServerOK /\ GetsOK /\ PostOK /\ ShownOK /\ ViewOK /\ ClocksOK /\ TimersOK
                  /\ ActsOnTheRunAsked /\ DialogIsDrawn
BY DEF StatusInv, StatusTypeOK, ServerOK, GetsOK, PostOK, ShownOK, ViewOK, ClocksOK, TimersOK,
       Data

LEMMA BoundsTyped == MaxRuns \in Nat /\ MaxRuns > 0 /\ 0 \in 0..MaxRuns /\ 1 \in 0..MaxRuns
BY BoundsAssumption

LEMMA DataTyped ==
    ASSUME NEW d \in Data PROVE d.job \in Jobs \cup {"none"} /\ d.run \in 0..MaxRuns
<1>1. CASE d \in Run BY <1>1, BoundsTyped DEF Run
<1>2. CASE d = Nothing \/ d = Cleared BY <1>2, BoundsTyped DEF Nothing, Cleared
<1> QED BY <1>1, <1>2 DEF Data

LEMMA ConstantsTyped ==
    /\ NoDialog \in [what : {"none", "rerun", "delete", "clone"},
                     job : Jobs \cup {"none"}, run : 0..MaxRuns]
    /\ IdlePost \in [phase : {"idle", "sent", "answered"}, what : {"none", "rerun", "delete"},
                     job : Jobs \cup {"none"}, run : 0..MaxRuns]
    /\ Cleared \in Data /\ Nothing \in Data
BY BoundsTyped DEF NoDialog, IdlePost, Data

LEMMA NewestTyped ==
    ASSUME ServerOK, NEW j \in Jobs PROVE Newest(j) \in Data
<1>1. server[j].run \in 0..MaxRuns /\ server[j].stage \in Stages BY DEF ServerOK
<1>2. server[j].run # 0 => server[j].run \in 1..MaxRuns BY ONLY <1>1, BoundsTyped
<1> QED BY <1>1, <1>2 DEF Newest, Data, Run

-------------------------------------------------------------------------------
(* What the steps are made of *)

LEMMA GetTyped ==
    ASSUME GetsOK, NEW j \in Jobs, GetDetails(j) PROVE GetsOK' /\ fetched' \in BOOLEAN
<1>1. Cleared \in Data BY ConstantsTyped
<1>2. Get(j) \in [phase : {"sent", "answered"}, job : Jobs, data : Data]
  BY ONLY <1>1, j \in Jobs DEF Get
<1>3. gets' = gets \cup {Get(j)} /\ fetched' = FALSE BY DEF GetDetails
<1> QED BY <1>2, <1>3 DEF GetsOK

LEMMA StartTimerTyped ==
    ASSUME ClocksOK, page \in Jobs, StartTimer
    PROVE  timer' \in BOOLEAN /\ intervals' \subseteq Jobs
BY DEF ClocksOK, StartTimer

\* A dialog stays only on a page that draws the run it is about.
LEMMA DrawKeeps ==
    ASSUME StatusInv, NEW d \in Data, Draw(d), Open, page' = page
    PROVE  /\ shown' \in Data /\ broken' \in BOOLEAN
           /\ ViewOK' /\ ActsOnTheRunAsked' /\ DialogIsDrawn'
<1> USE DEF Draw
<1>0. ViewOK /\ ActsOnTheRunAsked BY Parts
<1>1. ViewOK' BY <1>0, ConstantsTyped DEF ViewOK
<1>2. CASE SameRun(shown, d)
  <2>1. d # Nothing BY <1>2 DEF SameRun, Nothing
  <2>2. Open' BY <2>1 DEF Open
  <2>3. dialog' = dialog /\ shown'.job = shown.job /\ shown'.run = shown.run
    BY <1>2 DEF SameRun
  <2> QED BY <1>0, <1>1, <2>2, <2>3 DEF ActsOnTheRunAsked, DialogIsDrawn, NoDialog, ViewOK
<1>3. CASE ~SameRun(shown, d)
  <2>1. dialog' = NoDialog BY <1>3
  <2> QED BY <1>1, <2>1 DEF ActsOnTheRunAsked, DialogIsDrawn, NoDialog, ViewOK
<1> QED BY <1>2, <1>3

LEMMA RenderKeeps ==
    ASSUME StatusInv, NEW d \in Data, Render(d), page' = page
    PROVE  ShownOK' /\ ViewOK' /\ ActsOnTheRunAsked' /\ DialogIsDrawn'
<1>1. CASE Open BY <1>1, DrawKeeps DEF Render, ShownOK
<1>2. CASE ~Open
  <2>1. shown' = d /\ UNCHANGED <<broken, dialog>> BY <1>2 DEF Render
  <2>2. dialog = NoDialog BY <1>2, Parts DEF DialogIsDrawn
  <2>3. ViewOK' BY <2>1, Parts DEF ViewOK
  <2> QED BY <2>1, <2>2, <2>3 DEF ShownOK, ActsOnTheRunAsked, DialogIsDrawn, NoDialog
<1> QED BY <1>1, <1>2

\* Whatever closes the dialog, or leaves the view and the store alone.
LEMMA NoDialogKeeps ==
    ASSUME dialog' = NoDialog PROVE ActsOnTheRunAsked' /\ DialogIsDrawn'
BY DEF ActsOnTheRunAsked, DialogIsDrawn

LEMMA SameViewKeeps ==
    ASSUME StatusInv, UNCHANGED <<shown, view>>
    PROVE  ShownOK' /\ ViewOK' /\ ActsOnTheRunAsked' /\ DialogIsDrawn'
<1>1. shown' = shown /\ page' = page /\ broken' = broken /\ dialog' = dialog BY DEF view
<1> QED BY <1>1, Parts DEF ShownOK, ViewOK, ActsOnTheRunAsked, DialogIsDrawn, Open

LEMMA SameClocksKeep ==
    ASSUME StatusInv, UNCHANGED <<clocks, page>>, fetched' \in BOOLEAN
    PROVE  ClocksOK' /\ TimersOK'
BY Parts DEF clocks, ClocksOK, TimersOK

-------------------------------------------------------------------------------
(* The server *)

LEMMA ServeGetPreserves ==
    ASSUME StatusInv, NEW g \in gets, ServeGet(g) PROVE StatusInv'
<1> USE DEF ServeGet, store
<1>1. g \in [phase : {"sent", "answered"}, job : Jobs, data : Data] BY Parts DEF GetsOK
<1>2. Newest(g.job) \in Data BY <1>1, NewestTyped, Parts
<1>3. GetsOK'
  <2>1. [g EXCEPT !.phase = "answered", !.data = Newest(g.job)]
            \in [phase : {"sent", "answered"}, job : Jobs, data : Data]
    BY <1>1, <1>2
  <2> QED BY <2>1, Parts DEF GetsOK
<1>4. ServerOK' /\ PostOK' BY Parts DEF ServerOK, PostOK
<1>5. ShownOK' /\ ViewOK' /\ ActsOnTheRunAsked' /\ DialogIsDrawn' BY SameViewKeeps
<1>6. ClocksOK' /\ TimersOK'
  <2>1. fetched \in BOOLEAN BY Parts DEF ClocksOK
  <2> QED BY <2>1, SameClocksKeep DEF view
<1> QED BY <1>3, <1>4, <1>5, <1>6, Parts, PTL

\* Steps of the server change its runs and the request it answers.
LEMMA ServerStepPreserves ==
    ASSUME StatusInv, ServerOK', PostOK', UNCHANGED <<gets, store, clocks, view>>
    PROVE  StatusInv'
<1> USE DEF store
<1>1. GetsOK' BY Parts DEF GetsOK
<1>2. ShownOK' /\ ViewOK' /\ ActsOnTheRunAsked' /\ DialogIsDrawn' BY SameViewKeeps
<1>3. ClocksOK' /\ TimersOK'
  <2>1. fetched \in BOOLEAN BY Parts DEF ClocksOK
  <2> QED BY <2>1, SameClocksKeep DEF view
<1> QED BY <1>1, <1>2, <1>3, Parts, PTL

LEMMA ServerStepsPreserve ==
    ASSUME StatusInv,
           (\E j \in Jobs : Progress(j)) \/ ServeRerun \/ ServeDelete \/ CancelProvider
    PROVE  StatusInv'
<1>0. ServerOK /\ PostOK BY Parts
<1>1. ASSUME NEW what \in {"rerun", "delete"}, Answer(what, "answered") PROVE PostOK'
  BY <1>0, <1>1 DEF Answer, PostOK
<1>2. CASE \E j \in Jobs : Progress(j)
  <2>1. ServerOK' BY <1>0, <1>2 DEF Progress, ServerOK, Stages
  <2>2. PostOK' BY <1>0, <1>2 DEF Progress, PostOK
  <2> QED BY <1>2, <2>1, <2>2, ServerStepPreserves DEF Progress
<1>3. CASE ServeRerun
  <2>1. server[post.job].run \in 1..(MaxRuns - 1) BY <1>3 DEF ServeRerun
  <2>2. server[post.job].run + 1 \in 0..MaxRuns BY ONLY <2>1, BoundsTyped
  <2>3. [run |-> server[post.job].run + 1, stage |-> "RUNNING"]
            \in [run : 0..MaxRuns, stage : Stages]
    BY <2>2 DEF Stages
  <2>4. ServerOK' BY <1>0, <1>3, <2>3 DEF ServeRerun, ServerOK
  <2> QED BY <1>1, <1>3, <2>4, ServerStepPreserves DEF ServeRerun
<1>4. CASE ServeDelete
  <2>1. [run |-> 0, stage |-> "RUNNING"] \in [run : 0..MaxRuns, stage : Stages]
    BY BoundsTyped DEF Stages
  <2>2. ServerOK' BY <1>0, <1>4, <2>1 DEF ServeDelete, ServerOK
  <2> QED BY <1>1, <1>4, <2>2, ServerStepPreserves DEF ServeDelete
<1>5. CASE CancelProvider
  <2>1. ServerOK' BY <1>0, <1>5 DEF CancelProvider, ServerOK, Stages
  <2>2. PostOK' BY <1>0, <1>5 DEF CancelProvider, PostOK
  <2> QED BY <1>5, <2>1, <2>2, ServerStepPreserves DEF CancelProvider
<1> QED BY <1>2, <1>3, <1>4, <1>5

-------------------------------------------------------------------------------
(* Timers and answers *)

LEMMA ClockPreserves ==
    ASSUME StatusInv, NEW j \in Jobs, Clock(j) PROVE StatusInv'
<1> USE DEF Clock, IntervalFires, TimeoutFires
<1>0. ClocksOK /\ TimersOK BY Parts
<1>1. ServerOK' /\ PostOK' BY Parts DEF ServerOK, PostOK
<1>2. GetsOK' /\ fetched' \in BOOLEAN BY GetTyped, Parts
<1>3. ShownOK' /\ ViewOK' /\ ActsOnTheRunAsked' /\ DialogIsDrawn' BY SameViewKeeps
<1>4. ClocksOK' /\ TimersOK'
  <2>1. timer' = timer /\ page' = page /\ intervals' = intervals BY DEF clocks, view
  <2>2. timeout' \in {timeout, FALSE} /\ timeouts' \subseteq timeouts BY DEF clocks
  <2>3. ClocksOK' BY <1>0, <1>2, <2>1, <2>2 DEF ClocksOK
  <2>4. CASE timeout' = timeout BY ONLY <1>0, <2>1, <2>3, <2>4 DEF TimersOK
  <2>5. CASE timeout' = FALSE BY ONLY <1>0, <2>1, <2>3, <2>5 DEF TimersOK
  <2> QED BY <2>2, <2>4, <2>5
<1> QED BY <1>1, <1>2, <1>3, <1>4, Parts, PTL

LEMMA AnswersPreserve ==
    ASSUME StatusInv, NEW g \in gets, Received(g) \/ ReceivedError(g) \/ Unanswered(g)
    PROVE  StatusInv'
<1> USE DEF Received, ReceivedError, Unanswered
<1>0. g.data \in Data /\ Cleared \in Data
  <2>1. g \in [phase : {"sent", "answered"}, job : Jobs, data : Data] BY Parts DEF GetsOK
  <2> QED BY <2>1, ConstantsTyped
<1>1. ServerOK' /\ PostOK' BY Parts DEF ServerOK, PostOK
<1>2. GetsOK' BY Parts DEF GetsOK
<1>3. ShownOK' /\ ViewOK' /\ ActsOnTheRunAsked' /\ DialogIsDrawn'
  <2>1. CASE Received(g) BY <1>0, <2>1, RenderKeeps
  <2>2. CASE ReceivedError(g) BY <1>0, <2>2, RenderKeeps
  <2>3. CASE Unanswered(g) BY <2>3, SameViewKeeps DEF store
  <2> QED BY <2>1, <2>2, <2>3
<1>4. fetched' \in BOOLEAN BY Parts DEF ClocksOK, store
<1>5. ClocksOK' /\ TimersOK'
  <2>1. CASE UNCHANGED clocks
    <3>1. page' = page BY DEF view
    <3> QED BY <1>4, <2>1, <3>1, SameClocksKeep
  <2>2. CASE Received(g) /\ Open /\ StopTimer /\ StartTimeout
    <3>1. page \in Jobs /\ page' = page BY <2>2 DEF Open
    <3>2. timer' \in BOOLEAN /\ intervals' \subseteq Jobs
      BY <2>2, Parts DEF StopTimer, ClocksOK
    <3>3. timeout' \in BOOLEAN /\ timeouts' \subseteq Jobs
      BY <2>2, <3>1, Parts DEF StartTimeout, ClocksOK
    <3> QED BY <1>4, <3>1, <3>2, <3>3 DEF ClocksOK, TimersOK
  <2> QED BY <2>1, <2>2 DEF DetailsHandled
<1> QED BY <1>1, <1>2, <1>3, <1>5, Parts, PTL

-------------------------------------------------------------------------------
(* The page *)

LEMMA VisitPreserves ==
    ASSUME StatusInv, NEW j \in Jobs, Visit(j) PROVE StatusInv'
<1> USE DEF Visit
<1>0. ClocksOK /\ TimersOK /\ page = "none" BY Parts
<1>1. ServerOK' /\ PostOK' BY Parts DEF ServerOK, PostOK
<1>2. GetsOK' /\ fetched' \in BOOLEAN BY GetTyped, Parts
<1>3. ShownOK' BY Parts DEF ShownOK
<1>4. ViewOK' BY ConstantsTyped DEF ViewOK
<1>5. ActsOnTheRunAsked' /\ DialogIsDrawn' BY NoDialogKeeps
<1>6. timer = FALSE BY <1>0, JobsAssumption DEF TimersOK, ClocksOK
<1>7. timer' = TRUE /\ intervals' = intervals BY <1>6 DEF StartTimer
<1>8. ClocksOK' BY <1>0, <1>2, <1>7 DEF ClocksOK
<1>9. TimersOK' BY DEF TimersOK
<1> QED BY <1>1, <1>2, <1>3, <1>4, <1>5, <1>8, <1>9, Parts, PTL

LEMMA UnmountPreserves ==
    ASSUME StatusInv, Unmount, ServerOK', GetsOK', PostOK' PROVE StatusInv'
<1> USE DEF Unmount, StopTimer
<1>1. ShownOK' BY ConstantsTyped DEF ShownOK
<1>2. ViewOK' BY ConstantsTyped DEF ViewOK
<1>3. ActsOnTheRunAsked' /\ DialogIsDrawn' BY NoDialogKeeps
<1>4. ClocksOK' /\ TimersOK' BY Parts DEF ClocksOK, TimersOK
<1> QED BY <1>1, <1>2, <1>3, <1>4, Parts, PTL

LEMMA LeavePreserves ==
    ASSUME StatusInv, Leave \/ Clone PROVE StatusInv'
<1>1. Unmount /\ UNCHANGED <<server, gets, post>> BY DEF Leave, Clone
<1>2. ServerOK' /\ GetsOK' /\ PostOK' BY <1>1, Parts DEF ServerOK, GetsOK, PostOK
<1> QED BY <1>1, <1>2, UnmountPreserves

LEMMA ReloadPreserves ==
    ASSUME StatusInv, Reload PROVE StatusInv'
<1> USE DEF Reload
<1>1. ServerOK' /\ GetsOK' BY Parts DEF ServerOK, GetsOK
<1>2. PostOK' /\ ShownOK' BY ConstantsTyped DEF PostOK, ShownOK
<1>3. ViewOK' BY ConstantsTyped DEF ViewOK
<1>4. ActsOnTheRunAsked' /\ DialogIsDrawn' BY NoDialogKeeps
<1>5. ClocksOK' /\ TimersOK' BY DEF ClocksOK, TimersOK
<1> QED BY <1>1, <1>2, <1>3, <1>4, <1>5, Parts, PTL

LEMMA DialogsPreserve ==
    ASSUME StatusInv,
           (\E w \in {"rerun", "delete", "clone"} : OpenDialog(w)) \/ CloseDialog \/ Confirm
    PROVE  StatusInv'
<1>0. /\ UNCHANGED <<server, gets, store, clocks, page, broken>>
      /\ post' = post \/ Confirm
  BY DEF OpenDialog, CloseDialog, Confirm
<1> USE <1>0 DEF store
<1>1. ServerOK' /\ GetsOK' /\ ShownOK' BY Parts DEF ServerOK, GetsOK, ShownOK
<1>2. shown.job \in Jobs \cup {"none"} /\ shown.run \in 0..MaxRuns
  BY DataTyped, Parts DEF ShownOK
<1>3. PostOK'
  <2>1. CASE Confirm BY <1>2, <2>1 DEF Confirm, Request, PostOK
  <2>2. CASE post' = post BY <2>2, Parts DEF PostOK
  <2> QED BY <2>1, <2>2
<1>4. ViewOK' /\ ActsOnTheRunAsked' /\ DialogIsDrawn'
  <2>0. page \in Jobs \cup {"none"} /\ broken \in BOOLEAN BY Parts DEF ViewOK
  <2>1. CASE \E w \in {"rerun", "delete", "clone"} : OpenDialog(w)
    <3>1. PICK w \in {"rerun", "delete", "clone"} : OpenDialog(w) BY <2>1
    <3>2. dialog' = [what |-> w, job |-> shown.job, run |-> shown.run] /\ Open
      BY <3>1 DEF OpenDialog, Displayed
    <3>3. ViewOK' BY <1>2, <2>0, <3>2 DEF ViewOK
    <3> QED BY <3>2, <3>3 DEF ActsOnTheRunAsked, DialogIsDrawn, Open
  <2>2. CASE CloseDialog \/ Confirm
    <3>1. dialog' = NoDialog BY <2>2 DEF CloseDialog, Confirm
    <3> QED BY <2>0, <3>1, NoDialogKeeps, ConstantsTyped DEF ViewOK
  <2> QED BY <2>1, <2>2
<1>5. ClocksOK' /\ TimersOK'
  <2>1. fetched \in BOOLEAN BY Parts DEF ClocksOK
  <2> QED BY <2>1, SameClocksKeep
<1> QED BY <1>1, <1>3, <1>4, <1>5, Parts, PTL

LEMMA PostAnswersPreserve ==
    ASSUME StatusInv, RerunStarted \/ Deleted \/ Failed PROVE StatusInv'
<1>0. ServerOK' /\ PostOK'
  <2>1. server' = server /\ post' = IdlePost BY DEF RerunStarted, Deleted, Failed, Done
  <2> QED BY <2>1, ConstantsTyped, Parts DEF ServerOK, PostOK
<1>1. CASE RerunStarted
  <2> USE <1>1 DEF RerunStarted
  <2>1. ShownOK' /\ ViewOK' /\ ActsOnTheRunAsked' /\ DialogIsDrawn' BY SameViewKeeps
  <2>2. page' = page /\ timeout' = timeout /\ timeouts' = timeouts BY DEF view
  <2>3. CASE Open
    <3>1. page \in Jobs BY <2>3 DEF Open
    <3>2. GetsOK' /\ fetched' \in BOOLEAN BY <2>3, <3>1, GetTyped, Parts
    <3>3. timer' \in BOOLEAN /\ intervals' \subseteq Jobs BY <2>3, <3>1, StartTimerTyped, Parts
    <3>4. ClocksOK' /\ TimersOK' BY <2>2, <3>1, <3>2, <3>3, Parts DEF ClocksOK, TimersOK
    <3> QED BY <1>0, <2>1, <3>2, <3>4, Parts, PTL
  <2>4. CASE ~Open
    <3>1. GetsOK' /\ ClocksOK' /\ TimersOK' BY <2>2, <2>4, Parts DEF GetsOK, ClocksOK, TimersOK
    <3> QED BY <1>0, <2>1, <3>1, Parts, PTL
  <2> QED BY <2>3, <2>4
<1>2. CASE Deleted
  <2>1. GetsOK' BY <1>2, Parts DEF Deleted, GetsOK
  <2>2. CASE Open BY <1>0, <1>2, <2>1, <2>2, UnmountPreserves DEF Deleted
  <2>3. CASE ~Open
    <3>1. UNCHANGED <<store, clocks, view>> BY <1>2, <2>3 DEF Deleted
    <3>2. ShownOK' /\ ViewOK' /\ ActsOnTheRunAsked' /\ DialogIsDrawn'
      BY <3>1, SameViewKeeps DEF store
    <3>3. fetched' \in BOOLEAN /\ page' = page BY <3>1, Parts DEF store, ClocksOK, view
    <3>4. ClocksOK' /\ TimersOK' BY <3>1, <3>3, SameClocksKeep
    <3> QED BY <1>0, <2>1, <3>2, <3>4, Parts, PTL
  <2> QED BY <2>2, <2>3
<1>3. CASE Failed
  BY <1>0, <1>3, ServerStepPreserves DEF Failed
<1> QED BY <1>1, <1>2, <1>3

LEMMA UpdatedPreserves ==
    ASSUME StatusInv, Updated PROVE StatusInv'
<1> USE DEF Updated
<1>1. ServerOK' /\ PostOK' BY Parts DEF ServerOK, PostOK
<1>2. GetsOK' /\ fetched' \in BOOLEAN BY GetTyped, Parts DEF Open
<1>3. ShownOK' /\ ViewOK' /\ ActsOnTheRunAsked' /\ DialogIsDrawn' BY SameViewKeeps
<1>4. ClocksOK' /\ TimersOK' BY <1>2, SameClocksKeep DEF view
<1> QED BY <1>1, <1>2, <1>3, <1>4, Parts, PTL

-------------------------------------------------------------------------------
(* The theorems *)

LEMMA StatusStart == ASSUME StatusInit PROVE StatusInv
<1> USE DEF StatusInit
<1>1. ServerOK BY BoundsTyped DEF ServerOK, Stages
<1>2. GetsOK /\ PostOK /\ ShownOK BY ConstantsTyped DEF GetsOK, PostOK, ShownOK
<1>3. ViewOK BY ConstantsTyped DEF ViewOK
<1>4. ClocksOK /\ TimersOK BY DEF ClocksOK, TimersOK
<1>5. ActsOnTheRunAsked /\ DialogIsDrawn BY DEF ActsOnTheRunAsked, DialogIsDrawn
<1> QED BY <1>1, <1>2, <1>3, <1>4, <1>5, Parts

LEMMA StatusStutters == ASSUME StatusInv, UNCHANGED statusVars PROVE StatusInv'
<1>1. UNCHANGED <<server, gets, post, store, clocks, view>> BY DEF statusVars
<1>2. ServerOK' /\ PostOK' BY <1>1, Parts DEF ServerOK, PostOK
<1> QED BY <1>1, <1>2, ServerStepPreserves

LEMMA StatusSteps == ASSUME StatusInv, [StatusNext]_statusVars PROVE StatusInv'
<1>1. CASE \E j \in Jobs : Progress(j) \/ Clock(j)
  BY <1>1, ServerStepsPreserve, ClockPreserves
<1>2. CASE Serve BY <1>2, ServeGetPreserves, ServerStepsPreserve DEF Serve
<1>3. CASE Answers BY <1>3, PostAnswersPreserve DEF Answers
<1>4. CASE Acts
  BY <1>4, VisitPreserves, LeavePreserves, ReloadPreserves, DialogsPreserve,
    ServerStepsPreserve DEF Acts
<1>5. CASE \E g \in gets : Received(g) \/ ReceivedError(g) \/ Unanswered(g)
  BY <1>5, AnswersPreserve
<1>6. CASE Updated BY <1>6, UpdatedPreserves
<1>7. CASE UNCHANGED statusVars BY <1>7, StatusStutters
<1> QED BY <1>1, <1>2, <1>3, <1>4, <1>5, <1>6, <1>7 DEF StatusNext

LEMMA StatusInductive == StatusSpec => []StatusInv
BY StatusStart, StatusSteps, PTL DEF StatusSpec

\* Every state has the types the handlers rely on, and no timer of its own is left to
\* a page that has gone.
THEOREM StatusTypeCorrect == StatusSpec => []StatusTypeOK
<1>1. StatusInv => StatusTypeOK BY DEF StatusInv
<1> QED BY <1>1, StatusInductive, PTL

\* What the user confirms is done to the run the dialog was opened for, whatever polls,
\* strays and answers for other jobs put on the page meanwhile.
THEOREM RightRun == StatusSpec => []ActsOnTheRunAsked
<1>1. StatusInv => ActsOnTheRunAsked BY DEF StatusInv
<1> QED BY <1>1, StatusInductive, PTL
===============================================================================
