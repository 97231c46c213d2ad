--------------------------- MODULE ProviderLifecycle ---------------------------
(***************************************************************************)
(* What a run may rely on about one of its providers (one                  *)
(* DataProviderTaskRecord and the celery chain that works for it), whatever *)
(* the tasks of the chain, the users who cancel and their stale reads do:  *)
(*                                                                         *)
(*   - the chain is closed at most once, by finalize_export_provider_task, *)
(*     and only that step writes COMPLETED or INCOMPLETE;                  *)
(*   - RUNNING is written only while the chain is open; a canceller may    *)
(*     write CANCELED at any time, so once the chain is closed the status  *)
(*     is a finished one for ever;                                         *)
(*   - a chain whose worker process is lost is never closed.               *)
(*                                                                         *)
(* ExportTaskChain (database accesses one by one) and RunPipeline (whole   *)
(* tasks) are both checked to implement it.                                *)
(***************************************************************************)
VARIABLES stage,    \* "open", "closed" or "lost"
          status    \* DataProviderTaskRecord.status

vars == <<stage, status>>

Init == stage = "open" /\ status = "PENDING"

\* A task of the chain starts.
Mark == stage = "open" /\ status' = "RUNNING" /\ UNCHANGED stage

\* The last link of the chain.
Close == /\ stage = "open"
         /\ stage' = "closed"
         /\ status' \in {"COMPLETED", "INCOMPLETE"}

\* The worker process dies with the rest of the chain.
Lose == stage = "open" /\ stage' = "lost" /\ UNCHANGED status

\* A canceller's save, at whatever time it comes.
Cancel == status' = "CANCELED" /\ UNCHANGED stage

Next == Mark \/ Close \/ Lose \/ Cancel

Spec == Init /\ [][Next]_vars
===============================================================================
