------------------------------ MODULE TaskStates ------------------------------
(***************************************************************************)
(* The status values of runs, provider tasks and export tasks, as          *)
(* tasks/export_tasks.py defines them in class TaskStates.  Every other    *)
(* module of this project takes its statuses from here.                    *)
(***************************************************************************)

States == {"COMPLETED", "INCOMPLETE", "SUBMITTED", "PENDING", "RUNNING",
           "CANCELED", "SUCCESS", "FAILED"}

FinishedStates == {"COMPLETED", "INCOMPLETE", "CANCELED", "SUCCESS", "FAILED"}

IncompleteStates == {"FAILED", "INCOMPLETE", "CANCELED"}
===============================================================================
