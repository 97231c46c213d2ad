------------------------------ MODULE MCTaskLocks ------------------------------
(***************************************************************************)
(* TaskLocks for TLC: a provider whose second task is in the default queue *)
(* and one whose third task has a lock key of its own.                     *)
(***************************************************************************)
EXTENDS TaskLocks

CONSTANTS p1, p2, w1, w2, c1

MCDefaultTasks == {<<p1, 2>>}
MCUnkeyedTasks == {<<p2, 3>>}
===============================================================================
