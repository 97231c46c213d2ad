------------------------------- MODULE TaskLocks -------------------------------
(***************************************************************************)
(* How LockingTask keeps the tasks of a run apart, and how celery passes   *)
(* results down a chain meanwhile.  A provider's chain is                  *)
(*                                                                         *)
(*    task 1 -> ... -> task NTasks -> finalize provider -> wait            *)
(*                                                                         *)
(* Most tasks share a lock key of their provider, the wait tasks one of    *)
(* the run; the link that finalizes the provider takes no lock.  Celery    *)
(* 4.0 sends the next link before it calls after_return, where the lock is *)
(* deleted, so a free process may find the lock taken.  The task then      *)
(* queues itself again WITHOUT the rest of its chain, and its return value *)
(* None goes down the chain as its result.                                 *)
(***************************************************************************)
EXTENDS Naturals

CONSTANTS Providers,
          NTasks,       \* the export tasks of each chain
          DefaultTasks, \* <<provider, task>> whose signature names no queue (OSM's)
          UnkeyedTasks, \* those without a locking_task_key (most format tasks)
          HostProcs,    \* the processes that consume the queue of the host
          CeleryProcs   \* the processes that consume the default queue

ASSUME NTasksAssumption == NTasks \in Nat \ {0}
ASSUME TaskSetsAssumption == DefaultTasks \cup UnkeyedTasks \subseteq Providers \X (1..NTasks)
ASSUME NoProviderAssumption == "none" \notin Providers

Procs == HostProcs \cup CeleryProcs

FinalizeLink == NTasks + 1
WaitLink == NTasks + 2

Task == 1..NTasks
Link == 1..WaitLink

(***************************************************************************)
(* A message: the link, whether the rest of the chain travels with it, and *)
(* whether the result it is given is one (otherwise it is None).           *)
(***************************************************************************)
Message == [provider : Providers, link : Link, linked : BOOLEAN, result : BOOLEAN]

Queues == {"host", "celery"}

VARIABLES
    queue,   \* the messages waiting in each queue
    pc,      \* where each process is
    job,     \* the message it works on
    lock,    \* the lock keys present in the cache
    status,  \* each provider: "RUNNING" or "FINISHED"
    ran,     \* how often the body of each link of each chain was run
    fired    \* the finalization chains that were sent

vars == <<queue, pc, job, lock, status, ran, fired>>

\* All but finalize_export_provider_task are LockingTasks.
Locks(m) == m.link # FinalizeLink

\* The key of a task without a locking_task_key is its own.
Key(m) == IF m.link = WaitLink THEN <<"run">>
          ELSE IF <<m.provider, m.link>> \in UnkeyedTasks THEN <<"task", m.provider, m.link>>
          ELSE <<"provider", m.provider>>

Keys == {Key(m) : m \in {n \in Message : Locks(n)}}

First(p) == [provider |-> p, link |-> 1, linked |-> TRUE, result |-> FALSE]

\* No message: "none" is not a provider.
NoJob == [First("none") EXCEPT !.linked = FALSE]

Init ==
    /\ queue = [q \in Queues |-> IF q = "host" THEN {First(p) : p \in Providers} ELSE {}]
    /\ pc = [w \in Procs |-> "idle"]
    /\ job = [w \in Procs |-> NoJob]
    /\ lock = {}
    /\ status = [p \in Providers |-> "RUNNING"]
    /\ ran = [p \in Providers |-> [i \in Link |-> 0]]
    /\ fired = 0

-------------------------------------------------------------------------------
Serves(w, q) == \/ q = "host" /\ w \in HostProcs
                \/ q = "celery" /\ w \in CeleryProcs

\* A process takes a message.  An export task marks its provider RUNNING
\* (update_task_state) before it asks for the lock; the link that finalizes asks for none.
Receive(w, q, m) ==
    /\ pc[w] = "idle" /\ Serves(w, q) /\ m \in queue[q]
    /\ queue' = [queue EXCEPT ![q] = queue[q] \ {m}]
    /\ pc' = [pc EXCEPT ![w] = IF Locks(m) THEN "locking" ELSE "running"]
    /\ job' = [job EXCEPT ![w] = m]
    /\ status' = IF m.link \in Task THEN [status EXCEPT ![m.provider] = "RUNNING"]
                 ELSE status
    /\ UNCHANGED <<lock, ran, fired>>

AcquireLock(w) ==
    /\ pc[w] = "locking" /\ Key(job[w]) \notin lock
    /\ lock' = lock \cup {Key(job[w])}
    /\ pc' = [pc EXCEPT ![w] = "running"]
    /\ UNCHANGED <<queue, job, status, ran, fired>>

\* The links of a chain are sent to the queue of the host unless their signature
\* names no queue, as is the case for the one that finalizes the provider.
Route(p, i) == IF <<p, i>> \in DefaultTasks \/ i = FinalizeLink THEN "celery" ELSE "host"

\* The queues when the process w passes the result r on.
Sent(w, r) ==
    LET m == job[w] IN
    IF ~m.linked \/ m.link = WaitLink THEN queue
    ELSE [queue EXCEPT ![Route(m.provider, m.link + 1)] = @ \cup
            {[m EXCEPT !.link = m.link + 1, !.result = r]}]

\* Mutant: the task is queued again with its chain.
RequeueChain(w) ==
    /\ pc[w] = "locking" /\ Key(job[w]) \in lock
    /\ queue' = [Sent(w, FALSE) EXCEPT !["celery"] = @ \cup {job[w]}]
    /\ pc' = [pc EXCEPT ![w] = "releasing"]
    /\ UNCHANGED <<job, lock, status, ran, fired>>

\* Mutant: a task that does not get the lock is skipped.
SkipLocked(w) ==
    /\ pc[w] = "locking" /\ Key(job[w]) \in lock
    /\ queue' = Sent(w, FALSE)
    /\ pc' = [pc EXCEPT ![w] = "releasing"]
    /\ UNCHANGED <<job, lock, status, ran, fired>>

\* Mutant: a task that does not get the lock hands on the result it was given.
RequeueWithResult(w) ==
    /\ pc[w] = "locking" /\ Key(job[w]) \in lock
    /\ queue' = [Sent(w, job[w].result) EXCEPT
                    !["celery"] = @ \cup {[job[w] EXCEPT !.linked = FALSE]}]
    /\ pc' = [pc EXCEPT ![w] = "releasing"]
    /\ UNCHANGED <<job, lock, status, ran, fired>>

\* The lock is taken: the task is queued again, on its own and with the same
\* arguments, in the default queue, and its chain goes on with None.
Requeue(w) ==
    /\ pc[w] = "locking" /\ Key(job[w]) \in lock
    /\ queue' = [Sent(w, FALSE) EXCEPT !["celery"] = @ \cup {[job[w] EXCEPT !.linked = FALSE]}]
    /\ pc' = [pc EXCEPT ![w] = "releasing"]
    /\ UNCHANGED <<job, lock, status, ran, fired>>

\* The keys live five seconds.
Expire(k) ==
    /\ k \in lock
    /\ lock' = lock \ {k}
    /\ UNCHANGED <<queue, pc, job, status, ran, fired>>

Ran(w) == ran' = [ran EXCEPT ![job[w].provider][job[w].link] = @ + 1]

\* Whether it succeeds or fails, an export task returns a result with a status.
RunTask(w) ==
    /\ pc[w] = "running" /\ job[w].link \in Task
    /\ Ran(w)
    /\ queue' = Sent(w, TRUE)
    /\ pc' = [pc EXCEPT ![w] = "releasing"]
    /\ UNCHANGED <<job, lock, status, fired>>

FinalizeProvider(w) ==
    /\ pc[w] = "running" /\ job[w].link = FinalizeLink /\ job[w].result
    /\ Ran(w)
    /\ status' = [status EXCEPT ![job[w].provider] = "FINISHED"]
    /\ queue' = Sent(w, TRUE)
    /\ pc' = [pc EXCEPT ![w] = "releasing"]
    /\ UNCHANGED <<job, lock, fired>>

\* Mutant: a missing status is looked up with a default.
FinalizeWithNone(w) ==
    /\ pc[w] = "running" /\ job[w].link = FinalizeLink /\ ~job[w].result
    /\ Ran(w)
    /\ status' = [status EXCEPT ![job[w].provider] = "NONE"]
    /\ queue' = Sent(w, TRUE)
    /\ pc' = [pc EXCEPT ![w] = "releasing"]
    /\ UNCHANGED <<job, lock, fired>>

\* None has no status, TaskStates[None] raises and celery drops the rest.
FinalizeRaises(w) ==
    /\ pc[w] = "running" /\ job[w].link = FinalizeLink /\ ~job[w].result
    /\ Ran(w)
    /\ pc' = [pc EXCEPT ![w] = "releasing"]
    /\ UNCHANGED <<queue, job, lock, status, fired>>

WaitForProviders(w) ==
    /\ pc[w] = "running" /\ job[w].link = WaitLink
    /\ Ran(w)
    /\ fired' = IF \A p \in Providers : status[p] = "FINISHED" THEN fired + 1 ELSE fired
    /\ pc' = [pc EXCEPT ![w] = "releasing"]
    /\ UNCHANGED <<queue, job, lock, status>>

\* after_return deletes the key, whoever set it.
AfterReturn(w) ==
    /\ pc[w] = "releasing"
    /\ lock' = IF Locks(job[w]) THEN lock \ {Key(job[w])} ELSE lock
    /\ pc' = [pc EXCEPT ![w] = "idle"]
    /\ job' = [job EXCEPT ![w] = NoJob]
    /\ UNCHANGED <<queue, status, ran, fired>>

-------------------------------------------------------------------------------
Work(w) == \/ \E q \in Queues : \E m \in queue[q] : Receive(w, q, m)
           \/ AcquireLock(w) \/ Requeue(w)
           \/ RunTask(w) \/ FinalizeProvider(w) \/ FinalizeRaises(w)
           \/ WaitForProviders(w) \/ AfterReturn(w)

Next == \/ \E w \in Procs : Work(w)
        \/ \E k \in lock : Expire(k)

\* The processes keep consuming their queues and the work of a task ends.
Fairness == \A w \in Procs : WF_vars(Work(w))

Spec == Init /\ [][Next]_vars /\ Fairness
-------------------------------------------------------------------------------
(* Properties *)

TypeOK ==
    /\ queue \in [Queues -> SUBSET Message]
    /\ pc \in [Procs -> {"idle", "locking", "running", "releasing"}]
    /\ job \in [Procs -> Message \cup {NoJob}]
    /\ \A w \in Procs : pc[w] # "idle" => job[w] \in Message
    /\ \A w \in Procs : pc[w] = "locking" => Locks(job[w])
    /\ lock \subseteq Keys
    /\ status \in [Providers -> {"RUNNING", "FINISHED"}]
    /\ ran \in [Providers -> [Link -> Nat]]
    /\ fired \in Nat

\* However often a task is queued again, and whoever deletes whose lock, no
\* body is run twice (108-140).
RunsOnce == \A p \in Providers : \A i \in Link : ran[p][i] <= 1

\* Whichever processes consume the queues and whoever overtakes whom, a provider is
\* FINISHED only once the body of its last task has run, and finalization starts only
\* when that holds of every provider: the result of a task that was locked out is None,
\* with which no provider is finalized (138-140, 1050-1055).
LastTaskBeforeEnd ==
    /\ \A p \in Providers : status[p] = "FINISHED" => ran[p][NTasks] = 1
    /\ fired > 0 => \A p \in Providers : ran[p][NTasks] = 1

\* No task is queued again for ever: every task of every chain is run.
TasksRun == \A p \in Providers : <>[](\A i \in Task : ran[p][i] = 1)

===============================================================================
