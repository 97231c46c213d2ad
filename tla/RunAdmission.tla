------------------------------ MODULE RunAdmission ------------------------------
(***************************************************************************)
(* create_run: before a new ExportRun of a job is inserted, the earliest   *)
(* runs are soft-deleted until there is room under EXPORT_MAX_RUNS.  Every *)
(* request is a transaction of its own at READ COMMITTED, the isolation    *)
(* level of the database: it sees what others have committed and what it   *)
(* has written, and an UPDATE waits for the transaction that wrote the row *)
(* before.  Of transactions that wait for each other the database aborts   *)
(* one.                                                                    *)
(***************************************************************************)
EXTENDS Naturals, FiniteSets

CONSTANTS Requests,   \* the requests to run the job
          MaxRuns,    \* settings.EXPORT_MAX_RUNS
          OldRuns,    \* bound: the runs the job has already; more than MaxRuns
                      \* after requests that raced, or a lower setting
          MayFail     \* bound: the requests that may be refused, or fail for
                      \* another reason than a deadlock

ASSUME RequestsAssumption == IsFiniteSet(Requests)
ASSUME MaxRunsAssumption == MaxRuns \in Nat \ {0}
ASSUME OldRunsAssumption == OldRuns \in Nat
ASSUME MayFailAssumption == MayFail \subseteq Requests

VARIABLES
    live,     \* the runs committed and not deleted, numbered by started_at
    next,     \* the number of the next run
    pc,       \* where each request is
    count,    \* run_count
    victim,   \* the run it is about to soft-delete
    deleted,  \* the runs it has deleted and not committed yet
    mine,     \* the run it has created
    raced     \* the requests that counted while another was under way

vars == <<live, next, pc, count, victim, deleted, mine, raced>>

Init ==
    /\ live = 1..OldRuns
    /\ next = OldRuns + 1
    /\ pc = [q \in Requests |-> "waiting"]
    /\ count = [q \in Requests |-> 0]
    /\ victim = [q \in Requests |-> 0]
    /\ deleted = [q \in Requests |-> {}]
    /\ mine = [q \in Requests |-> 0]
    /\ raced = {}

UnderWay == {q \in Requests : pc[q] \in {"evict", "save", "commit"}}

\* The runs a transaction sees.
Visible(q) == live \ deleted[q]

\* q waits for o, which has saved the run that q is about to delete.
WaitsFor(q, o) == pc[q] = "save" /\ q # o /\ victim[q] \in deleted[o]

Waits(q) == \E o \in Requests : WaitsFor(q, o)

\* A transaction ends: its variables have gone, and its locks.
EndAs(q, outcome) ==
    /\ pc' = [pc EXCEPT ![q] = outcome]
    /\ count' = [count EXCEPT ![q] = 0]
    /\ victim' = [victim EXCEPT ![q] = 0]
    /\ deleted' = [deleted EXCEPT ![q] = {}]
    /\ mine' = [mine EXCEPT ![q] = 0]

CountRuns(q) ==
    /\ pc[q] = "waiting"
    /\ pc' = [pc EXCEPT ![q] = "evict"]
    /\ count' = [count EXCEPT ![q] = Cardinality(Visible(q))]
    /\ raced' = IF UnderWay = {} THEN raced ELSE raced \cup {q}
    /\ UNCHANGED <<live, next, victim, deleted, mine>>

\* The licence check or the authorization fails.
Refuse(q) ==
    /\ pc[q] = "waiting" /\ q \in MayFail
    /\ pc' = [pc EXCEPT ![q] = "refused"]
    /\ UNCHANGED <<live, next, count, victim, deleted, mine, raced>>

\* Mutant: the loop of 207 has no bound.
PickAlways(q) ==
    /\ pc[q] = "evict"
    /\ \E r \in Visible(q) :
          /\ \A s \in Visible(q) : r <= s
          /\ victim' = [victim EXCEPT ![q] = r]
    /\ pc' = [pc EXCEPT ![q] = "save"]
    /\ UNCHANGED <<live, next, count, deleted, mine, raced>>

PickEarliest(q) ==
    /\ pc[q] = "evict" /\ count[q] > MaxRuns - 1
    /\ \E r \in Visible(q) :
          /\ \A s \in Visible(q) : r <= s
          /\ victim' = [victim EXCEPT ![q] = r]
    /\ pc' = [pc EXCEPT ![q] = "save"]
    /\ UNCHANGED <<live, next, count, deleted, mine, raced>>

\* Mutant: first() instead of earliest(), and the loop goes on without a run.
EvictNothing(q) ==
    /\ pc[q] = "evict" /\ count[q] > MaxRuns - 1 /\ Visible(q) = {}
    /\ UNCHANGED vars

\* earliest() finds nothing: DoesNotExist leaves both atomic blocks.
NothingToEvict(q) ==
    /\ pc[q] = "evict" /\ count[q] > MaxRuns - 1 /\ Visible(q) = {}
    /\ EndAs(q, "refused")
    /\ UNCHANGED <<live, next, raced>>

\* soft_delete saves the row, when no other transaction has it locked.
SoftDelete(q) ==
    /\ pc[q] = "save"
    /\ ~Waits(q)
    /\ deleted' = [deleted EXCEPT ![q] = @ \cup {victim[q]}]
    /\ count' = [count EXCEPT ![q] = @ - 1]
    /\ victim' = [victim EXCEPT ![q] = 0]
    /\ pc' = [pc EXCEPT ![q] = "evict"]
    /\ UNCHANGED <<live, next, mine, raced>>

\* Mutant: room is made for max_runs + 1.
CreateOneMore(q) ==
    /\ pc[q] = "evict" /\ count[q] <= MaxRuns
    /\ mine' = [mine EXCEPT ![q] = next]
    /\ next' = next + 1
    /\ pc' = [pc EXCEPT ![q] = "commit"]
    /\ UNCHANGED <<live, count, victim, deleted, raced>>

CreateRun(q) ==
    /\ pc[q] = "evict" /\ count[q] <= MaxRuns - 1
    /\ mine' = [mine EXCEPT ![q] = next]
    /\ next' = next + 1
    /\ pc' = [pc EXCEPT ![q] = "commit"]
    /\ UNCHANGED <<live, count, victim, deleted, raced>>

Commit(q) ==
    /\ pc[q] = "commit"
    /\ live' = (live \ deleted[q]) \cup {mine[q]}
    /\ EndAs(q, "accepted")
    /\ UNCHANGED <<next, raced>>

\* A DatabaseError, or the process dies: nothing of the transaction is left.
Abort(q) ==
    /\ q \in UnderWay
    /\ EndAs(q, "refused")
    /\ UNCHANGED <<live, next, raced>>

Rollback(q) == q \in MayFail /\ Abort(q)

\* q is one of the transactions that wait for each other in a circle.
Deadlocked(q) ==
    /\ Waits(q)
    /\ \E S \in SUBSET {p \in Requests : Waits(p)} :
          /\ q \in S
          /\ \A p \in S : (\E o \in S : WaitsFor(p, o)) /\ (\E o \in S : WaitsFor(o, p))

\* The database aborts one of them after deadlock_timeout.
BreakDeadlock(q) == Deadlocked(q) /\ Abort(q)

Run(q) == \/ CountRuns(q) \/ PickEarliest(q) \/ NothingToEvict(q)
          \/ SoftDelete(q) \/ CreateRun(q) \/ Commit(q) \/ BreakDeadlock(q)

Next == \E q \in Requests : Run(q) \/ Refuse(q) \/ Rollback(q)

\* A request is served to its end, or aborted by the database.
Spec == Init /\ [][Next]_vars /\ \A q \in Requests : WF_vars(Run(q))
-------------------------------------------------------------------------------
TypeOK ==
    /\ live \subseteq 1..(next - 1)
    /\ next \in 1..(OldRuns + Cardinality(Requests) + 1)
    /\ pc \in [Requests -> {"waiting", "evict", "save", "commit", "accepted", "refused"}]
    /\ count \in [Requests -> 0..(OldRuns + Cardinality(Requests))]
    /\ victim \in [Requests -> 0..(next - 1)]
    /\ deleted \in [Requests -> SUBSET (1..(next - 1))]
    /\ mine \in [Requests -> 0..(next - 1)]
    /\ raced \subseteq Requests

\* Once a request has been accepted, a job has more runs than allowed by at
\* most the number of requests that counted while another was under way.
BoundedExcess ==
    (\E q \in Requests : pc[q] = "accepted") =>
        Cardinality(live) <= MaxRuns + Cardinality(raced)

\* Requests do not block each other for ever.  They need not lock the rows they delete
\* in one order, since a run may be committed after a later one; and they end also
\* when others have deleted what they counted.
RequestsEnd == <>(\A q \in Requests : pc[q] \in {"accepted", "refused"})
===============================================================================
