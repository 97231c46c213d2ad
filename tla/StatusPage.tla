------------------------------ MODULE StatusPage -------------------------------
(***************************************************************************)
(* The page that follows a DataPack: it polls the newest run of its job    *)
(* every five seconds until that run is finished, once more after some     *)
(* minutes, and offers to cancel, rerun, clone, share and delete it.       *)
(*                                                                         *)
(* There is one page at a time, but one store for all pages: answers,      *)
(* intervals and timeouts that outlive a page act on the next one.         *)
(***************************************************************************)
EXTENDS Naturals, FiniteSets

CONSTANTS Jobs,
          Mine,      \* the jobs of the user of the browser; the runs of others are done
          MaxGets,   \* bound: the requests for details in flight
          MaxRuns,   \* bound: the runs of a job
          MaxStrays  \* bound: intervals and timeouts that no page can clear

ASSUME JobsAssumption == "none" \notin Jobs /\ Mine \subseteq Jobs
ASSUME BoundsAssumption == {MaxGets, MaxRuns, MaxStrays} \subseteq Nat \ {0}

Stages == {"RUNNING",   \* some task is not finished
           "BARE",      \* all are, but there is no zipfile_url, or not yet
           "DONE"}      \* COMPLETED or INCOMPLETE, with a zipfile_url

\* What the server answers: the newest run of a job, or the empty list.
Run == [job : Jobs, run : 1..MaxRuns, stage : Stages]
Nothing == [job |-> "none", run |-> 0, stage |-> "RUNNING"]
\* The store before an answer: an empty list of DataPacks.
Cleared == [job |-> "none", run |-> 0, stage |-> "BARE"]

VARIABLES
    server,    \* for each job the number and the stage of its newest run, 0 if deleted
    gets,      \* the requests for details whose answer has not arrived
    post,      \* a request to rerun or delete a run
    shown,     \* store: datacartDetails.data
    fetched,   \* store: datacartDetails.fetched
    page,      \* the job whose page is open, or "none"
    broken,    \* the page has thrown while it was drawn
    timer,     \* this.timer is set
    timeout,   \* this.timeout is the id of a timeout that waits
    intervals, \* the jobs polled by an interval that no page can clear any more
    timeouts,  \* the jobs with a waiting timeout that no page can clear any more
    dialog     \* the open dialog, with the run it was opened on

store == <<shown, fetched>>
clocks == <<timer, timeout, intervals, timeouts>>
view == <<page, broken, dialog>>
statusVars == <<server, gets, post, store, clocks, view>>

NoDialog == [what |-> "none", job |-> "none", run |-> 0]
Get(j) == [phase |-> "sent", job |-> j, data |-> Cleared]
IdlePost == [phase |-> "idle", what |-> "none", job |-> "none", run |-> 0]

Newest(j) == IF server[j].run = 0 THEN Nothing
             ELSE [job |-> j, run |-> server[j].run, stage |-> server[j].stage]

\* The run is finished, every task of it is, and there is a zip file.
Settled(d) == d.job # "none" /\ d.stage = "DONE"

SameRun(d, e) == d.job # "none" /\ d.job = e.job /\ d.run = e.run

Open == page \in Jobs /\ ~broken

-------------------------------------------------------------------------------
(* Drawing the page *)

\* Mutant: the list is drawn by place, and a dialog stays.
DrawByPlace(d) == shown' = d /\ broken' = (d = Nothing) /\ UNCHANGED dialog

\* The list of DataPacks is drawn by uid: for another run the component and its
\* dialogs are replaced.  An empty object has no job to show.
Draw(d) ==
    /\ shown' = d
    /\ broken' = (d = Nothing)
    /\ dialog' = IF SameRun(shown, d) THEN dialog ELSE NoDialog

\* The store changes: an open page is drawn.
Render(d) == IF Open THEN Draw(d) ELSE shown' = d /\ UNCHANGED <<broken, dialog>>

\* GETTING_DATACART_DETAILS.
GetDetails(j) ==
    /\ Cardinality(gets) < MaxGets
    /\ gets' = gets \cup {Get(j)}
    /\ fetched' = FALSE

-------------------------------------------------------------------------------
(* The server *)

Progress(j) ==
    /\ server[j].run # 0
    /\ \/ /\ server[j].stage = "RUNNING"
          /\ server' = [server EXCEPT ![j].stage = "BARE"]
       \/ /\ server[j].stage = "BARE"
          /\ server' = [server EXCEPT ![j].stage = "DONE"]
    /\ UNCHANGED <<gets, post, store, clocks, view>>

ServeGet(g) ==
    /\ g.phase = "sent"
    /\ gets' = (gets \ {g}) \cup {[g EXCEPT !.phase = "answered", !.data = Newest(g.job)]}
    /\ UNCHANGED <<server, post, store, clocks, view>>

Answer(what, phase) == post.what = what /\ post.phase = "sent" /\ post' = [post EXCEPT !.phase = phase]

\* A new run replaces the older ones, which are deleted.
ServeRerun ==
    /\ Answer("rerun", "answered")
    /\ server[post.job].run \in 1..(MaxRuns - 1)
    /\ server' = [server EXCEPT ![post.job] = [run |-> @.run + 1, stage |-> "RUNNING"]]
    /\ UNCHANGED <<gets, store, clocks, view>>

ServeDelete ==
    /\ Answer("delete", "answered")
    /\ server[post.job].run = post.run
    /\ server' = [server EXCEPT ![post.job] = [run |-> 0, stage |-> "RUNNING"]]
    /\ UNCHANGED <<gets, store, clocks, view>>

-------------------------------------------------------------------------------
(* The timers *)

IntervalFires(j) ==
    /\ j \in intervals \/ (timer /\ page = j)
    /\ GetDetails(j)
    /\ UNCHANGED <<server, post, shown, clocks, view>>

TimeoutFires(j) ==
    /\ \/ j \in timeouts /\ timeouts' = timeouts \ {j} /\ UNCHANGED timeout
       \/ timeout /\ page = j /\ timeout' = FALSE /\ UNCHANGED timeouts
    /\ GetDetails(j)
    /\ UNCHANGED <<server, post, shown, view, timer, intervals>>

Room == Cardinality(intervals) + Cardinality(timeouts) < MaxStrays

\* startTimer forgets the interval it has started before.
StartTimer == /\ timer => Room \/ page \in intervals
              /\ intervals' = IF timer THEN intervals \cup {page} ELSE intervals
              /\ timer' = TRUE

\* Mutant: the interval goes on.
KeepTimer == UNCHANGED <<timer, intervals>>

StopTimer == timer' = FALSE /\ UNCHANGED intervals

\* Another one may wait, and is forgotten.
StartTimeout == /\ timeout => Room \/ page \in timeouts
                /\ timeouts' = IF timeout THEN timeouts \cup {page} ELSE timeouts
                /\ timeout' = TRUE

\* componentWillReceiveProps, when fetched becomes true.
DetailsHandled(d) ==
    IF Settled(d) THEN StopTimer /\ StartTimeout ELSE UNCHANGED clocks

\* DATACART_DETAILS_RECEIVED.  The page looks at fetched becoming true, so of two
\* answers in a row it handles the first.
Received(g) ==
    /\ g.phase = "answered"
    /\ gets' = gets \ {g}
    /\ fetched' = TRUE
    /\ Render(g.data)
    /\ IF Open /\ ~fetched THEN DetailsHandled(g.data) ELSE UNCHANGED clocks
    /\ UNCHANGED <<server, post, page>>

\* DATACART_DETAILS_ERROR clears the page.
ReceivedError(g) ==
    /\ gets' = gets \ {g}
    /\ fetched' = FALSE
    /\ Render(Cleared)
    /\ UNCHANGED <<server, post, page, clocks>>

\* Without a response there is no data of an error either: nothing is dispatched.
Unanswered(g) ==
    /\ gets' = gets \ {g}
    /\ UNCHANGED <<server, post, store, clocks, view>>

-------------------------------------------------------------------------------
(* The page *)

\* The page is mounted and drawn from what the store holds.
Visit(j) ==
    /\ page = "none" /\ page' = j
    /\ GetDetails(j)
    /\ StartTimer
    /\ broken' = (shown = Nothing) /\ dialog' = NoDialog
    /\ UNCHANGED <<server, post, shown, timeout, timeouts>>

\* componentWillUnmount
Unmount ==
    /\ shown' = Cleared /\ fetched' = FALSE
    /\ StopTimer
    /\ timeout' = FALSE /\ UNCHANGED timeouts
    /\ page' = "none" /\ broken' = FALSE /\ dialog' = NoDialog

\* To another page, by the menu.
Leave == Open /\ Unmount /\ UNCHANGED <<server, gets, post>>

\* What has thrown is left by loading the client again.
Reload ==
    /\ broken
    /\ page' = "none" /\ broken' = FALSE /\ dialog' = NoDialog
    /\ shown' = Cleared /\ fetched' = FALSE
    /\ gets' = {} /\ post' = IdlePost
    /\ intervals' = {} /\ timeouts' = {}
    /\ timer' = FALSE /\ timeout' = FALSE
    /\ UNCHANGED server

Displayed == Open /\ shown.job # "none"

OpenDialog(what) ==
    /\ Displayed /\ dialog = NoDialog
    /\ what = "rerun" => shown.job \in Mine
    /\ dialog' = [what |-> what, job |-> shown.job, run |-> shown.run]
    /\ UNCHANGED <<server, gets, post, store, clocks, page, broken>>

CloseDialog ==
    /\ dialog # NoDialog /\ dialog' = NoDialog
    /\ UNCHANGED <<server, gets, post, store, clocks, page, broken>>

\* With a copy of the DataPack to /create.
Clone ==
    /\ dialog.what = "clone" /\ Unmount
    /\ UNCHANGED <<server, gets, post>>

\* About the run that is displayed now.
Request(what) ==
    /\ post = IdlePost
    /\ post' = [phase |-> "sent", what |-> what, job |-> shown.job, run |-> shown.run]

Confirm ==
    /\ dialog.what \in {"rerun", "delete"} /\ Request(dialog.what)
    /\ dialog' = NoDialog
    /\ UNCHANGED <<server, gets, store, clocks, page, broken>>

\* The page offers to cancel what it believes to be running; the request is not
\* followed up, and a run of which nothing is left has no zip file.
CancelEnabled == Displayed /\ shown.stage = "RUNNING"

CancelProvider ==
    /\ CancelEnabled
    /\ server[shown.job].run = shown.run /\ server[shown.job].stage = "RUNNING"
    /\ server' = [server EXCEPT ![shown.job].stage = "BARE"]
    /\ UNCHANGED <<gets, post, store, clocks, view>>

\* The answer is received by whatever page is open now.
Done(what) == post.what = what /\ post.phase = "answered" /\ post' = IdlePost

RerunStarted ==
    /\ Done("rerun")
    /\ IF Open THEN GetDetails(page) /\ StartTimer
       ELSE UNCHANGED <<gets, fetched, timer, intervals>>
    /\ UNCHANGED <<server, shown, view, timeout, timeouts>>

Deleted ==
    /\ Done("delete")
    /\ IF Open THEN Unmount ELSE UNCHANGED <<store, clocks, view>>
    /\ UNCHANGED <<server, gets>>

\* A new expiration or permission has been accepted, of this page or an earlier one.
Updated ==
    /\ Open /\ GetDetails(page)
    /\ UNCHANGED <<server, post, shown, view, clocks>>

\* A run that is gone, a refusal, or a connection lost before or after the server
\* has acted.
Failed ==
    /\ post # IdlePost /\ post' = IdlePost
    /\ UNCHANGED <<server, gets, store, clocks, view>>

-------------------------------------------------------------------------------
StatusInit ==
    /\ server = [j \in Jobs |-> [run |-> 1, stage |-> IF j \in Mine THEN "RUNNING" ELSE "DONE"]]
    /\ gets = {} /\ post = IdlePost
    /\ shown = Cleared /\ fetched = FALSE
    /\ page = "none" /\ broken = FALSE /\ dialog = NoDialog
    /\ timer = FALSE /\ timeout = FALSE
    /\ intervals = {} /\ timeouts = {}

Serve == \/ \E g \in gets : ServeGet(g)
         \/ ServeRerun \/ ServeDelete

Clock(j) == IntervalFires(j) \/ TimeoutFires(j)

Answers == RerunStarted \/ Deleted \/ Failed

Acts == \/ \E j \in Jobs : Visit(j)
        \/ Leave \/ Reload
        \/ \E w \in {"rerun", "delete", "clone"} : OpenDialog(w)
        \/ CloseDialog \/ Confirm \/ Clone \/ CancelProvider

StatusNext ==
    \/ \E j \in Jobs : Progress(j) \/ Clock(j)
    \/ Serve \/ Answers \/ Acts
    \/ \E g \in gets : Received(g) \/ ReceivedError(g) \/ Unanswered(g)
    \/ Updated

StatusSpec == StatusInit /\ [][StatusNext]_statusVars
-------------------------------------------------------------------------------
(* Properties *)

StatusTypeOK ==
    /\ server \in [Jobs -> [run : 0..MaxRuns, stage : Stages]]
    /\ gets \subseteq [phase : {"sent", "answered"}, job : Jobs,
                       data : Run \cup {Nothing, Cleared}]
    /\ post \in [phase : {"idle", "sent", "answered"}, what : {"none", "rerun", "delete"},
                job : Jobs \cup {"none"}, run : 0..MaxRuns]
    /\ shown \in Run \cup {Nothing, Cleared} /\ fetched \in BOOLEAN
    /\ page \in Jobs \cup {"none"} /\ broken \in BOOLEAN
    /\ dialog \in [what : {"none", "rerun", "delete", "clone"},
                  job : Jobs \cup {"none"}, run : 0..MaxRuns]
    /\ timer \in BOOLEAN /\ timeout \in BOOLEAN
    /\ intervals \subseteq Jobs /\ timeouts \subseteq Jobs
    /\ timer \/ timeout => page \in Jobs

\* Whatever polls replace on the page while a dialog is open, what is confirmed is
\* done to the run the user was asked about.
ActsOnTheRunAsked ==
    dialog # NoDialog => dialog.job = shown.job /\ dialog.run = shown.run
===============================================================================
