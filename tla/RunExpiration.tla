------------------------------ MODULE RunExpiration ------------------------------
(***************************************************************************)
(* The expiration of runs.  Every midnight the beat sends expire_runs,     *)
(* which reads all the rows of ExportRun at once and then mails about,     *)
(* saves or deletes one after the other.  Meanwhile users change the       *)
(* expiration of a run (ExportRunViewSet.partial_update), which reads the  *)
(* row, checks the new date and saves the whole row.                       *)
(*                                                                         *)
(* Time is counted in days, and a pass runs at the start of one.  A date   *)
(* within a day is rounded up to the next pass, which compares the same.   *)
(***************************************************************************)
EXTENDS Naturals, FiniteSets

CONSTANTS Runs,
          NoEmail,     \* the runs whose user has no email address
          Changes,     \* the requests to change an expiration
          Superusers,  \* those made by a superuser
          Lifetime,    \* a new run expires after so many days (14)
          LongLead,    \* the first warning comes so many days before (7)
          ShortLead,   \* and the second so many (2)
          Extension,   \* settings.MAX_DATAPACK_EXPIRATION_DAYS (30)
          LossDays,    \* bound: the days whose pass may be lost
          LastDay,     \* bound: the days followed
          NoRun

ASSUME NoEmailAssumption == NoEmail \subseteq Runs
ASSUME SuperusersAssumption == Superusers \subseteq Changes
ASSUME DaysAssumption ==
    /\ Lifetime \in Nat /\ LongLead \in Nat /\ ShortLead \in Nat \ {0}
    /\ Extension \in Nat /\ LastDay \in Nat
    /\ ShortLead < LongLead /\ LongLead <= Lifetime /\ Lifetime <= LastDay

Days == 0..LastDay
Never == LastDay + 1   \* notified is None

Row == [expiration : Days, notified : Days \cup {Never}]

VARIABLES
    today,
    rows,      \* the rows of ExportRun
    pass,      \* the pass of today: "due", "running" or "over"
    read,      \* the rows it read and has not come to yet
    patch,     \* what each request is about to save, and for which run
        \* of each run, the last day (history, but for the rows)
    warned,    \* expire_runs made a warning about it, whose mail went out or failed
    handled,   \* a pass came to it and found it as read, and no request changed it since
    quiet      \* handled, when the pass read the rows

expirationVars == <<today, rows, pass, read, patch, warned, handled, quiet>>

Idle == [run |-> NoRun]

ExpirationInit ==
    /\ today = 0
    /\ \E made \in SUBSET Runs :
          rows = [r \in Runs |-> IF r \in made
                                  THEN [expiration |-> Lifetime, notified |-> Never]
                                  ELSE NoRun]
    /\ pass = "over"
    /\ read = [r \in {} |-> 0]
    /\ patch = [q \in Changes |-> Idle]
    /\ warned = [r \in Runs |-> Never]
    /\ handled = warned
    /\ quiet = warned

\* The runs that are in the table.
Kept == {r \in Runs : rows[r] # NoRun}

Pending == {q \in Changes : patch[q] # Idle}

\* Midnight.  The beat sends the task; a request lasts less than a day.
Tick ==
    /\ today < LastDay /\ pass = "over"
    /\ \A q \in Pending : patch[q].day = today
    /\ today' = today + 1
    /\ pass' = "due"
    /\ UNCHANGED <<rows, read, patch, warned, handled, quiet>>

\* Mutant: the list of the runs was made before some of them went.
ReadAllRuns ==
    /\ pass = "due"
    /\ pass' = "running"
    /\ read' = rows
    /\ quiet' = handled
    /\ UNCHANGED <<today, rows, patch, warned, handled>>

\* for run in runs: one query.
ReadRuns ==
    /\ pass = "due"
    /\ pass' = "running"
    /\ read' = [r \in Kept |-> rows[r]]
    /\ quiet' = handled
    /\ UNCHANGED <<today, rows, patch, warned, handled>>

Done(r) == [s \in DOMAIN read \ {r} |-> read[s]]

Handled(r) ==
    /\ pass = "running" /\ r \in DOMAIN read
    /\ read' = Done(r)
    /\ handled' = [handled EXCEPT ![r] = IF rows[r] = read[r] THEN today ELSE Never]
    /\ UNCHANGED <<today, pass, patch, quiet>>

\* A user without an email address: break.
Break ==
    /\ pass = "running"
    /\ DOMAIN read \cap NoEmail # {}
    /\ pass' = "over"
    /\ read' = [r \in {} |-> 0]
    /\ UNCHANGED <<today, rows, patch, warned, handled, quiet>>

Expired(r) == read[r].expiration <= today

\* Mutant: one warning is enough.
SecondUnlessFirst(r) ==
    /\ read[r].expiration <= today + ShortLead
    /\ read[r].notified = Never

SecondDue(r) ==
    /\ read[r].expiration <= today + ShortLead
    /\ \/ read[r].notified = Never
       \/ read[r].notified + ShortLead < read[r].expiration

FirstDue(r) ==
    /\ read[r].expiration > today + ShortLead
    /\ read[r].expiration <= today + LongLead
    /\ read[r].notified = Never

Delete(r) ==
    /\ r \notin NoEmail /\ Handled(r) /\ Expired(r)
    /\ rows' = [rows EXCEPT ![r] = NoRun]
    /\ UNCHANGED warned

\* The mail, which may fail: send_warning_email swallows that, so nothing else tells
\* the two apart.  Then the whole row as it was read, notified either way; a row that
\* has gone in the meantime is inserted again.
Warn(r) ==
    /\ r \notin NoEmail /\ Handled(r) /\ ~Expired(r)
    /\ SecondDue(r) \/ FirstDue(r)
    /\ rows' = [rows EXCEPT ![r] = [read[r] EXCEPT !.notified = today]]
    /\ warned' = [warned EXCEPT ![r] = today]

PassOver(r) ==
    /\ r \notin NoEmail /\ Handled(r)
    /\ ~Expired(r) /\ ~SecondDue(r) /\ ~FirstDue(r)
    /\ UNCHANGED <<rows, warned>>

EndPass ==
    /\ pass = "running" /\ DOMAIN read = {}
    /\ pass' = "over"
    /\ UNCHANGED <<today, rows, read, patch, warned, handled, quiet>>

\* The message is lost, or the worker dies before or during the pass.
LosePass ==
    /\ today \in LossDays /\ pass \in {"due", "running"}
    /\ pass' = "over"
    /\ read' = [r \in {} |-> 0]
    /\ UNCHANGED <<today, rows, patch, warned, handled, quiet>>

Allowed(q, r, date) ==
    \/ q \in Superusers
    \/ date <= today + Extension /\ date >= rows[r].expiration

BeginPatch(q) ==
    /\ patch[q] = Idle
    /\ \E r \in Kept, date \in Days :
          /\ Allowed(q, r, date)
          /\ patch' = [patch EXCEPT ![q] =
                 [run |-> r, day |-> today,
                  row |-> [rows[r] EXCEPT !.expiration = date]]]
    /\ UNCHANGED <<today, rows, pass, read, warned, handled, quiet>>

SavePatch(q) ==
    LET r == patch[q].run IN
    /\ r # NoRun
    /\ rows' = [rows EXCEPT ![r] = patch[q].row]
    /\ patch' = [patch EXCEPT ![q] = Idle]
    /\ handled' = [handled EXCEPT ![r] = Never]
    /\ UNCHANGED <<today, pass, read, warned, quiet>>

Pass == \/ ReadRuns \/ Break \/ EndPass
        \/ \E r \in Runs : Delete(r) \/ Warn(r) \/ PassOver(r)

ExpirationNext ==
    \/ Tick \/ Pass \/ LosePass
    \/ \E q \in Changes : BeginPatch(q) \/ SavePatch(q)

\* Time goes on, a pass goes to its end, and a request is answered.
ExpirationSpec ==
    /\ ExpirationInit /\ [][ExpirationNext]_expirationVars
    /\ WF_expirationVars(Tick) /\ WF_expirationVars(Pass)
    /\ \A q \in Changes : WF_expirationVars(SavePatch(q))
-------------------------------------------------------------------------------
ExpirationTypeOK ==
    /\ today \in Days
    /\ \A r \in Runs : rows[r] \in Row \cup {NoRun}
    /\ pass \in {"due", "running", "over"}
    /\ DOMAIN read \subseteq Runs
    /\ \A r \in DOMAIN read : read[r] \in Row
    /\ \A q \in Pending :
          /\ patch[q].run \in Runs /\ patch[q].day \in Days
          /\ patch[q].row \in Row
    /\ {warned, handled, quiet} \subseteq [Runs -> Days \cup {Never}]

\* day[r] is one of the last days before r expires.
InLastDays(day, r) == day[r] # Never /\ day[r] + ShortLead >= read[r].expiration

\* A run that expires is deleted only after expire_runs made a warning about it in its
\* last days, if a single pass of those days came to it and nobody changed it since:
\* whichever other passes were lost or broken off, whatever rows requests and passes
\* saved over others before, and however often it was put off (49-63).
DeletedWasWarned ==
    [][\A r \in Runs : Delete(r) /\ InLastDays(quiet, r) => InLastDays(warned, r)]_expirationVars
===============================================================================
