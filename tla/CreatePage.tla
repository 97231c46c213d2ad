------------------------------ MODULE CreatePage -------------------------------
(***************************************************************************)
(* The three steps of creating a DataPack: its area (AoiEditor in detail), *)
(* its name and providers, and the summary with the button to submit it.   *)
(* The store outlives the page, so that edits, lists and submissions that  *)
(* end after the user has left come to the next page.                      *)
(***************************************************************************)
EXTENDS Naturals, FiniteSets

CONSTANTS Providers,
          MaxPosts,   \* bound: submissions begun and not answered
          MaxLists,   \* bound: requests for the providers in flight
          MaxChecks   \* bound: checks of a provider's availability in flight

ASSUME ProvidersAssumption == IsFiniteSet(Providers)
ASSUME BoundsAssumption == {MaxPosts, MaxLists, MaxChecks} \subseteq Nat \ {0}

\* What the user enters; named stands for the name, the description and the project.
Info == [named : BOOLEAN, providers : SUBSET Providers]
NoInfo == [named |-> FALSE, providers |-> {}]

\* hasRequiredFields
Complete(i) == i.named /\ i.providers # {}

VARIABLES
    open, broken,  \* the page is mounted, and has thrown
    step,          \* stepIndex
    area,          \* store: aoiInfo has an area of interest
    info,          \* store: exportInfo
    next,          \* store: stepperNextEnabled
    providers,     \* store: no list, or one whose availability is undefined, being
                   \* checked or known
    formats,       \* store: the list of formats is there
    submit,        \* store: submitJob
    modified,      \* CreateExport's state
    leaving,       \* the warning of unsaved changes is shown
    loading,       \* the overlay
    error,         \* showError
        \* by the visit that made them
    timers,        \* calls of handleSubmit that wait for their timeout
    posts,         \* submissions in flight
    edit,          \* a debounced change of the name, and what its component will write
    lists,         \* requests for the providers, and whether there is one for the formats
    checks,        \* checks in flight of the providers in the list
    unanswered     \* history: a submission of this visit ended without a response

store == <<area, info, next, submit>>
listed == <<providers, formats, lists, checks>>
page == <<open, broken, step, modified, leaving, loading, error>>
sending == <<timers, posts>>
vars == <<store, listed, page, sending, edit, unanswered>>

Visits == {"this", "earlier"}
NoEdit == [by |-> "none", info |-> NoInfo]

Zero == [v \in Visits |-> 0]

\* The overlay and the dialogs only cover the page: a button that has the focus still
\* works by the keyboard.
Usable == open /\ ~broken

\* The buttons of the stepper; going back is always possible.
CanGoOn == Usable /\ next
CanGoBack == Usable /\ step > 0

\* The second step: the fields and the button to refresh, and a box per provider.
Form == Usable /\ step = 1
Boxes == Form /\ providers # "none"

\* Its icons cannot draw an availability that is undefined.
StatusIconThrows == open /\ step = 1

\* CreateExport sees other settings.
Modify == modified' = (modified \/ (open /\ (area' # area \/ info' # info)))

\* componentWillReceiveProps of the second step keeps the button as it should be.
InfoReceives(enabled) == next' = IF open /\ ~broken /\ step = 1 THEN Complete(info') ELSE enabled

-------------------------------------------------------------------------------
(* Opening and leaving *)

\* Mutant: the error stays in the store.
ShowErrorAgain(kind) ==
    /\ submit' = kind /\ error' = TRUE /\ loading' = FALSE
    /\ broken' = (broken \/ kind = "plain")

\* Errors of a submission are shown, and cleared in the store.  An error that is not
\* a list of errors cannot be shown.
ShowError(kind) ==
    /\ submit' = "clear" /\ error' = TRUE /\ loading' = FALSE
    /\ broken' = (broken \/ kind = "plain")

\* The first step is mounted, then the stepper, which asks for the lists: it sees
\* at once what became of earlier submissions.  new: what the store has by then.
Mount(newArea, newInfo) ==
    /\ ~open /\ open' = TRUE /\ step' = 0
    /\ area' = newArea /\ info' = newInfo
    /\ next' = (newInfo.named /\ (newArea \/ next))
    /\ lists.providers < MaxLists
    /\ lists' = [providers |-> lists.providers + 1, formats |-> TRUE]
    /\ providers' = "none" /\ formats' = FALSE /\ checks' = 0
    /\ modified' = FALSE /\ leaving' = FALSE
    /\ IF submit \in {"error", "plain"} THEN ShowError(submit)
       ELSE broken' = FALSE /\ error' = FALSE /\ loading' = FALSE /\ UNCHANGED submit
    /\ UNCHANGED <<sending, edit, unanswered>>

Visit == Mount(area, info)

\* cloneExport
Clone(i) == Complete(i) /\ Mount(TRUE, i)

\* The second step is unmounted: its debounced changes will write what it has now.
DropEdit == edit' = IF edit.by = "mine" THEN [by |-> "stray", info |-> [info EXCEPT !.named = edit.info.named]]
                    ELSE edit

\* componentWillUnmount of the stepper
Close ==
    /\ open' = FALSE /\ step' = 0 /\ broken' = FALSE
    /\ modified' = FALSE /\ leaving' = FALSE /\ loading' = FALSE /\ error' = FALSE
    /\ area' = FALSE /\ info' = NoInfo /\ submit' = "clear"
    /\ DropEdit
    /\ unanswered' = FALSE

\* What this visit has submitted, or is about to, is now an earlier visit's.
CloseAsEarlier(p) ==
    /\ Close
    /\ timers' = [this |-> 0, earlier |-> timers.this + timers.earlier]
    /\ posts' = [this |-> 0, earlier |-> p.this + p.earlier]

\* routeLeaveHook
Leave ==
    /\ open /\ ~leaving
    /\ IF modified
       THEN /\ leaving' = TRUE
            /\ UNCHANGED <<store, open, broken, step, modified, loading, error, sending, edit, unanswered>>
       ELSE CloseAsEarlier(posts) /\ UNCHANGED next
    /\ UNCHANGED listed

HandleLeaveWarningDialogCancel ==
    /\ leaving /\ leaving' = FALSE
    /\ UNCHANGED <<store, listed, open, broken, step, modified, loading, error, sending, edit, unanswered>>

HandleLeaveWarningDialogConfirm ==
    /\ leaving /\ CloseAsEarlier(posts)
    /\ UNCHANGED <<next, listed>>

-------------------------------------------------------------------------------
(* The steps *)

\* What AoiEditor does: only an area of interest lets the user go on.
EditArea ==
    /\ Usable /\ step = 0
    /\ area' \in BOOLEAN /\ next' \in BOOLEAN /\ (next' => area')
    /\ UNCHANGED info /\ Modify
    /\ UNCHANGED <<submit, listed, open, broken, step, leaving, loading, error, sending, edit, unanswered>>

\* A look-up of a place is answered after the first step has been left.
StrayArea ==
    /\ ~(open /\ step = 0)
    /\ area' = TRUE /\ UNCHANGED info
    /\ \E enabled \in {next, TRUE} : InfoReceives(enabled)
    /\ Modify
    /\ UNCHANGED <<submit, listed, open, broken, step, leaving, loading, error, sending, edit, unanswered>>

\* The second step is made: every provider in the list gets an availability, and is
\* checked.  Without the formats their box is missing, and mounting throws.
MountInfo ==
    /\ step' = 1
    /\ IF ~formats THEN broken' = TRUE /\ UNCHANGED <<providers, checks, modified>>
       ELSE /\ UNCHANGED broken /\ modified' = TRUE
            /\ IF providers = "none" THEN UNCHANGED <<providers, checks>>
               ELSE /\ checks < MaxChecks /\ checks' = checks + 1
                    /\ providers' = IF providers = "bare" THEN "pending" ELSE providers
    /\ next' = (next /\ Complete(info))

HandleNext ==
    /\ CanGoOn
    /\ \/ step = 0 /\ MountInfo /\ UNCHANGED edit
       \/ step = 1 /\ step' = 2 /\ DropEdit /\ UNCHANGED <<broken, providers, checks, modified, next>>
    /\ UNCHANGED <<area, info, submit, formats, lists, open, leaving, loading, error, sending, unanswered>>

\* The first step enables the button if there is an area.
HandlePrev ==
    /\ CanGoBack
    /\ \/ /\ step = 1 /\ step' = 0 /\ DropEdit
          /\ next' = (next \/ area) /\ UNCHANGED <<broken, providers, checks, modified>>
       \/ step = 2 /\ MountInfo /\ UNCHANGED edit
    /\ UNCHANGED <<area, info, submit, formats, lists, open, leaving, loading, error, sending, unanswered>>

\* The name is typed: it is handled 250 ms after the last key.
OnNameChange(n) ==
    /\ Form /\ edit.by # "stray"
    /\ edit' = [by |-> "mine", info |-> [info EXCEPT !.named = n]]
    /\ UNCHANGED <<store, listed, page, sending, unanswered>>

\* The component writes its own settings, which are old if it is gone.
NameHandler ==
    /\ edit.by # "none" /\ edit' = NoEdit
    /\ info' = IF edit.by = "mine" THEN [info EXCEPT !.named = edit.info.named] ELSE edit.info
    /\ UNCHANGED area /\ InfoReceives(next) /\ Modify
    /\ UNCHANGED <<submit, listed, open, broken, step, leaving, loading, error, sending, unanswered>>

OnChangeCheck(p) ==
    /\ Boxes
    /\ info' = [info EXCEPT !.providers =
                    IF p \in info.providers THEN info.providers \ {p} ELSE info.providers \cup {p}]
    /\ UNCHANGED area /\ InfoReceives(next) /\ Modify
    /\ UNCHANGED <<submit, listed, open, broken, step, leaving, loading, error, sending, edit, unanswered>>

-------------------------------------------------------------------------------
(* Lists and checks *)

\* PROVIDERS_RECEIVED: new objects, without an availability.
ProvidersReceived ==
    /\ lists.providers > 0 /\ lists' = [lists EXCEPT !.providers = @ - 1]
    /\ providers' = "bare" /\ checks' = 0
    /\ broken' = (broken \/ StatusIconThrows)
    /\ UNCHANGED <<store, formats, open, step, modified, leaving, loading, error, sending, edit, unanswered>>

FormatsReceived ==
    /\ lists.formats /\ lists' = [lists EXCEPT !.formats = FALSE]
    /\ formats' = TRUE
    /\ UNCHANGED <<store, providers, checks, page, sending, edit, unanswered>>

\* An error is only logged.
ListFails ==
    /\ \/ lists.providers > 0 /\ lists' = [lists EXCEPT !.providers = @ - 1]
       \/ lists.formats /\ lists' = [lists EXCEPT !.formats = FALSE]
    /\ UNCHANGED <<store, providers, formats, checks, page, sending, edit, unanswered>>

\* An answer or an error, whichever step is open.
CheckAvailability ==
    /\ checks > 0 /\ checks' = checks - 1
    /\ providers' = "known"
    /\ UNCHANGED <<store, formats, lists, page, sending, edit, unanswered>>

\* Mutant: the availability is forgotten, but not asked for.
RefreshWithoutCheck ==
    /\ Form /\ providers \in {"pending", "known"}
    /\ providers' = "pending"
    /\ UNCHANGED <<store, formats, lists, checks, page, sending, edit, unanswered>>

OnRefresh ==
    /\ Form /\ providers \in {"pending", "known"} /\ checks < MaxChecks
    /\ providers' = "pending" /\ checks' = checks + 1
    /\ UNCHANGED <<store, formats, lists, page, sending, edit, unanswered>>

-------------------------------------------------------------------------------
(* Submission *)

Begun == timers.this + timers.earlier + posts.this + posts.earlier

SubmitDatapack ==
    /\ CanGoOn /\ step = 2 /\ Begun < MaxPosts
    /\ loading' = TRUE /\ timers' = [timers EXCEPT !.this = @ + 1]
    /\ UNCHANGED <<store, listed, open, broken, step, modified, leaving, error, posts, edit, unanswered>>

TimesOut(v) ==
    /\ timers[v] > 0 /\ timers' = [timers EXCEPT ![v] = @ - 1]
    /\ posts' = [posts EXCEPT ![v] = @ + 1]

\* Mutant: SUBMITTING_JOB leaves what became of the submission before.
SubmitKeepsFetched(v) ==
    /\ TimesOut(v)
    /\ submit' = IF submit = "fetched" THEN submit ELSE "fetching"
    /\ UNCHANGED <<area, info, next, listed, page, edit, unanswered>>

\* The timeout is not cleared when the page is left.
HandleSubmit(v) ==
    /\ TimesOut(v)
    /\ submit' = "fetching"
    /\ UNCHANGED <<area, info, next, listed, page, edit, unanswered>>

Answered(v) == posts[v] > 0 /\ posts' = [posts EXCEPT ![v] = @ - 1]

\* JOB_SUBMITTED_SUCCESS: an open page goes on to the status page, without a warning.
JobSubmitted(v) ==
    /\ posts[v] > 0
    /\ IF open /\ ~broken /\ submit # "fetched"
       THEN CloseAsEarlier([posts EXCEPT ![v] = @ - 1]) /\ UNCHANGED next
       ELSE /\ Answered(v) /\ submit' = "fetched"
            /\ UNCHANGED <<area, info, next, page, timers, edit, unanswered>>
    /\ UNCHANGED listed

\* JOB_SUBMITTED_ERROR.  The server may have committed the job before the error, and
\* another submission makes another job.
JobFails(v, kind) ==
    /\ Answered(v)
    /\ IF open THEN ShowError(kind) ELSE submit' = kind /\ UNCHANGED <<broken, loading, error>>
    /\ UNCHANGED <<area, info, next, listed, open, step, modified, leaving, timers, edit, unanswered>>

\* Without a response the handler throws: the overlay stays.
JobUnanswered(v) ==
    /\ Answered(v)
    /\ unanswered' = (unanswered \/ v = "this")
    /\ UNCHANGED <<store, listed, page, timers, edit>>

HideError ==
    /\ open /\ ~broken /\ error /\ error' = FALSE
    /\ UNCHANGED <<store, listed, open, broken, step, modified, leaving, loading, sending, edit, unanswered>>

-------------------------------------------------------------------------------
Init ==
    /\ open = FALSE /\ broken = FALSE /\ step = 0
    /\ area = FALSE /\ info = NoInfo /\ next = FALSE /\ submit = "clear"
    /\ providers = "none" /\ formats = FALSE /\ checks = 0
    /\ lists = [providers |-> 0, formats |-> FALSE]
    /\ modified = FALSE /\ leaving = FALSE /\ loading = FALSE /\ error = FALSE
    /\ timers = Zero /\ posts = Zero /\ edit = NoEdit
    /\ unanswered = FALSE

Next ==
    \/ Visit \/ \E i \in Info : Clone(i)
    \/ Leave \/ HandleLeaveWarningDialogCancel \/ HandleLeaveWarningDialogConfirm
    \/ EditArea \/ StrayArea \/ HandleNext \/ HandlePrev
    \/ \E n \in BOOLEAN : OnNameChange(n)
    \/ NameHandler
    \/ \E p \in Providers : OnChangeCheck(p)
    \/ ProvidersReceived \/ FormatsReceived \/ ListFails
    \/ CheckAvailability \/ OnRefresh
    \/ SubmitDatapack \/ HideError
    \/ \E v \in Visits : \/ HandleSubmit(v) \/ JobSubmitted(v) \/ JobUnanswered(v)
                         \/ \E kind \in {"error", "plain"} : JobFails(v, kind)

Spec == Init /\ [][Next]_vars
-------------------------------------------------------------------------------
(* Properties *)

TypeOK ==
    /\ {open, broken, area, next, formats, modified, leaving, loading, error, unanswered} \subseteq BOOLEAN
    /\ step \in 0..2 /\ info \in Info
    /\ providers \in {"none", "bare", "pending", "known"} /\ checks \in 0..MaxChecks
    /\ submit \in {"clear", "fetching", "fetched", "error", "plain"}
    /\ lists \in [providers : 0..MaxLists, formats : BOOLEAN]
    /\ {timers, posts} \subseteq [Visits -> 0..MaxPosts]
    /\ edit \in [by : {"none", "mine", "stray"}, info : Info]
    /\ open => submit \notin {"error", "plain"}
    /\ ~open => step = 0 /\ posts.this = 0 /\ timers.this = 0

\* The overlay of a submission ends: while it is shown, a submission of this visit is
\* still to be made or answered, however many there are, however they and those of
\* earlier visits overtake each other, and whatever became of one while the page was
\* closed (57-69).  Only one that gets no response leaves it for ever.
OverlayEnds ==
    loading /\ ~broken => timers.this > 0 \/ posts.this > 0 \/ unanswered

\* An availability that is shown as being checked is being checked.
PendingIsChecked == providers = "pending" => checks > 0
===============================================================================
