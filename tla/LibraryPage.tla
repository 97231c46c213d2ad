------------------------------ MODULE LibraryPage ------------------------------
(***************************************************************************)
(* The library of DataPacks: a list of runs, shown on a map, as cards or   *)
(* as a table, that is asked for again every ten seconds and whenever the  *)
(* user searches, filters, sorts, loads more or deletes.  A new request    *)
(* cancels the one before it.                                              *)
(***************************************************************************)
EXTENDS Naturals, Sequences, FiniteSets

CONSTANTS Runs,
          Queries,  \* search text, owner, area and order; not the dates and the permission
          MaxPages  \* bound: pages; one run fills a page, in the code twelve do

ASSUME RunsAssumption == "none" \notin Runs /\ IsFiniteSet(Runs)
ASSUME BoundsAssumption == MaxPages \in Nat \ {0} /\ Queries # {}

Views == {"map", "grid", "list"}

\* What the runs are asked for with; boxes are the status and provider boxes.
Params == [query : Queries, boxes : BOOLEAN, size : 1..MaxPages]

Lists == {l \in UNION {[1..n -> Runs] : n \in 0..Cardinality(Runs)} :
              \A i, j \in DOMAIN l : l[i] = l[j] => i = j}
Items(l) == {l[i] : i \in DOMAIN l}

VARIABLES
    alive,     \* the runs the server has
    request,   \* the request for runs that is not cancelled
    deletion,  \* the run that is being deleted, and how far the deletion is
    runs,      \* store: runsList.runs
    fetched,   \* store: runsList.fetched
    got,       \* what the runs in the store were asked for with
    confirmed, \* the runs whose deletion has been confirmed to this page
    open,      \* the page is mounted
    state,     \* the page's query, status and providers, and pageSize; the view
               \* outlives the page in the store
    loading,   \* the page's pageLoading or loading
    view,
    drawer,    \* the boxes ticked in the filter drawer
    shared,    \* the page and the drawer hold the same status and provider objects
    selected, popup,  \* the run selected on the map, showPopup
    red,       \* the runs drawn as selected
    dialog     \* the run whose item shows "delete this DataPack?"

store == <<runs, fetched, got>>
page == <<open, state, loading>>
filter == <<drawer, shared>>
map == <<view, selected, popup, red, dialog>>
vars == <<alive, request, deletion, store, confirmed, page, filter, map>>

NoRequest == [phase |-> "none", params |-> got, data |-> <<>>]
NoDeletion == [phase |-> "none", run |-> "none"]

\* The spinner over the view takes no clicks.
Covered == loading \/ deletion.phase # "none"

\* The dialog is modal, above the spinner as well.
Usable == open /\ dialog = "none"

-------------------------------------------------------------------------------
(* The map *)

\* Mutant: the selection is forgotten, but still drawn.
NewMapOldStyle == selected' = "none" /\ popup' = FALSE /\ UNCHANGED red

\* A view that is mounted starts without a selection.
NewMap == selected' = "none" /\ popup' = FALSE /\ red' = {}

TurnTo(v) == /\ view' = v
             /\ IF v = view THEN UNCHANGED <<selected, popup, red>> ELSE NewMap

\* The dialog belongs to an item, whose key is the run's.
KeepDialog ==
    dialog' = IF dialog \in Items(runs') /\ view' = view THEN dialog ELSE "none"

\* hasNewRuns: the features are made again, in the default style.
DrawRuns(new) == red' = IF new = runs THEN red ELSE {}

\* handleClick, on an item of the list, a feature or a name in the popup of several.
\* A selected run that is no longer there cannot be drawn unselected: that throws.
Click(r) ==
    /\ Usable /\ view = "map" /\ ~Covered
    /\ r \in Items(runs)
    /\ CASE selected = r ->
              selected' = "none" /\ popup' = FALSE /\ red' = red \ {r}
         [] selected \in Items(runs) \ {r} ->
              selected' = r /\ popup' = TRUE /\ red' = (red \ {selected}) \cup {r}
         [] selected = "none" ->
              selected' = r /\ popup' = TRUE /\ red' = red \cup {r}
         [] OTHER -> popup' = FALSE /\ UNCHANGED <<selected, red>>
    /\ UNCHANGED <<alive, request, deletion, store, confirmed, page, filter, view, dialog>>

\* The popup is only drawn for a feature that is there.
PopupShown == popup /\ selected \in Items(runs)
ClosePopup == PopupShown /\ Click(selected)

-------------------------------------------------------------------------------
(* Requests *)

\* getRuns, with the page's state s: the request before is cancelled.
MakeRunRequest(s) ==
    /\ request' = [phase |-> "sent", params |-> s, data |-> <<>>]
    /\ fetched' = FALSE

\* Mutant: the request does not wait for the state.
AskAtOnce(s) ==
    /\ state' = s /\ loading' = TRUE /\ UNCHANGED runs
    /\ MakeRunRequest(state)
    /\ UNCHANGED <<alive, deletion, got, confirmed, open, map>>

\* setState({..., loading: true}, this.makeRunRequest)
Ask(s) ==
    /\ state' = s /\ loading' = TRUE /\ UNCHANGED runs
    /\ MakeRunRequest(s)
    /\ UNCHANGED <<alive, deletion, got, confirmed, open, map>>

Poll ==
    /\ open /\ UNCHANGED runs /\ MakeRunRequest(state)
    /\ UNCHANGED <<alive, deletion, got, confirmed, page, filter, map>>

\* The server answers with those of its runs that fit, in the order asked for.
ServeRuns ==
    /\ request.phase = "sent"
    /\ \E l \in Lists : /\ Items(l) \subseteq alive /\ Len(l) <= request.params.size
                        /\ request' = [request EXCEPT !.phase = "answered", !.data = l]
    /\ UNCHANGED <<alive, deletion, store, confirmed, page, filter, map>>

\* RECEIVED_RUNS, and the page sees fetched become true.
ReceivedRuns ==
    /\ request.phase = "answered"
    /\ runs' = request.data /\ fetched' = TRUE /\ got' = request.params
    /\ request' = NoRequest'
    /\ loading' = (loading /\ (~open \/ fetched))
    /\ UNCHANGED <<view, selected, popup>> /\ DrawRuns(request.data) /\ KeepDialog
    /\ UNCHANGED <<alive, deletion, confirmed, open, state, filter>>

\* FETCH_RUNS_ERROR
FetchRunsError ==
    /\ request.phase # "none"
    /\ runs' = <<>> /\ fetched' = FALSE
    /\ request' = NoRequest
    /\ UNCHANGED <<view, selected, popup>> /\ DrawRuns(<<>>) /\ KeepDialog
    /\ UNCHANGED <<alive, deletion, got, confirmed, open, state, loading, filter>>

\* Without a response the handler of errors throws, and nothing waits any more.
Unanswered ==
    /\ request.phase # "none"
    /\ request' = NoRequest
    /\ UNCHANGED <<alive, deletion, store, confirmed, page, filter, map>>

-------------------------------------------------------------------------------
(* The page *)

Visit ==
    /\ ~open /\ open' = TRUE
    /\ \E q \in Queries :
           state' = [query |-> q, boxes |-> FALSE, size |-> 1]
    /\ loading' = TRUE
    /\ drawer' = FALSE /\ shared' = FALSE
    /\ NewMap /\ UNCHANGED <<view, dialog>>
    /\ request' = [phase |-> "sent", params |-> state', data |-> <<>>]
    /\ fetched' = FALSE
    /\ UNCHANGED <<alive, deletion, runs, got, confirmed>>

\* componentWillUnmount
Leave ==
    /\ open /\ open' = FALSE
    /\ loading' = TRUE /\ NewMap /\ dialog' = "none"
    /\ drawer' = FALSE /\ shared' = FALSE
    /\ UNCHANGED <<alive, request, deletion, runs, fetched, got, confirmed, state, view>>

\* The search bar.
Search(q) == Usable /\ Ask([state EXCEPT !.query = q]) /\ UNCHANGED filter

\* The menu "All DataPacks" and "My DataPacks".
HandleOwnerFilter(q) == Usable /\ Ask([state EXCEPT !.query = q]) /\ UNCHANGED filter

HandleSpatialFilter(q) == Ask([state EXCEPT !.query = q]) /\ UNCHANGED filter

\* The tools of the map, while it takes clicks.
MapTool == Usable /\ view = "map" /\ ~Covered

\* A drawing that is not valid, or has no extent, asks for nothing.
OnDrawEnd(q) == MapTool /\ HandleSpatialFilter(q)
SetMapView(q) == MapTool /\ HandleSpatialFilter(q)
HandleUp(q) == MapTool /\ HandleSpatialFilter(q)
HandleCancel(q) == MapTool /\ HandleSpatialFilter(q)

\* The file is read by the server, meanwhile the list may be asked for again.
HandleGeoJSONUpload(q) == open /\ view = "map" /\ HandleSpatialFilter(q)

\* A place that is a point is looked up; the answer may come after the map is gone.
CheckForSearchUpdate(q) == open /\ HandleSpatialFilter(q)

\* The menu of orders, which all views offer; the list has it on a narrow screen.  The
\* columns of the list call the handler unbound, which throws and changes nothing.
HandleSortChange(q) == Usable /\ Ask([state EXCEPT !.query = q]) /\ UNCHANGED filter

\* Object.assign(status, ...): the object the page may hold as well.
ToggleBox ==
    /\ Usable
    /\ drawer' = ~drawer
    /\ state' = IF shared THEN [state EXCEPT !.boxes = ~drawer] ELSE state
    /\ UNCHANGED <<alive, request, deletion, store, confirmed, open, loading, shared, map>>

HandleStatusChange == ToggleBox
HandleProvidersChange == ToggleBox

HandleFilterApply ==
    /\ Usable
    /\ Ask([state EXCEPT !.boxes = drawer])
    /\ shared' = TRUE /\ UNCHANGED drawer

HandleFilterClear ==
    /\ Usable
    /\ Ask([state EXCEPT !.boxes = FALSE])
    /\ drawer' = FALSE /\ shared' = FALSE

\* nextPage is that of the runs in the store.
CanLoadMore == Usable /\ ~Covered /\ Len(runs) = got.size
CanLoadLess == Usable /\ ~Covered /\ Len(runs) > 1

LoadMore ==
    /\ CanLoadMore /\ state.size < MaxPages
    /\ Ask([state EXCEPT !.size = @ + 1]) /\ UNCHANGED filter

LoadLess ==
    /\ CanLoadLess /\ state.size > 1
    /\ Ask([state EXCEPT !.size = @ - 1]) /\ UNCHANGED filter

\* No order is set that only the list has, so that none is given up.
ChangeView(v) ==
    /\ Usable /\ TurnTo(v)
    /\ UNCHANGED <<alive, request, deletion, store, confirmed, page, filter, dialog>>

-------------------------------------------------------------------------------
(* Deletion *)

\* The menu of an item of one's own; a poll may take the item and its dialog away.
ShowDeleteDialog(r) ==
    /\ Usable /\ ~Covered /\ r \in Items(runs)
    /\ dialog' = r
    /\ UNCHANGED <<alive, request, deletion, store, confirmed, page, filter>>
    /\ UNCHANGED <<view, selected, popup, red>>

\* Each view has items of its own.
MapItem(r) == view = "map" /\ ShowDeleteDialog(r)
GridItem(r) == view = "grid" /\ ShowDeleteDialog(r)
TableItem(r) == view = "list" /\ ShowDeleteDialog(r)

HideDeleteDialog ==
    /\ dialog # "none" /\ dialog' = "none"
    /\ UNCHANGED <<alive, request, deletion, store, confirmed, page, filter>>
    /\ UNCHANGED <<view, selected, popup, red>>

HandleDelete ==
    /\ dialog # "none" /\ dialog' = "none"
    /\ deletion' = [phase |-> "sent", run |-> dialog]
    /\ UNCHANGED <<alive, request, store, confirmed, page, filter>>
    /\ UNCHANGED <<view, selected, popup, red>>

ServeDelete ==
    /\ deletion.phase = "sent" /\ deletion.run \in alive
    /\ alive' = alive \ {deletion.run}
    /\ deletion' = [deletion EXCEPT !.phase = "answered"]
    /\ UNCHANGED <<request, store, confirmed, page, filter, map>>

\* Mutant: the list is not asked for again.
DeletedUnseen ==
    /\ deletion.phase = "answered" /\ deletion' = NoDeletion
    /\ confirmed' = confirmed \cup {deletion.run}
    /\ UNCHANGED <<alive, request, store, page, filter, map>>

\* DELETED_RUN
Deleted ==
    /\ deletion.phase = "answered" /\ deletion' = NoDeletion
    /\ confirmed' = confirmed \cup {deletion.run}
    /\ UNCHANGED runs
    /\ IF open THEN MakeRunRequest(state) /\ loading' = TRUE
       ELSE UNCHANGED <<request, fetched, loading>>
    /\ UNCHANGED <<alive, got, open, state, filter, map>>

\* DELETE_RUN_ERROR
DeleteFails ==
    /\ deletion.phase # "none" /\ deletion' = NoDeletion
    /\ UNCHANGED <<alive, request, store, confirmed, page, filter, map>>

\* A run is deleted by another client, or expires.
Vanish(r) ==
    /\ r \in alive /\ alive' = alive \ {r}
    /\ UNCHANGED <<request, deletion, store, confirmed, page, filter, map>>

-------------------------------------------------------------------------------
Init ==
    /\ alive = Runs
    /\ runs = <<>> /\ fetched = FALSE
    /\ state \in {p \in Params : ~p.boxes /\ p.size = 1}
    /\ got = state
    /\ request = NoRequest /\ deletion = NoDeletion /\ confirmed = {}
    /\ open = FALSE /\ loading = TRUE /\ view = "map"
    /\ drawer = FALSE /\ shared = FALSE
    /\ selected = "none" /\ popup = FALSE /\ red = {} /\ dialog = "none"

Next ==
    \/ Poll \/ ServeRuns \/ ReceivedRuns \/ FetchRunsError \/ Unanswered
    \/ Visit \/ Leave
    \/ \E q \in Queries : Search(q) \/ HandleOwnerFilter(q) \/ OnDrawEnd(q) \/ SetMapView(q) \/ HandleUp(q)
                          \/ HandleCancel(q) \/ HandleGeoJSONUpload(q) \/ CheckForSearchUpdate(q)
                          \/ HandleSortChange(q)
    \/ HandleStatusChange \/ HandleProvidersChange \/ HandleFilterApply \/ HandleFilterClear
    \/ LoadMore \/ LoadLess
    \/ \E v \in Views : ChangeView(v)
    \/ \E r \in Runs : Click(r) \/ MapItem(r) \/ GridItem(r) \/ TableItem(r) \/ Vanish(r)
    \/ ClosePopup \/ HideDeleteDialog \/ HandleDelete
    \/ ServeDelete \/ Deleted \/ DeleteFails

Spec == Init /\ [][Next]_vars
-------------------------------------------------------------------------------
(* Properties *)

TypeOK ==
    /\ alive \subseteq Runs /\ confirmed \subseteq Runs \ alive
    /\ request \in [phase : {"none", "sent", "answered"}, params : Params, data : Lists]
    /\ deletion \in [phase : {"none", "sent", "answered"}, run : Runs \cup {"none"}]
    /\ runs \in Lists /\ fetched \in BOOLEAN /\ got \in Params
    /\ open \in BOOLEAN /\ state \in Params /\ loading \in BOOLEAN
    /\ view \in Views
    /\ drawer \in BOOLEAN /\ shared \in BOOLEAN
    /\ selected \in Runs \cup {"none"} /\ popup \in BOOLEAN
    /\ red \subseteq {selected} /\ dialog \in Items(runs) \cup {"none"}

\* A list that is shown without a spinner is the answer to what the page asks for
\* now, whatever was asked before, cancelled or answered late; but for the boxes,
\* which the drawer may have changed behind the page's back.
ListAnswersState ==
    open /\ ~loading /\ request.phase = "none" /\ fetched =>
        /\ [got EXCEPT !.boxes = state.boxes] = state
        /\ ~shared => got = state

\* A run whose deletion has been confirmed is not shown again.
DeletedIsGone == open /\ ~loading => Items(runs) \cap confirmed = {}
===============================================================================
