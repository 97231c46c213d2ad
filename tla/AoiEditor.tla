------------------------------- MODULE AoiEditor -------------------------------
(***************************************************************************)
(* The first step of creating a DataPack: an area of interest is drawn,    *)
(* searched for, imported or taken from the map, moved, buffered and       *)
(* reverted.  The page draws it; the store keeps it for the next steps.    *)
(* Look-ups and uploads are answered when the user may have done something *)
(* else, or has left.                                                      *)
(***************************************************************************)
EXTENDS Naturals, FiniteSets

CONSTANTS Shapes,
          Flat,       \* points and lines: shapes without an area
          MaxLookups, MaxUploads  \* bounds: those that wait for an answer

ASSUME ShapesAssumption == Flat \subseteq Shapes /\ "none" \notin Shapes /\ Shapes # Flat
ASSUME BoundsAssumption == {MaxLookups, MaxUploads} \subseteq Nat

Tools == {"box", "free", "mapView", "import", "search"}

\* A collection of features, told by the selection it was made from.
Geojson == [shape : Shapes \cup {"none"}, buffered : BOOLEAN]
Empty == [shape |-> "none", buffered |-> FALSE]
Select(s) == [shape |-> s, buffered |-> FALSE]

HasArea(g) == g # Empty /\ (g.buffered \/ g.shape \notin Flat)

\* bufferGeojson with polygons: a buffer of 0 is one of 1 meter.
Buffer(g) == [g EXCEPT !.buffered = TRUE]

\* What may be drawn: a polygon can be invalid, crossing itself or without width.
Feature(g, valid) == [geojson |-> g, valid |-> valid]
Features(g) == IF g = Empty THEN {} ELSE {Feature(g, TRUE)}

VARIABLES
    page,      \* the step that is open: the area, a later one, or no page to create
    broken,    \* the page has thrown while it was drawn
    aoi,       \* store: aoiInfo; without a selectionType it has no geomType either
    next,      \* store: stepperNextEnabled
    geocode,   \* store: geocode
    file,      \* store: importGeom is processed, has an error, or neither
    lookups,   \* look-ups for a place of the page, without an answer
    strays,    \* those of a page that has been left, with the buffer it had
    uploads,   \* files whose answer has not arrived
    tool,      \* toolbarIcons: the selected one, "none", or "inactive" if all are
    mode, sketch,  \* the mode of drawing, and whether a drawing has started
    drawn,     \* the features on the draw layer
    warning,   \* showInvalidDrawWarning
    dialogs,   \* the import, buffer, revert and error dialogs that are open
    valid,     \* validBuffer
    change,    \* the buffer that waits to be handled, if any
    preview,   \* this.bufferFeatures
    late       \* history: an answer has found the page busy with something else

store == <<aoi, next, geocode, file>>
answers == <<lookups, strays, uploads>>
drawing == <<tool, mode, sketch, drawn, warning>>
buffering == <<valid, change, preview>>
vars == <<page, broken, store, answers, drawing, dialogs, buffering, late>>

NoAoi == [geojson |-> Empty, original |-> Empty, selectionType |-> "null", buffer |-> 0]
Selection(s, type) ==
    [geojson |-> Select(s), original |-> Select(s), selectionType |-> type, buffer |-> aoi.buffer]

OnMap == page = "aoi" /\ ~broken
\* The dialogs cover the map and its tools, two of them everything else as well.
Usable == OnMap /\ dialogs = {}
Modal == {"import", "error"}
Opened(d) == OnMap /\ d \in dialogs /\ (d \in Modal \/ dialogs \cap Modal = {})
Open(d) == dialogs' = dialogs \cup {d}
Close(d) == Opened(d) /\ dialogs' = dialogs \ {d}

\* clearDraw, and the features that are added.
Redraw(features) == drawn' = features
\* Mutant: what was drawn before is not cleared.
AddToDrawn(features) == drawn' = drawn \cup features

EnableNextFor(g) == next' = (next \/ HasArea(g))

\* The bar below the map asks the geomType for its upper case.
Draw == broken' = (broken \/ (aoi'.geojson # Empty /\ aoi'.selectionType = "null"))

-------------------------------------------------------------------------------
(* Tools *)

\* A button takes clicks when no other is selected.
StartDraw(t) ==
    /\ Usable /\ tool = "none"
    /\ tool' = t /\ mode' = t /\ sketch' = FALSE
    /\ UNCHANGED <<page, broken, store, answers, drawn, warning, dialogs, buffering, late>>

DrawBox == StartDraw("box")
DrawFree == StartDraw("free")

HandleDrawStart ==
    /\ Usable /\ mode # "normal" /\ ~sketch
    /\ sketch' = TRUE /\ drawn' = {}
    /\ UNCHANGED <<page, broken, store, answers, tool, mode, warning, dialogs, buffering, late>>

\* The drawn feature is added to the layer in any case.  A drawing without an area is
\* not selected, and the mode stays.
HandleDrawEnd(s, isValid) ==
    /\ Usable /\ sketch /\ sketch' = FALSE
    /\ s \notin Flat
    /\ \/ /\ drawn' = drawn \cup {Feature(Select(s), FALSE)}
          /\ UNCHANGED <<aoi, next, mode, warning>>
       \/ /\ drawn' = drawn \cup {Feature(Select(s), isValid)}
          /\ mode' = "normal"
          /\ isValid \/ mode = "free"
          /\ IF isValid
             THEN aoi' = Selection(s, mode) /\ next' = TRUE /\ UNCHANGED warning
             ELSE warning' = TRUE /\ UNCHANGED <<aoi, next>>
    /\ UNCHANGED <<page, broken, geocode, file, answers, tool, dialogs, buffering, late>>

SetMapView(s) ==
    /\ s \notin Flat
    /\ Redraw({Feature(Select(s), TRUE)})
    /\ aoi' = Selection(s, "mapView") /\ next' = TRUE

MapViewButton(s) ==
    /\ Usable /\ tool = "none"
    /\ tool' = "mapView" /\ SetMapView(s)
    /\ UNCHANGED <<page, broken, geocode, file, answers, mode, sketch, warning, dialogs, buffering, late>>

\* A selected button is clicked: setAllButtonsDefault and handleCancel.
HandleCancel ==
    /\ Usable /\ tool \in Tools
    /\ tool' = "none" /\ mode' = "normal" /\ sketch' = FALSE
    /\ Redraw({}) /\ warning' = FALSE
    /\ aoi' = NoAoi /\ next' = FALSE
    /\ late' = FALSE
    /\ UNCHANGED <<page, broken, geocode, file, answers, dialogs, buffering>>

\* A vertex can be grabbed of polygons only.
CanGrab(f) == mode = "normal" /\ f \in drawn /\ HasArea(f.geojson)

\* A box stays one, and is always valid.
DraggedAsBox(f) == ~f.geojson.buffered /\ aoi.selectionType \in {"box", "mapView"}

\* A vertex of what is drawn is moved: downEvent, dragEvent, upEvent.
\* What is drawn becomes the area, but is only told by the feature that was moved.
MoveVertex(f, isValid) ==
    /\ Usable /\ CanGrab(f)
    /\ isValid \/ ~DraggedAsBox(f)
    /\ drawn' = (drawn \ {f}) \cup {Feature(f.geojson, isValid)}
    /\ warning' = ~isValid /\ next' = isValid
    /\ aoi' = IF isValid THEN [aoi EXCEPT !.geojson = f.geojson] ELSE aoi
    /\ Draw
    /\ UNCHANGED <<page, geocode, file, answers, tool, mode, sketch, dialogs, buffering, late>>

-------------------------------------------------------------------------------
(* Search *)

\* Two characters or more; the menu is empty until there is an answer.
SearchInput ==
    /\ Usable /\ tool \in {"none", "search"}
    /\ geocode' = "fetching"
    /\ UNCHANGED <<page, broken, aoi, next, file, answers, drawing, dialogs, buffering, late>>

\* An answer to whatever was asked.  An error has a type no reducer knows, so that
\* nothing is received then.
ReceivedGeocode ==
    /\ geocode = "fetching" /\ geocode' = "fetched"
    /\ UNCHANGED <<page, broken, aoi, next, file, answers, drawing, dialogs, buffering, late>>

\* Mutant: the drawing of an earlier search stays.
HandleSearchOverDrawn(s) ==
    /\ AddToDrawn({Feature(Select(s), TRUE)}) /\ warning' = FALSE
    /\ aoi' = Selection(s, "search") /\ EnableNextFor(Select(s))

\* The buffer of an earlier selection stays in the store, and so does the Next button.
HandleSearch(s) ==
    /\ Redraw({Feature(Select(s), TRUE)}) /\ warning' = FALSE
    /\ aoi' = Selection(s, "search") /\ EnableNextFor(Select(s))

\* handleEnter and checkForSearchUpdate: a point without a box is looked up first.
ChooseSuggestion(s) ==
    /\ Usable /\ tool \in {"none", "search"} /\ geocode = "fetched"
    /\ tool' = "search"
    /\ \/ HandleSearch(s) /\ UNCHANGED lookups
       \/ /\ s \in Flat /\ Cardinality(lookups) + Cardinality(strays) < MaxLookups
          /\ lookups' = lookups \cup {s}
          /\ UNCHANGED <<aoi, next, drawn, warning>>
    /\ UNCHANGED <<page, broken, geocode, file, strays, uploads, mode, sketch, dialogs, buffering, late>>

\* The place that was found, or else the one that was chosen.
LookupAnswered(s) ==
    /\ s \in lookups /\ lookups' = lookups \ {s}
    /\ \E found \in Shapes : HandleSearch(found)
    /\ late' = (late \/ tool # "search")
    /\ Draw
    /\ UNCHANGED <<page, geocode, file, strays, uploads, tool, mode, sketch, dialogs, buffering>>

\* The page that asked is gone, its map too: the store is all that changes.
StrayAnswered(l) ==
    /\ l \in strays /\ strays' = strays \ {l}
    /\ \E found \in Shapes :
           /\ aoi' = [Selection(found, "search") EXCEPT !.buffer = l.buffer]
           /\ EnableNextFor(Select(found))
    /\ late' = TRUE
    /\ UNCHANGED <<page, broken, geocode, file, lookups, uploads, drawing, dialogs, buffering>>

-------------------------------------------------------------------------------
(* Import *)

OpenImport ==
    /\ Usable /\ tool = "none"
    /\ tool' = "import" /\ Open("import")
    /\ UNCHANGED <<page, broken, store, answers, mode, sketch, drawn, warning, buffering, late>>

\* handleClear
CloseImport ==
    /\ Close("import") /\ tool' = "none"
    /\ UNCHANGED <<page, broken, store, answers, mode, sketch, drawn, warning, buffering, late>>

\* FILE_PROCESSING
DropFile(s) ==
    /\ Close("import")
    /\ Cardinality(uploads) < MaxUploads
    /\ uploads' = uploads \cup {s} /\ file' = "neither"
    /\ UNCHANGED <<page, broken, aoi, next, geocode, lookups, strays, drawing, buffering, late>>

IsLate == late' = (late \/ tool # "import" \/ dialogs # {} \/ aoi.geojson # Empty)

\* FILE_PROCESSED: the page sees that "processed" becomes true.
HandleGeoJSONUpload(s) ==
    /\ s \in uploads /\ uploads' = uploads \ {s}
    /\ file' = "processed"
    /\ IF OnMap /\ file # "processed"
       THEN /\ Redraw({Feature(Select(s), TRUE)})
            /\ aoi' = Selection(s, "import") /\ EnableNextFor(Select(s))
            /\ IsLate
       ELSE UNCHANGED <<aoi, next, drawn, late>>
    /\ UNCHANGED <<page, broken, geocode, lookups, strays, tool, mode, sketch, warning, dialogs, buffering>>

\* FILE_ERROR
UploadFails(s) ==
    /\ s \in uploads /\ uploads' = uploads \ {s}
    /\ file' = "error"
    /\ IF OnMap /\ file # "error"
       THEN tool' = "none" /\ Open("error") /\ IsLate
       ELSE UNCHANGED <<tool, dialogs, late>>
    /\ UNCHANGED <<page, broken, aoi, next, geocode, lookups, strays,
                   mode, sketch, drawn, warning, buffering>>

\* Without a response the handler throws, and the file stays in process.
UploadLost(s) ==
    /\ s \in uploads /\ uploads' = uploads \ {s}
    /\ UNCHANGED <<page, broken, store, lookups, strays, drawing, dialogs, buffering, late>>

\* handleErrorClear, FILE_RESET
ClearError ==
    /\ Close("error")
    /\ file' = "neither"
    /\ UNCHANGED <<page, broken, aoi, next, geocode, answers, drawing, buffering, late>>

-------------------------------------------------------------------------------
(* Buffers *)

\* The bar offers a buffer where the store has none, and to revert where it has one.
OpenBufferDialog ==
    /\ Usable /\ aoi.geojson # Empty /\ aoi.buffer = 0
    /\ Open("buffer")
    /\ UNCHANGED <<page, broken, store, answers, drawing, buffering, late>>

\* A value is typed or slid to: it is handled 50 ms later.
ChangeBuffer(b) ==
    /\ Opened("buffer")
    /\ change' = {b}
    /\ UNCHANGED <<page, broken, store, answers, drawing, dialogs, valid, preview, late>>

\* Mutant: the area is not looked at.
BufferWithoutCheck ==
    /\ OnMap /\ change' = {}
    /\ \E b \in change : aoi' = [aoi EXCEPT !.buffer = b]
    /\ valid' = TRUE /\ preview' = Buffer(aoi.geojson)
    /\ UNCHANGED <<page, broken, next, geocode, file, answers, drawing, dialogs, late>>

\* The dialog may have been closed since, and the area given up.
HandleBufferChange ==
    /\ OnMap /\ change' = {}
    /\ \E b \in change : aoi' = [aoi EXCEPT !.buffer = b]
    /\ valid' = (aoi.geojson # Empty)
    /\ preview' = IF aoi.geojson = Empty THEN preview ELSE Buffer(aoi.geojson)
    /\ UNCHANGED <<page, broken, next, geocode, file, answers, drawing, dialogs, late>>

\* The preview is that of the last change there was on this page, if any.
OnBufferClick ==
    /\ Close("buffer") /\ valid
    /\ IF preview = Empty THEN UNCHANGED <<aoi, next, drawn>>
       ELSE /\ Redraw({Feature(preview, TRUE)})
            /\ aoi' = [aoi EXCEPT !.geojson = preview] /\ next' = TRUE
    /\ UNCHANGED <<page, broken, geocode, file, answers, tool, mode, sketch, warning, buffering, late>>

CloseBufferDialog ==
    /\ Close("buffer")
    /\ valid' = TRUE
    /\ aoi' = [aoi EXCEPT !.buffer = 0]
    /\ UNCHANGED <<page, broken, next, geocode, file, answers, drawing, change, preview, late>>

OpenResetDialog ==
    /\ Usable /\ aoi.geojson # Empty /\ aoi.buffer # 0
    /\ Open("revert")
    /\ UNCHANGED <<page, broken, store, answers, drawing, buffering, late>>

CloseResetDialog ==
    /\ Close("revert")
    /\ UNCHANGED <<page, broken, store, answers, drawing, buffering, late>>

\* Mutant: the user can go on with what was reverted.
ResetKeepsNext ==
    /\ Close("revert")
    /\ Redraw(Features(aoi.original))
    /\ aoi' = [aoi EXCEPT !.geojson = aoi.original, !.buffer = 0]
    /\ UNCHANGED <<page, broken, next, geocode, file, answers, tool, mode, sketch, warning, buffering, late>>

ResetAoi ==
    /\ Close("revert")
    /\ Redraw(Features(aoi.original))
    /\ aoi' = [aoi EXCEPT !.geojson = aoi.original, !.buffer = 0]
    /\ next' = (next /\ HasArea(aoi.original))
    /\ UNCHANGED <<page, broken, geocode, file, answers, tool, mode, sketch, warning, buffering, late>>

-------------------------------------------------------------------------------
(* The steps *)

NewState ==
    /\ mode' = "normal" /\ sketch' = FALSE /\ warning' = FALSE
    /\ dialogs' = {} /\ valid' = TRUE /\ change' = {} /\ preview' = Empty

\* componentDidMount
Mount(enabled) ==
    /\ page' = "aoi" /\ NewState
    /\ drawn' = Features(aoi'.geojson)
    /\ tool' = IF aoi'.geojson = Empty THEN "none"
               ELSE IF aoi'.selectionType = "null" THEN "inactive" ELSE aoi'.selectionType
    /\ next' = (HasArea(aoi'.geojson) \/ enabled)
    /\ Draw

\* The page to create is opened.  Its parent is mounted last: without a name of the
\* DataPack there is no next step.
Visit ==
    /\ page = "away" /\ UNCHANGED aoi
    /\ page' = "aoi" /\ NewState /\ drawn' = Features(aoi.geojson)
    /\ tool' = IF aoi.geojson = Empty THEN "none" ELSE aoi.selectionType
    /\ next' = FALSE /\ Draw
    /\ UNCHANGED <<geocode, file, answers, late>>

\* cloneExport
Clone(s) ==
    /\ page = "away" /\ s \notin Flat
    /\ aoi' = [geojson |-> Select(s), original |-> Select(s), selectionType |-> "box", buffer |-> 0]
    /\ Mount(next)
    /\ late' = FALSE /\ UNCHANGED <<geocode, file, answers>>

Unmount ==
    /\ lookups' = {}
    /\ strays' = strays \cup {[shape |-> s, buffer |-> aoi.buffer] : s \in lookups}
    /\ NewState /\ tool' = "none" /\ drawn' = {} /\ broken' = FALSE

\* A change of the buffer that waits is handled when the page has gone; nothing else is
\* taken to happen in these 50 ms.
Outlived == {[aoi EXCEPT !.buffer = b] : b \in change}

\* The user goes on.
GoOn ==
    /\ OnMap /\ next /\ dialogs \cap Modal = {}
    /\ page' = "later" /\ Unmount
    /\ IF change = {} THEN UNCHANGED aoi ELSE aoi' \in Outlived
    /\ UNCHANGED <<next, geocode, file, uploads, late>>

\* The later steps enable and disable the Next button as well.
GoBack ==
    /\ page = "later" /\ UNCHANGED aoi
    /\ \E enabled \in BOOLEAN : Mount(enabled)
    /\ UNCHANGED <<geocode, file, answers, late>>

\* What was selected comes back to the store with a buffer that waited.  A page that has
\* thrown is left later than that.
Leave ==
    /\ page # "away"
    /\ page' = "away" /\ Unmount
    /\ IF change = {} \/ broken THEN aoi' = NoAoi ELSE aoi' \in Outlived
    /\ late' = FALSE
    /\ UNCHANGED <<next, geocode, file, uploads>>

-------------------------------------------------------------------------------
Init ==
    /\ page = "away" /\ broken = FALSE
    /\ aoi = NoAoi /\ next = FALSE /\ geocode = "none" /\ file = "neither"
    /\ lookups = {} /\ strays = {} /\ uploads = {}
    /\ tool = "none" /\ mode = "normal" /\ sketch = FALSE /\ drawn = {} /\ warning = FALSE
    /\ dialogs = {} /\ valid = TRUE /\ change = {} /\ preview = Empty
    /\ late = FALSE

Next ==
    \/ DrawBox \/ DrawFree \/ HandleDrawStart \/ HandleCancel
    \/ \E s \in Shapes :
           \/ \E isValid \in BOOLEAN : HandleDrawEnd(s, isValid)
           \/ MapViewButton(s) \/ ChooseSuggestion(s) \/ LookupAnswered(s)
           \/ DropFile(s) \/ HandleGeoJSONUpload(s) \/ UploadFails(s) \/ UploadLost(s)
           \/ Clone(s)
    \/ \E f \in drawn, isValid \in BOOLEAN : MoveVertex(f, isValid)
    \/ \E l \in strays : StrayAnswered(l)
    \/ SearchInput \/ ReceivedGeocode
    \/ OpenImport \/ CloseImport \/ ClearError
    \/ \E b \in {0, 1} : ChangeBuffer(b)
    \/ OpenBufferDialog \/ HandleBufferChange \/ OnBufferClick \/ CloseBufferDialog
    \/ OpenResetDialog \/ CloseResetDialog \/ ResetAoi
    \/ Visit \/ GoOn \/ GoBack \/ Leave

Spec == Init /\ [][Next]_vars
-------------------------------------------------------------------------------
(* Properties *)

TypeOK ==
    /\ page \in {"away", "aoi", "later"} /\ broken \in BOOLEAN
    /\ aoi \in [geojson : Geojson, original : Geojson,
                selectionType : Tools \cup {"null"}, buffer : {0, 1}]
    /\ aoi.geojson.shape = "none" => aoi.geojson = Empty
    /\ next \in BOOLEAN /\ geocode \in {"none", "fetching", "fetched"}
    /\ file \in {"neither", "processed", "error"}
    /\ lookups \subseteq Flat /\ strays \subseteq [shape : Flat, buffer : {0, 1}]
    /\ uploads \subseteq Shapes
    /\ tool \in Tools \cup {"none", "inactive"}
    /\ mode \in {"normal", "box", "free"} /\ sketch \in BOOLEAN
    /\ drawn \subseteq [geojson : Geojson, valid : BOOLEAN]
    /\ warning \in BOOLEAN
    /\ dialogs \subseteq {"import", "buffer", "revert", "error"}
    /\ valid \in BOOLEAN /\ change \subseteq {0, 1} /\ preview \in Geojson
    /\ late \in BOOLEAN
    /\ sketch => mode # "normal"

\* Unless something is being drawn, or is warned of as invalid, the map shows the
\* area of interest, as long as no answer has found the page busy with something else.
SelectionIsDrawn ==
    OnMap /\ ~late /\ mode = "normal" /\ ~warning => drawn = Features(aoi.geojson)

\* But for a second search the user does not go on with points or lines that have no buffer.
AreaBeforeNext ==
    OnMap /\ ~late /\ next /\ tool # "search" => HasArea(aoi.geojson)
===============================================================================
