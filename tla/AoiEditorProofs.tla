---------------------------- MODULE AoiEditorProofs ----------------------------
(***************************************************************************)
(* The safety properties of AoiEditor for any shapes and any number of     *)
(* lookups and uploads that wait for an answer.                            *)
(*                                                                         *)
(* The store, the layer of the map and the tool are three copies of what   *)
(* the user selected, which no action writes together.  What has to be     *)
(* known is which of them may be behind the others, and why: a tool that   *)
(* draws has emptied the layer and the store, a dialog over an area stays  *)
(* only while there is one, and whoever went on did so with an area in the *)
(* store that nothing since has taken away.                                *)
(***************************************************************************)
EXTENDS AoiEditor, TLAPS

\* What is selected has a shape; only the empty collection has none.
Area == [shape : Shapes, buffered : BOOLEAN] \cup {Empty}
Dialogs == {"import", "buffer", "revert", "error"}

\* The types, by the actions that disturb them.
AoiOK == aoi \in [geojson : Area, original : Area,
                  selectionType : Tools \cup {"null"}, buffer : {0, 1}]
StoreOK == /\ next \in BOOLEAN /\ geocode \in {"none", "fetching", "fetched"}
           /\ file \in {"neither", "processed", "error"}
AnswersOK == /\ lookups \subseteq Flat /\ strays \subseteq [shape : Flat, buffer : {0, 1}]
             /\ uploads \subseteq Shapes
ToolOK == /\ tool \in Tools \cup {"none", "inactive"}
          /\ mode \in {"normal", "box", "free"} /\ sketch \in BOOLEAN
          /\ sketch => mode # "normal"
DrawnOK == drawn \subseteq [geojson : Area, valid : BOOLEAN] /\ warning \in BOOLEAN
BufferOK == /\ valid \in BOOLEAN /\ change \subseteq {0, 1} /\ preview \in Area
            /\ preview # Empty => preview.buffered
PageOK == /\ page \in {"away", "aoi", "later"} /\ broken \in BOOLEAN /\ late \in BOOLEAN
          /\ dialogs \subseteq Dialogs
          /\ broken => page = "aoi"

\* A selection has an area to revert to, and an area that is drawn was selected.
SelectionTyped == /\ aoi.selectionType # "null" => aoi.geojson # Empty /\ aoi.original # Empty
                  /\ ~broken /\ aoi.geojson # Empty => aoi.selectionType # "null"

\* What is buffered or reverted stays while the dialog is open.
DialogsHaveArea == OnMap /\ dialogs \cap {"buffer", "revert"} # {} => aoi.geojson # Empty

\* No answer has disturbed the page.
Calm == OnMap /\ ~late

\* Without a tool nothing is selected, so that drawing and importing start from nothing.
NoToolNoArea == Calm /\ tool = "none" => aoi.geojson = Empty
DrawingAlone == Calm /\ mode # "normal" =>
    tool = mode /\ dialogs = {} /\ aoi.geojson = Empty /\ (sketch => drawn = {})
ImportAlone == Calm /\ "import" \in dialogs => tool = "import" /\ aoi.geojson = Empty

\* The tool that excuses a Next button is the one the area comes from.
SearchSelects == Calm /\ tool = "search" =>
    aoi.selectionType = "search" \/ (aoi.geojson = Empty /\ ~next)

\* A vertex that is moved is one of all that is drawn.
OneDrawn == Calm /\ mode = "normal" => \A f, g \in drawn : f = g

\* The user comes back to what was gone on with.
WentOnWithArea ==
    page = "later" /\ ~late => HasArea(aoi.geojson) \/ aoi.selectionType = "search"

Types == AoiOK /\ StoreOK /\ AnswersOK /\ ToolOK /\ DrawnOK /\ BufferOK /\ PageOK
Drawing == NoToolNoArea /\ DrawingAlone /\ ImportAlone /\ OneDrawn /\ SelectionIsDrawn
Going == SearchSelects /\ AreaBeforeNext /\ WentOnWithArea
IInv == Types /\ SelectionTyped /\ DialogsHaveArea /\ Drawing /\ Going

USE DEF store, answers, drawing, buffering

-------------------------------------------------------------------------------
(* Shapes and features *)

LEMMA EmptyFacts == Empty \in Area /\ ~HasArea(Empty)
BY DEF Area, HasArea

LEMMA SelectFacts ==
    ASSUME NEW s \in Shapes
    PROVE  /\ Select(s) \in Area /\ Select(s) # Empty
           /\ HasArea(Select(s)) <=> s \notin Flat
BY ShapesAssumption DEF Select, Empty, Area, HasArea

LEMMA BufferFacts ==
    ASSUME NEW g \in Area, g # Empty
    PROVE  Buffer(g) \in Area /\ Buffer(g) # Empty /\ Buffer(g).buffered
BY DEF Area, Buffer, Empty

LEMMA BufferedHasArea == ASSUME NEW g \in Area, g # Empty, g.buffered PROVE HasArea(g)
BY DEF HasArea

LEMMA FeatureFacts ==
    \A g, v : Feature(g, v).geojson = g /\ Feature(g, v).valid = v
BY DEF Feature

LEMMA FeatureTyped ==
    ASSUME NEW g \in Area, NEW v \in BOOLEAN
    PROVE  Feature(g, v) \in [geojson : Area, valid : BOOLEAN]
BY DEF Feature

LEMMA FeaturesFacts ==
    ASSUME NEW g \in Area
    PROVE  /\ Features(g) \subseteq [geojson : Area, valid : BOOLEAN]
           /\ \A f, h \in Features(g) : f = h
           /\ g # Empty => Features(g) = {Feature(g, TRUE)}
           /\ g = Empty => Features(g) = {}
BY FeatureTyped DEF Features

LEMMA SelectionTyping ==
    ASSUME AoiOK, NEW s \in Shapes, NEW t \in Tools
    PROVE  /\ Selection(s, t).geojson = Select(s) /\ Selection(s, t).original = Select(s)
           /\ Selection(s, t).selectionType = t /\ t # "null"
           /\ Selection(s, t) \in [geojson : Area, original : Area,
                                   selectionType : Tools \cup {"null"}, buffer : {0, 1}]
BY SelectFacts DEF Selection, AoiOK, Tools

-------------------------------------------------------------------------------
(* Steps that leave the area alone *)

\* The area and what is drawn are the same; dialogs may be closed.
SameArea == /\ UNCHANGED <<page, broken, next, drawing, late>>
            /\ aoi'.geojson = aoi.geojson /\ aoi'.original = aoi.original
            /\ aoi'.selectionType = aoi.selectionType

LEMMA SameAreaKeeps ==
    ASSUME IInv, SameArea, dialogs' \subseteq dialogs
    PROVE  SelectionTyped' /\ DialogsHaveArea' /\ Drawing' /\ Going'
<1> USE DEF IInv, SameArea, Calm, OnMap
<1>1. SelectionTyped' BY DEF SelectionTyped
<1>2. DialogsHaveArea' BY DEF DialogsHaveArea
<1>3. NoToolNoArea' /\ OneDrawn' BY DEF NoToolNoArea, OneDrawn, Drawing
<1>4. DrawingAlone' /\ ImportAlone' BY DEF DrawingAlone, ImportAlone, Drawing
<1>5. SelectionIsDrawn' BY DEF SelectionIsDrawn, Drawing
<1>6. Going' BY DEF Going, SearchSelects, AreaBeforeNext, WentOnWithArea
<1> QED BY <1>1, <1>2, <1>3, <1>4, <1>5, <1>6 DEF Drawing

LEMMA SameAreaSteps ==
    ASSUME IInv,
           \/ SearchInput \/ ReceivedGeocode \/ ClearError
           \/ \E s \in Shapes : DropFile(s) \/ UploadLost(s)
           \/ \E b \in {0, 1} : ChangeBuffer(b)
           \/ HandleBufferChange \/ CloseBufferDialog \/ CloseResetDialog
           \/ UNCHANGED vars
    PROVE  IInv'
<1> USE DEF IInv, Types, Close
<1>1. CASE SearchInput
  <2> USE <1>1 DEF SearchInput
  <2>1. Types' BY DEF AoiOK, StoreOK, AnswersOK, ToolOK, DrawnOK, BufferOK, PageOK
  <2> QED BY <2>1, SameAreaKeeps DEF SameArea
<1>2. CASE ReceivedGeocode
  <2> USE <1>2 DEF ReceivedGeocode
  <2>1. Types' BY DEF AoiOK, StoreOK, AnswersOK, ToolOK, DrawnOK, BufferOK, PageOK
  <2> QED BY <2>1, SameAreaKeeps DEF SameArea
<1>3. CASE ClearError
  <2> USE <1>3 DEF ClearError
  <2>1. Types' BY DEF AoiOK, StoreOK, AnswersOK, ToolOK, DrawnOK, BufferOK, PageOK
  <2> QED BY <2>1, SameAreaKeeps DEF SameArea
<1>4. ASSUME NEW s \in Shapes, DropFile(s) PROVE IInv'
  <2> USE <1>4 DEF DropFile
  <2>1. Types' BY DEF AoiOK, StoreOK, AnswersOK, ToolOK, DrawnOK, BufferOK, PageOK
  <2> QED BY <2>1, SameAreaKeeps DEF SameArea
<1>5. ASSUME NEW s \in Shapes, UploadLost(s) PROVE IInv'
  <2> USE <1>5 DEF UploadLost
  <2>1. Types' BY DEF AoiOK, StoreOK, AnswersOK, ToolOK, DrawnOK, BufferOK, PageOK
  <2> QED BY <2>1, SameAreaKeeps DEF SameArea
<1>6. ASSUME NEW b \in {0, 1}, ChangeBuffer(b) PROVE IInv'
  <2> USE <1>6 DEF ChangeBuffer
  <2>1. Types' BY DEF AoiOK, StoreOK, AnswersOK, ToolOK, DrawnOK, BufferOK, PageOK
  <2> QED BY <2>1, SameAreaKeeps DEF SameArea
<1>7. CASE HandleBufferChange
  <2> USE <1>7 DEF HandleBufferChange
  <2>1. PICK b \in change : aoi' = [aoi EXCEPT !.buffer = b] OBVIOUS
  <2>2. b \in {0, 1} BY DEF BufferOK
  <2>3. AoiOK' BY <2>1, <2>2 DEF AoiOK
  <2>4. SameArea BY <2>1 DEF SameArea, AoiOK
  <2>5. aoi.geojson \in Area BY DEF AoiOK
  <2>6. BufferOK' BY <2>5, BufferFacts DEF BufferOK
  <2>7. StoreOK' /\ AnswersOK' /\ ToolOK' /\ DrawnOK' /\ PageOK'
    BY DEF StoreOK, AnswersOK, ToolOK, DrawnOK, PageOK
  <2> QED BY <2>3, <2>4, <2>6, <2>7, SameAreaKeeps
<1>8. CASE CloseBufferDialog
  <2> USE <1>8 DEF CloseBufferDialog
  <2>1. Types' BY DEF AoiOK, StoreOK, AnswersOK, ToolOK, DrawnOK, BufferOK, PageOK
  <2>2. SameArea BY DEF SameArea, AoiOK
  <2> QED BY <2>1, <2>2, SameAreaKeeps
<1>9. CASE CloseResetDialog
  <2> USE <1>9 DEF CloseResetDialog
  <2>1. Types' BY DEF AoiOK, StoreOK, AnswersOK, ToolOK, DrawnOK, BufferOK, PageOK
  <2> QED BY <2>1, SameAreaKeeps DEF SameArea
<1>10. CASE UNCHANGED vars
  <2> USE <1>10 DEF vars
  <2>1. Types' BY DEF AoiOK, StoreOK, AnswersOK, ToolOK, DrawnOK, BufferOK, PageOK
  <2> QED BY <2>1, SameAreaKeeps DEF SameArea
<1> QED BY <1>1, <1>2, <1>3, <1>4, <1>5, <1>6, <1>7, <1>8, <1>9, <1>10

\* A dialog that needs an area is opened over one.
LEMMA OpenDialogSteps ==
    ASSUME IInv, OpenBufferDialog \/ OpenResetDialog PROVE IInv'
<1> USE DEF IInv, Types, OpenBufferDialog, OpenResetDialog, Open, Usable
<1>1. UNCHANGED <<page, broken, aoi, next, geocode, file, lookups, strays, uploads,
                  tool, mode, sketch, drawn, warning, valid, change, preview, late>>
  OBVIOUS
<1>2. /\ OnMap /\ aoi.geojson # Empty
      /\ dialogs = {} /\ dialogs' \subseteq {"buffer", "revert"}
  OBVIOUS
<1>3. Types'
  BY <1>1, <1>2 DEF AoiOK, StoreOK, AnswersOK, ToolOK, DrawnOK, BufferOK, PageOK, Dialogs
<1>4. SelectionTyped' /\ DialogsHaveArea' BY <1>1, <1>2 DEF SelectionTyped, DialogsHaveArea
<1>5. Drawing'
  <2> USE <1>1, <1>2 DEF Calm, OnMap, Drawing
  <2>1. mode = "normal" \/ late BY DEF DrawingAlone
  <2> QED BY <2>1 DEF NoToolNoArea, DrawingAlone, ImportAlone, OneDrawn, SelectionIsDrawn
<1>6. Going'
  BY <1>1 DEF Going, SearchSelects, AreaBeforeNext, WentOnWithArea, Calm, OnMap
<1> QED BY <1>3, <1>4, <1>5, <1>6

\* After a late answer, and where there is no map, little is claimed.
LEMMA LateKeeps ==
    ASSUME late' \/ ~OnMap', late' \/ page' # "later"
    PROVE  Drawing' /\ Going'
BY DEF Drawing, Going, Calm, OnMap, NoToolNoArea, DrawingAlone, ImportAlone, OneDrawn,
       SelectionIsDrawn, SearchSelects, AreaBeforeNext, WentOnWithArea

\* A selection of what is drawn, on a page in its normal mode.
LEMMA SelectionKeeps ==
    ASSUME IInv, NEW s \in Shapes, NEW t \in Tools,
           OnMap, mode' = "normal", sketch' = FALSE,
           drawn' = {Feature(Select(s), TRUE)}, aoi' = Selection(s, t),
           tool' # "none", "import" \notin dialogs',
           tool' = "search" => t = "search",
           next' => HasArea(Select(s)) \/ tool' = "search",
           page' = page
    PROVE  SelectionTyped' /\ DialogsHaveArea' /\ Drawing' /\ Going'
<1> USE DEF IInv, Types
<1>1. /\ aoi'.geojson = Select(s) /\ aoi'.original = Select(s)
      /\ aoi'.selectionType = t /\ t # "null" /\ Select(s) # Empty
  BY SelectionTyping, SelectFacts
<1>2. SelectionTyped' /\ DialogsHaveArea' BY <1>1 DEF SelectionTyped, DialogsHaveArea
<1>3. drawn' = Features(aoi'.geojson) BY <1>1 DEF Features
<1>4. Drawing'
  BY <1>1, <1>3 DEF Drawing, NoToolNoArea, DrawingAlone, ImportAlone, OneDrawn,
                    SelectionIsDrawn
<1>5. Going' BY <1>1 DEF Going, SearchSelects, AreaBeforeNext, WentOnWithArea, OnMap
<1> QED BY <1>2, <1>4, <1>5

-------------------------------------------------------------------------------
(* Tools *)

LEMMA StartDrawPreserves ==
    ASSUME IInv, NEW t \in {"box", "free"}, StartDraw(t) PROVE IInv'
<1> USE DEF IInv, Types, StartDraw, Usable, Calm, OnMap
<1>1. Types'
  <2>1. ToolOK' BY DEF ToolOK, Tools
  <2> QED BY <2>1 DEF AoiOK, StoreOK, AnswersOK, DrawnOK, BufferOK, PageOK
<1>2. SelectionTyped' /\ DialogsHaveArea' BY DEF SelectionTyped, DialogsHaveArea
<1>3. Drawing'
  BY DEF Drawing, NoToolNoArea, DrawingAlone, ImportAlone, OneDrawn, SelectionIsDrawn
<1>4. Going'
  BY DEF Going, SearchSelects, AreaBeforeNext, WentOnWithArea
<1> QED BY <1>1, <1>2, <1>3, <1>4

LEMMA HandleDrawStartPreserves == ASSUME IInv, HandleDrawStart PROVE IInv'
<1> USE DEF IInv, Types, HandleDrawStart, Usable, Calm, OnMap
<1>1. Types' BY DEF AoiOK, StoreOK, AnswersOK, ToolOK, DrawnOK, BufferOK, PageOK
<1>2. SelectionTyped' /\ DialogsHaveArea' BY DEF SelectionTyped, DialogsHaveArea
<1>3. Drawing'
  BY DEF Drawing, NoToolNoArea, DrawingAlone, ImportAlone, OneDrawn, SelectionIsDrawn
<1>4. Going' BY DEF Going, SearchSelects, AreaBeforeNext, WentOnWithArea
<1> QED BY <1>1, <1>2, <1>3, <1>4

LEMMA HandleDrawEndPreserves ==
    ASSUME IInv, NEW s \in Shapes, NEW isValid \in BOOLEAN, HandleDrawEnd(s, isValid)
    PROVE  IInv'
<1> USE DEF IInv, Types
<1>1. /\ Usable /\ sketch /\ sketch' = FALSE /\ s \notin Flat
      /\ UNCHANGED <<page, broken, geocode, file, lookups, strays, uploads, tool, dialogs,
                     valid, change, preview, late>>
  BY DEF HandleDrawEnd
<1>2. mode \in {"box", "free"} BY <1>1 DEF ToolOK
<1>3. StoreOK' /\ AoiOK' /\ drawn' \subseteq [geojson : Area, valid : BOOLEAN]
      /\ warning' \in BOOLEAN /\ mode' \in {mode, "normal"}
  <2>1. Select(s) \in Area /\ HasArea(Select(s)) BY <1>1, SelectFacts
  <2>2. /\ Feature(Select(s), FALSE) \in [geojson : Area, valid : BOOLEAN]
        /\ Feature(Select(s), isValid) \in [geojson : Area, valid : BOOLEAN]
    BY <2>1, FeatureTyped
  <2>3. mode \in Tools BY <1>2 DEF Tools
  <2>4. aoi' = aoi \/ aoi' = Selection(s, mode) BY DEF HandleDrawEnd
  <2>5. AoiOK' BY <2>3, <2>4, SelectionTyping DEF AoiOK
  <2> QED BY <1>1, <2>2, <2>5 DEF HandleDrawEnd, StoreOK, DrawnOK
<1>4. Types'
  BY <1>1, <1>2, <1>3 DEF AnswersOK, ToolOK, DrawnOK, BufferOK, PageOK
<1>5. CASE mode' = "normal" /\ isValid /\ aoi' = Selection(s, mode)
           /\ drawn' = drawn \cup {Feature(Select(s), isValid)} /\ next' = TRUE
  <2>1. CASE late
    <3>1. page' = "aoi" BY <1>1 DEF Usable, OnMap
    <3>2. Drawing' /\ Going' BY <1>1, <2>1, <3>1, LateKeeps
    <3>3. SelectionTyped' /\ DialogsHaveArea'
      BY <1>2, <1>5, SelectionTyping, SelectFacts DEF SelectionTyped, DialogsHaveArea, Tools
    <3> QED BY <1>4, <3>2, <3>3
  <2>2. CASE ~late
    <3>1. drawn = {} /\ tool = mode /\ dialogs = {}
      BY <1>1, <1>2, <2>2 DEF Drawing, DrawingAlone, Calm, Usable
    <3>2. drawn' = {Feature(Select(s), TRUE)} BY <1>5, <3>1
    <3>3. tool' # "none" /\ tool' # "search" /\ mode \in Tools BY <1>1, <1>2, <3>1 DEF Tools
    <3>4. HasArea(Select(s)) BY <1>1, SelectFacts
    <3> QED BY <1>1, <1>4, <1>5, <3>1, <3>2, <3>3, <3>4, SelectionKeeps DEF Usable
  <2> QED BY <2>1, <2>2
<1>6. CASE mode' = mode /\ aoi' = aoi /\ next' = next
  <2> USE <1>1, <1>2, <1>6 DEF Usable, Calm, OnMap
  <2>1. SelectionTyped' /\ DialogsHaveArea' BY DEF SelectionTyped, DialogsHaveArea
  <2>2. Drawing'
    BY DEF Drawing, NoToolNoArea, DrawingAlone, ImportAlone, OneDrawn, SelectionIsDrawn
  <2>3. Going' BY DEF Going, SearchSelects, AreaBeforeNext, WentOnWithArea
  <2> QED BY <1>4, <2>1, <2>2, <2>3
\* An invalid drawing is the only one there is, and is warned of.
<1>7. CASE mode' = "normal" /\ warning' = TRUE /\ aoi' = aoi /\ next' = next
           /\ drawn' = drawn \cup {Feature(Select(s), isValid)}
  <2> USE <1>1, <1>2, <1>7 DEF Usable, Calm, OnMap
  <2>1. SelectionTyped' /\ DialogsHaveArea' BY DEF SelectionTyped, DialogsHaveArea
  <2>2. ~late => drawn = {} BY DEF Drawing, DrawingAlone
  <2>3. Drawing'
    BY <2>2 DEF Drawing, NoToolNoArea, DrawingAlone, ImportAlone, OneDrawn, SelectionIsDrawn
  <2>4. Going' BY DEF Going, SearchSelects, AreaBeforeNext, WentOnWithArea
  <2> QED BY <1>4, <2>1, <2>3, <2>4
<1> QED BY <1>5, <1>6, <1>7 DEF HandleDrawEnd

LEMMA MapViewPreserves ==
    ASSUME IInv, NEW s \in Shapes, MapViewButton(s) PROVE IInv'
<1> USE DEF IInv, Types, MapViewButton, SetMapView, Redraw
<1>1. "mapView" \in Tools BY DEF Tools
<1>2. HasArea(Select(s)) /\ Select(s) \in Area BY SelectFacts
<1>3. Types'
  <2>1. AoiOK' BY <1>1, SelectionTyping DEF AoiOK
  <2>2. DrawnOK' BY <1>2, FeatureTyped DEF DrawnOK
  <2>3. StoreOK' /\ AnswersOK' /\ BufferOK' /\ PageOK'
    BY DEF StoreOK, AnswersOK, BufferOK, PageOK
  <2>4. ToolOK' BY DEF ToolOK, Tools
  <2> QED BY <2>1, <2>2, <2>3, <2>4
<1>4. CASE late
  <2>1. Drawing' /\ Going' BY <1>4, LateKeeps
  <2>2. SelectionTyped' /\ DialogsHaveArea'
    BY <1>1, SelectionTyping, SelectFacts DEF SelectionTyped, DialogsHaveArea
  <2> QED BY <1>3, <2>1, <2>2
<1>5. CASE ~late
  <2>1. OnMap /\ dialogs = {} BY DEF Usable
  <2>2. mode = "normal" /\ sketch = FALSE
    BY <1>5, <2>1 DEF Drawing, DrawingAlone, Calm, ToolOK
  <2> QED BY <1>1, <1>2, <1>3, <2>1, <2>2, SelectionKeeps
<1> QED BY <1>4, <1>5

LEMMA HandleCancelPreserves == ASSUME IInv, HandleCancel PROVE IInv'
<1> USE DEF IInv, Types, HandleCancel, Redraw, Usable
<1>1. AoiOK' BY EmptyFacts DEF AoiOK, NoAoi
<1>2. Types'
  BY <1>1 DEF StoreOK, AnswersOK, ToolOK, DrawnOK, BufferOK, PageOK
<1>3. SelectionTyped' /\ DialogsHaveArea' BY DEF SelectionTyped, DialogsHaveArea, NoAoi
<1>4. Drawing'
  BY DEF Drawing, NoToolNoArea, DrawingAlone, ImportAlone, OneDrawn, SelectionIsDrawn,
         Features, NoAoi
<1>5. Going' BY DEF Going, SearchSelects, AreaBeforeNext, WentOnWithArea, OnMap
<1> QED BY <1>2, <1>3, <1>4, <1>5

LEMMA MoveVertexPreserves ==
    ASSUME IInv, NEW f \in drawn, NEW isValid \in BOOLEAN, MoveVertex(f, isValid)
    PROVE  IInv'
<1> USE DEF IInv, Types
<1>1. /\ OnMap /\ dialogs = {} /\ mode = "normal" /\ HasArea(f.geojson)
      /\ drawn' = (drawn \ {f}) \cup {Feature(f.geojson, isValid)}
      /\ warning' = ~isValid /\ next' = isValid
      /\ aoi' = IF isValid THEN [aoi EXCEPT !.geojson = f.geojson] ELSE aoi
      /\ UNCHANGED <<page, geocode, file, lookups, strays, uploads, tool, mode, sketch,
                     dialogs, valid, change, preview, late>>
  BY DEF MoveVertex, Usable, CanGrab
<1>2. broken' = (broken \/ (aoi'.geojson # Empty /\ aoi'.selectionType = "null"))
  BY DEF MoveVertex, Draw
<1>3. f.geojson \in Area /\ f.geojson # Empty BY <1>1, EmptyFacts DEF DrawnOK
<1>4. /\ aoi'.original = aoi.original /\ aoi'.selectionType = aoi.selectionType
      /\ aoi'.geojson \in {aoi.geojson, f.geojson}
      /\ isValid => aoi'.geojson = f.geojson
      /\ ~isValid => aoi'.geojson = aoi.geojson
  BY <1>1 DEF AoiOK
<1>5. Types'
  <2>1. AoiOK' BY <1>1, <1>3 DEF AoiOK
  <2>2. DrawnOK' BY <1>1, <1>3, FeatureTyped DEF DrawnOK
  <2>3. PageOK' BY <1>1, <1>2 DEF PageOK, OnMap
  <2> QED BY <1>1, <2>1, <2>2, <2>3 DEF StoreOK, AnswersOK, ToolOK, BufferOK
<1>6. SelectionTyped' /\ DialogsHaveArea'
  BY <1>1, <1>2, <1>3, <1>4 DEF SelectionTyped, DialogsHaveArea, OnMap
\* Where nothing was selected the page throws.
<1>7. broken' \/ (aoi.geojson = Empty <=> aoi'.geojson = Empty)
  BY <1>1, <1>2, <1>3, <1>4 DEF SelectionTyped, OnMap
<1>8. Drawing'
  <2>1. Calm' => Calm /\ drawn' = {Feature(f.geojson, isValid)}
    BY <1>1 DEF Calm, OnMap, Drawing, OneDrawn
  <2>2. Features(f.geojson) = {Feature(f.geojson, TRUE)} BY <1>3, FeaturesFacts
  <2>3. NoToolNoArea' /\ DrawingAlone' /\ ImportAlone'
    BY <1>1, <1>7, <2>1 DEF Drawing, NoToolNoArea, DrawingAlone, ImportAlone, Calm, OnMap
  <2>4. OneDrawn' BY <2>1 DEF OneDrawn
  <2>5. SelectionIsDrawn' BY <1>1, <1>4, <2>1, <2>2 DEF SelectionIsDrawn, Calm
  <2> QED BY <2>3, <2>4, <2>5 DEF Drawing
<1>9. Going'
  <2>1. SearchSelects'
    BY <1>1, <1>3, <1>4, <1>7 DEF Going, SearchSelects, Calm, OnMap
  <2>2. AreaBeforeNext' BY <1>1, <1>4 DEF AreaBeforeNext
  <2>3. WentOnWithArea' BY <1>1 DEF WentOnWithArea, OnMap
  <2> QED BY <2>1, <2>2, <2>3 DEF Going
<1> QED BY <1>5, <1>6, <1>8, <1>9

-------------------------------------------------------------------------------
(* Search *)

\* A place that is found is selected and drawn.
LEMMA HandleSearchKeeps ==
    ASSUME IInv, NEW s \in Shapes, HandleSearch(s)
    PROVE  /\ AoiOK' /\ DrawnOK' /\ next' \in BOOLEAN
           /\ drawn' = {Feature(Select(s), TRUE)} /\ aoi' = Selection(s, "search")
           /\ aoi'.geojson # Empty /\ aoi'.original # Empty /\ aoi'.selectionType = "search"
<1> USE DEF IInv, Types, HandleSearch, Redraw, EnableNextFor
<1>1. "search" \in Tools BY DEF Tools
<1>2. Feature(Select(s), TRUE) \in [geojson : Area, valid : BOOLEAN]
  BY SelectFacts, FeatureTyped
<1>3. AoiOK' BY <1>1, SelectionTyping DEF AoiOK
<1>4. DrawnOK' BY <1>2 DEF DrawnOK
<1>5. next' \in BOOLEAN BY DEF StoreOK, HasArea
<1> QED BY <1>1, <1>3, <1>4, <1>5, SelectionTyping, SelectFacts

LEMMA ChooseSuggestionPreserves ==
    ASSUME IInv, NEW s \in Shapes, ChooseSuggestion(s) PROVE IInv'
<1> USE DEF IInv, Types
<1>1. /\ OnMap /\ dialogs = {} /\ tool \in {"none", "search"} /\ tool' = "search"
      /\ UNCHANGED <<page, broken, geocode, file, strays, uploads, mode, sketch, dialogs,
                     valid, change, preview, late>>
  BY DEF ChooseSuggestion, Usable
<1>2. lookups' \subseteq Flat BY DEF ChooseSuggestion, AnswersOK
<1>3. AnswersOK' /\ ToolOK' /\ BufferOK' /\ PageOK'
  BY <1>1, <1>2 DEF AnswersOK, ToolOK, Tools, BufferOK, PageOK
<1>4. ~late => mode = "normal" /\ sketch = FALSE
  BY <1>1 DEF Drawing, DrawingAlone, Calm, ToolOK
<1>5. CASE HandleSearch(s)
  <2>1. AoiOK' /\ DrawnOK' /\ StoreOK' BY <1>1, <1>5, HandleSearchKeeps DEF StoreOK
  <2>2. CASE late
    <3>1. Drawing' /\ Going' BY <1>1, <2>2, LateKeeps
    <3>2. SelectionTyped' /\ DialogsHaveArea'
      BY <1>5, HandleSearchKeeps DEF SelectionTyped, DialogsHaveArea
    <3> QED BY <1>3, <2>1, <3>1, <3>2
  <2>3. CASE ~late
    <3>1. "search" \in Tools BY DEF Tools
    <3>2. SelectionTyped' /\ DialogsHaveArea' /\ Drawing' /\ Going'
      BY <1>1, <1>4, <1>5, <2>3, <3>1, HandleSearchKeeps, SelectionKeeps
    <3> QED BY <1>3, <2>1, <3>2
  <2> QED BY <2>2, <2>3
<1>6. CASE UNCHANGED <<aoi, next, drawn, warning>>
  <2> USE <1>1, <1>6 DEF Calm, OnMap
  <2>1. AoiOK' /\ DrawnOK' /\ StoreOK' BY DEF AoiOK, DrawnOK, StoreOK
  <2>2. SelectionTyped' /\ DialogsHaveArea' BY DEF SelectionTyped, DialogsHaveArea
  <2>3. Drawing'
    BY <1>4 DEF Drawing, NoToolNoArea, DrawingAlone, ImportAlone, OneDrawn, SelectionIsDrawn
  <2>4. SearchSelects'
    <3>1. CASE tool = "none" /\ ~late
      <4>1. aoi.geojson = Empty BY <3>1 DEF Drawing, NoToolNoArea
      <4>2. ~next BY <3>1, <4>1, EmptyFacts DEF Going, AreaBeforeNext
      <4> QED BY <4>1, <4>2 DEF SearchSelects
    <3>2. CASE tool = "search" \/ late BY <3>2 DEF Going, SearchSelects
    <3> QED BY <3>1, <3>2
  <2>5. AreaBeforeNext' /\ WentOnWithArea' BY DEF AreaBeforeNext, WentOnWithArea
  <2> QED BY <1>3, <2>1, <2>2, <2>3, <2>4, <2>5 DEF Going
<1> QED BY <1>5, <1>6 DEF ChooseSuggestion

LEMMA LookupAnsweredPreserves ==
    ASSUME IInv, NEW s \in Shapes, LookupAnswered(s) PROVE IInv'
<1> USE DEF IInv, Types
<1>1. /\ lookups' \subseteq lookups /\ late' = (late \/ tool # "search")
      /\ UNCHANGED <<page, geocode, file, strays, uploads, tool, mode, sketch, dialogs,
                     valid, change, preview>>
  BY DEF LookupAnswered
<1>2. PICK found \in Shapes : HandleSearch(found) BY DEF LookupAnswered
<1>3. aoi'.selectionType = "search" /\ aoi'.geojson # Empty BY <1>2, HandleSearchKeeps
<1>4. broken' = broken BY <1>3 DEF LookupAnswered, Draw, PageOK
<1>5. Types'
  <2>1. AoiOK' /\ DrawnOK' /\ next' \in BOOLEAN BY <1>2, HandleSearchKeeps
  <2>2. StoreOK' /\ AnswersOK' BY <1>1, <2>1 DEF StoreOK, AnswersOK
  <2>3. ToolOK' /\ BufferOK' BY <1>1 DEF ToolOK, BufferOK
  <2>4. PageOK' BY <1>1, <1>4 DEF PageOK
  <2> QED BY <2>1, <2>2, <2>3, <2>4
<1>6. SelectionTyped' /\ DialogsHaveArea'
  BY <1>2, HandleSearchKeeps DEF SelectionTyped, DialogsHaveArea
<1>7. CASE late' \/ ~OnMap
  <2>1. CASE late' BY <1>5, <1>6, <2>1, LateKeeps
  <2>2. CASE ~OnMap
    <3>1. ~OnMap' BY <1>1, <1>4, <2>2 DEF OnMap
    <3>2. WentOnWithArea' BY <1>3 DEF WentOnWithArea
    <3>3. Drawing' /\ Going'
      BY <3>1, <3>2 DEF Drawing, Going, Calm, NoToolNoArea, DrawingAlone, ImportAlone,
                        OneDrawn, SelectionIsDrawn, SearchSelects, AreaBeforeNext
    <3> QED BY <1>5, <1>6, <3>3
  <2> QED BY <1>7, <2>1, <2>2
<1>8. CASE ~late' /\ OnMap
  <2>1. tool = "search" /\ Calm BY <1>1, <1>8 DEF Calm
  <2>2. mode = "normal" /\ sketch = FALSE /\ "import" \notin dialogs
    BY <2>1 DEF Drawing, DrawingAlone, ImportAlone, ToolOK
  <2>3. "search" \in Tools BY DEF Tools
  <2> QED BY <1>1, <1>2, <1>5, <1>8, <2>1, <2>2, <2>3, HandleSearchKeeps, SelectionKeeps
<1> QED BY <1>7, <1>8

LEMMA StrayAnsweredPreserves ==
    ASSUME IInv, NEW l \in strays, StrayAnswered(l) PROVE IInv'
<1> USE DEF IInv, Types
<1>1. /\ strays' \subseteq strays /\ late' = TRUE
      /\ UNCHANGED <<page, broken, geocode, file, lookups, uploads, tool, mode, sketch,
                     drawn, warning, dialogs, valid, change, preview>>
  BY DEF StrayAnswered
<1>2. PICK found \in Shapes :
          aoi' = [Selection(found, "search") EXCEPT !.buffer = l.buffer]
          /\ EnableNextFor(Select(found))
  BY DEF StrayAnswered
<1>3. "search" \in Tools /\ l.buffer \in {0, 1} BY DEF Tools, AnswersOK
<1>4. AoiOK' /\ aoi'.geojson # Empty /\ aoi'.original # Empty /\ aoi'.selectionType = "search"
  BY <1>2, <1>3, SelectionTyping, SelectFacts DEF AoiOK
<1>5. next' \in BOOLEAN BY <1>2 DEF EnableNextFor, HasArea, StoreOK
<1>6. Types'
  BY <1>1, <1>4, <1>5 DEF StoreOK, AnswersOK, ToolOK, DrawnOK, BufferOK, PageOK
<1>7. SelectionTyped' /\ DialogsHaveArea' BY <1>4 DEF SelectionTyped, DialogsHaveArea
<1> QED BY <1>1, <1>6, <1>7, LateKeeps

-------------------------------------------------------------------------------
(* Import *)

LEMMA OpenImportPreserves == ASSUME IInv, OpenImport PROVE IInv'
<1> USE DEF IInv, Types, OpenImport, Usable, Open, Calm, OnMap
<1>1. Types'
  <2>1. ToolOK' /\ PageOK' BY DEF ToolOK, Tools, PageOK, Dialogs
  <2> QED BY <2>1 DEF AoiOK, StoreOK, AnswersOK, DrawnOK, BufferOK
<1>2. SelectionTyped' /\ DialogsHaveArea' BY DEF SelectionTyped, DialogsHaveArea
<1>3. ~late => mode = "normal" /\ aoi.geojson = Empty
  BY DEF Drawing, DrawingAlone, NoToolNoArea, ToolOK
<1>4. Drawing'
  BY <1>3 DEF Drawing, NoToolNoArea, DrawingAlone, ImportAlone, OneDrawn, SelectionIsDrawn
<1>5. Going' BY DEF Going, SearchSelects, AreaBeforeNext, WentOnWithArea
<1> QED BY <1>1, <1>2, <1>4, <1>5

LEMMA CloseImportPreserves == ASSUME IInv, CloseImport PROVE IInv'
<1> USE DEF IInv, Types, CloseImport, Close, Opened, Calm, OnMap
<1>1. Types'
  <2>1. ToolOK' /\ PageOK' BY DEF ToolOK, PageOK
  <2> QED BY <2>1 DEF AoiOK, StoreOK, AnswersOK, DrawnOK, BufferOK
<1>2. SelectionTyped' /\ DialogsHaveArea' BY DEF SelectionTyped, DialogsHaveArea
<1>3. ~late => mode = "normal" /\ aoi.geojson = Empty /\ tool = "import"
  BY DEF Drawing, DrawingAlone, ImportAlone
<1>4. Drawing'
  BY <1>3 DEF Drawing, NoToolNoArea, DrawingAlone, ImportAlone, OneDrawn, SelectionIsDrawn
<1>5. Going' BY <1>3 DEF Going, SearchSelects, AreaBeforeNext, WentOnWithArea
<1> QED BY <1>1, <1>2, <1>4, <1>5

\* A file that arrives while its tool is selected and nothing else is becomes the area.
LEMMA UploadPreserves ==
    ASSUME IInv, NEW s \in Shapes, HandleGeoJSONUpload(s) PROVE IInv'
<1> USE DEF IInv, Types
<1>1. /\ uploads' \subseteq uploads /\ file' = "processed"
      /\ UNCHANGED <<page, broken, geocode, lookups, strays, tool, mode, sketch, warning,
                     dialogs, valid, change, preview>>
  BY DEF HandleGeoJSONUpload
<1>2. AnswersOK' /\ ToolOK' /\ BufferOK' BY <1>1 DEF AnswersOK, ToolOK, BufferOK
<1>3. CASE UNCHANGED <<aoi, next, drawn, late>>
  <2>1. AoiOK' /\ StoreOK' /\ DrawnOK' /\ PageOK'
    BY <1>1, <1>3 DEF AoiOK, StoreOK, DrawnOK, PageOK
  <2>2. SameArea BY <1>1, <1>3 DEF SameArea
  <2> QED BY <1>1, <1>2, <2>1, <2>2, SameAreaKeeps
<1>4. CASE /\ OnMap /\ drawn' = {Feature(Select(s), TRUE)}
           /\ aoi' = Selection(s, "import") /\ EnableNextFor(Select(s)) /\ IsLate
  <2>1. "import" \in Tools /\ Select(s) \in Area BY SelectFacts DEF Tools
  <2>2. late' = (late \/ tool # "import" \/ dialogs # {} \/ aoi.geojson # Empty)
    BY <1>4 DEF IsLate
  <2>3. next' = (next \/ HasArea(Select(s))) BY <1>4 DEF EnableNextFor
  <2>4. Types'
    <3>1. AoiOK' BY <1>4, <2>1, SelectionTyping DEF AoiOK
    <3>2. DrawnOK' BY <1>1, <1>4, <2>1, FeatureTyped DEF DrawnOK
    <3>3. StoreOK' BY <1>1, <2>3 DEF StoreOK, HasArea
    <3>4. PageOK' BY <1>1, <2>2 DEF PageOK
    <3> QED BY <1>2, <3>1, <3>2, <3>3, <3>4
  <2>5. CASE late'
    <3>1. Drawing' /\ Going' BY <2>5, LateKeeps
    <3>2. SelectionTyped' /\ DialogsHaveArea'
      BY <1>4, <2>1, SelectionTyping, SelectFacts DEF SelectionTyped, DialogsHaveArea
    <3> QED BY <2>4, <3>1, <3>2
  <2>6. CASE ~late'
    <3>1. Calm /\ tool = "import" /\ dialogs = {} /\ aoi.geojson = Empty
      BY <1>4, <2>2, <2>6 DEF Calm
    <3>2. mode = "normal" /\ sketch = FALSE BY <3>1 DEF Drawing, DrawingAlone, ToolOK
    <3>3. ~next BY <3>1, EmptyFacts DEF Going, AreaBeforeNext, Calm
    <3> QED BY <1>1, <1>4, <2>1, <2>3, <2>4, <3>1, <3>2, <3>3, SelectionKeeps
  <2> QED BY <2>4, <2>5, <2>6
<1> QED BY <1>3, <1>4 DEF HandleGeoJSONUpload, Redraw

LEMMA UploadFailsPreserves ==
    ASSUME IInv, NEW s \in Shapes, UploadFails(s) PROVE IInv'
<1> USE DEF IInv, Types
<1>1. /\ uploads' \subseteq uploads /\ file' = "error"
      /\ UNCHANGED <<page, broken, aoi, next, geocode, lookups, strays, mode, sketch, drawn,
                     warning, valid, change, preview>>
  BY DEF UploadFails
<1>2. AoiOK' /\ StoreOK' /\ AnswersOK' /\ DrawnOK' /\ BufferOK'
  BY <1>1 DEF AoiOK, StoreOK, AnswersOK, DrawnOK, BufferOK
<1>3. CASE UNCHANGED <<tool, dialogs, late>>
  <2>1. ToolOK' /\ PageOK' BY <1>1, <1>3 DEF ToolOK, PageOK
  <2>2. SameArea BY <1>1, <1>3 DEF SameArea
  <2> QED BY <1>2, <1>3, <2>1, <2>2, SameAreaKeeps
<1>4. CASE OnMap /\ tool' = "none" /\ Open("error") /\ IsLate
  <2>1. /\ dialogs' = dialogs \cup {"error"}
        /\ late' = (late \/ tool # "import" \/ dialogs # {} \/ aoi.geojson # Empty)
    BY <1>4 DEF Open, IsLate
  <2>2. ToolOK' /\ PageOK' BY <1>1, <1>4, <2>1 DEF ToolOK, PageOK, Dialogs
  <2>3. SelectionTyped' /\ DialogsHaveArea'
    BY <1>1, <2>1 DEF SelectionTyped, DialogsHaveArea, OnMap
  <2>4. CASE late'
    BY <1>2, <2>2, <2>3, <2>4, LateKeeps
  <2>5. CASE ~late'
    <3>1. Calm /\ tool = "import" /\ dialogs = {} /\ aoi.geojson = Empty
      BY <1>4, <2>1, <2>5 DEF Calm
    <3>2. mode = "normal" BY <3>1 DEF Drawing, DrawingAlone, ToolOK
    <3> USE <1>1, <1>4, <2>1, <3>1, <3>2 DEF Calm, OnMap
    <3>3. Drawing'
      BY DEF Drawing, NoToolNoArea, DrawingAlone, ImportAlone, OneDrawn, SelectionIsDrawn
    <3>4. Going' BY DEF Going, SearchSelects, AreaBeforeNext, WentOnWithArea
    <3> QED BY <1>2, <2>2, <2>3, <3>3, <3>4
  <2> QED BY <2>4, <2>5
<1> QED BY <1>3, <1>4 DEF UploadFails

-------------------------------------------------------------------------------
(* Buffers *)

\* The area is replaced by one that is drawn as well; the tool stays.
LEMMA ReplacedArea ==
    ASSUME IInv, OnMap, aoi.geojson # Empty, NEW g \in Area, g # Empty,
           drawn' = Features(g), aoi'.geojson = g,
           aoi'.original = aoi.original, aoi'.selectionType = aoi.selectionType,
           next' => HasArea(g), dialogs' \subseteq dialogs,
           UNCHANGED <<page, broken, tool, mode, sketch, warning, late>>
    PROVE  SelectionTyped' /\ DialogsHaveArea' /\ Drawing' /\ Going'
<1> USE DEF IInv, Types, Calm, OnMap
<1>1. SelectionTyped' /\ DialogsHaveArea' BY DEF SelectionTyped, DialogsHaveArea
<1>2. ~late => mode = "normal" /\ tool # "none" /\ "import" \notin dialogs
  BY DEF Drawing, DrawingAlone, NoToolNoArea, ImportAlone
<1>3. \A f, h \in Features(g) : f = h BY FeaturesFacts
<1>4. Drawing'
  BY <1>2, <1>3 DEF Drawing, NoToolNoArea, DrawingAlone, ImportAlone, OneDrawn,
                    SelectionIsDrawn
<1>5. Going' BY DEF Going, SearchSelects, AreaBeforeNext, WentOnWithArea
<1> QED BY <1>1, <1>4, <1>5

LEMMA OnBufferClickPreserves == ASSUME IInv, OnBufferClick PROVE IInv'
<1> USE DEF IInv, Types
<1>1. /\ OnMap /\ "buffer" \in dialogs /\ dialogs' \subseteq dialogs
      /\ UNCHANGED <<page, broken, geocode, file, lookups, strays, uploads, tool, mode,
                     sketch, warning, valid, change, preview, late>>
  BY DEF OnBufferClick, Close, Opened
<1>2. AnswersOK' /\ ToolOK' /\ BufferOK' /\ PageOK'
  BY <1>1 DEF AnswersOK, ToolOK, BufferOK, PageOK
<1>3. CASE preview = Empty
  <2>1. UNCHANGED <<aoi, next, drawn>> BY <1>3 DEF OnBufferClick
  <2>2. AoiOK' /\ StoreOK' /\ DrawnOK' BY <1>1, <2>1 DEF AoiOK, StoreOK, DrawnOK
  <2> QED BY <1>1, <1>2, <2>1, <2>2, SameAreaKeeps DEF SameArea
<1>4. CASE preview # Empty
  <2>1. /\ drawn' = {Feature(preview, TRUE)} /\ next' = TRUE
        /\ aoi' = [aoi EXCEPT !.geojson = preview]
    BY <1>4 DEF OnBufferClick, Redraw
  <2>2. preview \in Area /\ HasArea(preview) BY <1>4, BufferedHasArea DEF BufferOK
  <2>3. aoi.geojson # Empty BY <1>1 DEF DialogsHaveArea
  <2>4. /\ aoi'.geojson = preview /\ aoi'.original = aoi.original
        /\ aoi'.selectionType = aoi.selectionType /\ AoiOK'
    BY <2>1, <2>2 DEF AoiOK
  <2>5. drawn' = Features(preview) BY <1>4, <2>1, <2>2, FeaturesFacts
  <2>6. StoreOK' /\ DrawnOK' BY <1>1, <2>1, <2>2, FeatureTyped DEF StoreOK, DrawnOK
  <2> QED BY <1>1, <1>2, <1>4, <2>2, <2>3, <2>4, <2>5, <2>6, ReplacedArea
<1> QED BY <1>3, <1>4

LEMMA ResetAoiPreserves == ASSUME IInv, ResetAoi PROVE IInv'
<1> USE DEF IInv, Types
<1>1. /\ OnMap /\ "revert" \in dialogs /\ dialogs' \subseteq dialogs
      /\ drawn' = Features(aoi.original) /\ next' = (next /\ HasArea(aoi.original))
      /\ aoi' = [aoi EXCEPT !.geojson = aoi.original, !.buffer = 0]
      /\ UNCHANGED <<page, broken, geocode, file, lookups, strays, uploads, tool, mode,
                     sketch, warning, valid, change, preview, late>>
  BY DEF ResetAoi, Close, Opened, Redraw
<1>2. AnswersOK' /\ ToolOK' /\ BufferOK' /\ PageOK'
  BY <1>1 DEF AnswersOK, ToolOK, BufferOK, PageOK
<1>3. aoi.geojson # Empty /\ aoi.original # Empty
  BY <1>1 DEF DialogsHaveArea, SelectionTyped, OnMap
<1>4. aoi.original \in Area BY DEF AoiOK
<1>5. /\ aoi'.geojson = aoi.original /\ aoi'.original = aoi.original
      /\ aoi'.selectionType = aoi.selectionType /\ AoiOK'
  BY <1>1 DEF AoiOK
<1>6. StoreOK' /\ DrawnOK'
  BY <1>1, <1>4, FeaturesFacts DEF StoreOK, DrawnOK, HasArea
<1> QED BY <1>1, <1>2, <1>3, <1>4, <1>5, <1>6, ReplacedArea

-------------------------------------------------------------------------------
(* The steps *)

LEMMA NewStateTyped ==
    ASSUME NewState
    PROVE  /\ BufferOK' /\ sketch' = FALSE /\ mode' = "normal"
           /\ warning' = FALSE /\ dialogs' = {}
BY EmptyFacts DEF NewState, BufferOK

\* The page is opened over an area that was selected, if there is any.
LEMMA MountedKeeps ==
    ASSUME IInv, NewState, page' = "aoi", page # "aoi", AoiOK', Draw,
           aoi'.geojson # Empty => aoi'.selectionType # "null" /\ aoi'.original # Empty,
           aoi'.selectionType # "null" => aoi'.geojson # Empty,
           drawn' = Features(aoi'.geojson),
           tool' = IF aoi'.geojson = Empty THEN "none" ELSE aoi'.selectionType,
           late' \in BOOLEAN,
           next' => late' \/ HasArea(aoi'.geojson) \/ tool' = "search"
    PROVE  /\ ToolOK' /\ DrawnOK' /\ BufferOK' /\ PageOK'
           /\ SelectionTyped' /\ DialogsHaveArea' /\ Drawing' /\ Going'
<1> USE NewStateTyped DEF Calm, OnMap
<1>1. aoi'.geojson \in Area /\ aoi'.selectionType \in Tools \cup {"null"} BY DEF AoiOK
<1>2. broken' = FALSE BY DEF IInv, Types, PageOK, Draw
<1>3. ToolOK' /\ DrawnOK' /\ PageOK'
  <2>1. tool' \in Tools \cup {"none"} BY <1>1
  <2>2. ToolOK' BY <2>1 DEF ToolOK
  <2>3. DrawnOK' BY <1>1, FeaturesFacts DEF DrawnOK
  <2> QED BY <1>2, <2>2, <2>3 DEF PageOK
<1>4. SelectionTyped' /\ DialogsHaveArea' BY DEF SelectionTyped, DialogsHaveArea
<1>5. \A f, h \in drawn' : f = h BY <1>1, FeaturesFacts
<1>6. Drawing'
  BY <1>1, <1>5 DEF Drawing, NoToolNoArea, DrawingAlone, ImportAlone, OneDrawn,
                    SelectionIsDrawn, Tools
<1>7. Going' BY DEF Going, SearchSelects, AreaBeforeNext, WentOnWithArea
<1> QED BY <1>3, <1>4, <1>6, <1>7

LEMMA VisitPreserves == ASSUME IInv, Visit PROVE IInv'
<1> USE DEF IInv, Types
<1>1. /\ page = "away" /\ page' = "aoi" /\ NewState /\ drawn' = Features(aoi.geojson)
      /\ tool' = IF aoi.geojson = Empty THEN "none" ELSE aoi.selectionType
      /\ next' = FALSE /\ Draw
      /\ UNCHANGED <<aoi, geocode, file, lookups, strays, uploads, late>>
  BY DEF Visit
<1>2. AoiOK' /\ StoreOK' /\ AnswersOK' /\ late' \in BOOLEAN
  BY <1>1 DEF AoiOK, StoreOK, AnswersOK, PageOK
<1>3. /\ aoi'.geojson # Empty => aoi'.selectionType # "null" /\ aoi'.original # Empty
      /\ aoi'.selectionType # "null" => aoi'.geojson # Empty
  BY <1>1 DEF SelectionTyped, PageOK
<1> QED BY <1>1, <1>2, <1>3, MountedKeeps

LEMMA ClonePreserves == ASSUME IInv, NEW s \in Shapes, Clone(s) PROVE IInv'
<1> USE DEF IInv, Types
<1>1. /\ page = "away" /\ s \notin Flat
      /\ aoi' = [geojson |-> Select(s), original |-> Select(s), selectionType |-> "box",
                 buffer |-> 0]
      /\ Mount(next) /\ late' = FALSE
      /\ UNCHANGED <<geocode, file, lookups, strays, uploads>>
  BY DEF Clone
<1>2. Select(s) \in Area /\ Select(s) # Empty /\ HasArea(Select(s)) BY <1>1, SelectFacts
<1>3. AoiOK' BY <1>1, <1>2 DEF AoiOK, Tools
<1>4. /\ page' = "aoi" /\ NewState /\ drawn' = Features(aoi'.geojson) /\ Draw
      /\ tool' = "box" /\ next' = TRUE
  BY <1>1, <1>2 DEF Mount
<1>5. StoreOK' /\ AnswersOK' BY <1>1, <1>4 DEF StoreOK, AnswersOK
<1> QED BY <1>1, <1>2, <1>3, <1>4, <1>5, MountedKeeps

LEMMA GoBackPreserves == ASSUME IInv, GoBack PROVE IInv'
<1> USE DEF IInv, Types
<1>1. /\ page = "later" /\ UNCHANGED <<aoi, geocode, file, lookups, strays, uploads, late>>
      /\ page' = "aoi" /\ NewState /\ drawn' = Features(aoi'.geojson) /\ Draw
      /\ tool' = IF aoi'.geojson = Empty THEN "none"
                 ELSE IF aoi'.selectionType = "null" THEN "inactive" ELSE aoi'.selectionType
      /\ next' \in BOOLEAN
  BY DEF GoBack, Mount, HasArea
<1>2. AoiOK' /\ StoreOK' /\ AnswersOK' /\ late' \in BOOLEAN
  BY <1>1 DEF AoiOK, StoreOK, AnswersOK, PageOK
<1>3. /\ aoi'.geojson # Empty => aoi'.selectionType # "null" /\ aoi'.original # Empty
      /\ aoi'.selectionType # "null" => aoi'.geojson # Empty
  BY <1>1 DEF SelectionTyped, PageOK
<1>4. next' => late' \/ HasArea(aoi'.geojson) \/ tool' = "search"
  BY <1>1, <1>3 DEF Going, WentOnWithArea
<1> QED BY <1>1, <1>2, <1>3, <1>4, MountedKeeps

\* What is left is as it was; look-ups will be answered all the same.
LEMMA UnmountTyped ==
    ASSUME IInv, Unmount, page' \in {"away", "later"}, late' \in BOOLEAN, UNCHANGED uploads
    PROVE  AnswersOK' /\ ToolOK' /\ DrawnOK' /\ BufferOK' /\ PageOK' /\ ~OnMap'
<1> USE NewStateTyped DEF IInv, Types, Unmount
<1>1. AnswersOK' BY DEF AnswersOK, AoiOK
<1>2. ToolOK' /\ DrawnOK' BY DEF ToolOK, DrawnOK
<1> QED BY <1>1, <1>2 DEF PageOK, OnMap

LEMMA GoOnPreserves == ASSUME IInv, GoOn PROVE IInv'
<1> USE DEF IInv, Types
<1>1. /\ OnMap /\ next /\ page' = "later" /\ Unmount
      /\ UNCHANGED <<next, geocode, file, uploads, late>>
      /\ aoi' = aoi \/ \E b \in {0, 1} : aoi' = [aoi EXCEPT !.buffer = b]
  BY DEF GoOn, Outlived, BufferOK
<1>a. AoiOK' /\ aoi'.geojson = aoi.geojson /\ aoi'.original = aoi.original
      /\ aoi'.selectionType = aoi.selectionType
  BY <1>1 DEF AoiOK
<1>2. StoreOK' /\ late' \in BOOLEAN BY <1>1 DEF StoreOK, PageOK
<1>3. AnswersOK' /\ ToolOK' /\ DrawnOK' /\ BufferOK' /\ PageOK' /\ ~OnMap'
  BY <1>1, <1>2, UnmountTyped
<1>4. SelectionTyped' /\ DialogsHaveArea'
  BY <1>1, <1>a, <1>3 DEF SelectionTyped, DialogsHaveArea, OnMap, PageOK
<1>5. WentOnWithArea'
  BY <1>1, <1>a DEF WentOnWithArea, Going, SearchSelects, AreaBeforeNext, Calm
<1>6. Drawing' /\ Going'
  BY <1>3, <1>5 DEF Drawing, Going, Calm, NoToolNoArea, DrawingAlone, ImportAlone, OneDrawn,
                    SelectionIsDrawn, SearchSelects, AreaBeforeNext
<1> QED BY <1>a, <1>2, <1>3, <1>4, <1>6

LEMMA LeavePreserves == ASSUME IInv, Leave PROVE IInv'
<1> USE DEF IInv, Types
<1>1. /\ page' = "away" /\ Unmount /\ late' = FALSE
      /\ UNCHANGED <<next, geocode, file, uploads>>
      /\ aoi' = NoAoi \/ (~broken /\ \E b \in {0, 1} : aoi' = [aoi EXCEPT !.buffer = b])
  BY DEF Leave, Outlived, BufferOK
<1>a. AoiOK' /\ SelectionTyped'
  <2>1. broken' = FALSE BY <1>1 DEF Unmount
  <2>2. CASE aoi' = NoAoi BY <2>2, EmptyFacts DEF AoiOK, NoAoi, SelectionTyped
  <2>3. CASE ~broken /\ \E b \in {0, 1} : aoi' = [aoi EXCEPT !.buffer = b]
    BY <2>1, <2>3 DEF AoiOK, SelectionTyped
  <2> QED BY <1>1, <2>2, <2>3
<1>2. StoreOK' BY <1>1 DEF StoreOK
<1>3. AnswersOK' /\ ToolOK' /\ DrawnOK' /\ BufferOK' /\ PageOK' /\ ~OnMap'
  BY <1>1, UnmountTyped
<1>4. DialogsHaveArea' BY <1>3 DEF DialogsHaveArea
<1> QED BY <1>a, <1>1, <1>2, <1>3, <1>4, LateKeeps

-------------------------------------------------------------------------------
(* The theorems *)

LEMMA InitIInv == ASSUME Init PROVE IInv
<1> USE EmptyFacts DEF Init
<1>1. AoiOK /\ StoreOK /\ AnswersOK BY DEF AoiOK, NoAoi, StoreOK, AnswersOK
<1>2. ToolOK /\ DrawnOK /\ BufferOK /\ PageOK BY DEF ToolOK, DrawnOK, BufferOK, PageOK
<1>3. SelectionTyped /\ DialogsHaveArea BY DEF SelectionTyped, DialogsHaveArea, NoAoi, OnMap
<1>4. Drawing /\ Going
  BY DEF Drawing, Going, Calm, OnMap, NoToolNoArea, DrawingAlone, ImportAlone, OneDrawn,
         SelectionIsDrawn, SearchSelects, AreaBeforeNext, WentOnWithArea
<1> QED BY <1>1, <1>2, <1>3, <1>4 DEF IInv, Types

LEMMA Steps == ASSUME IInv, [Next]_vars PROVE IInv'
<1>1. CASE DrawBox \/ DrawFree \/ HandleDrawStart \/ HandleCancel
  BY <1>1, StartDrawPreserves, HandleDrawStartPreserves, HandleCancelPreserves
     DEF DrawBox, DrawFree
<1>2. ASSUME NEW s \in Shapes, NEW isValid \in BOOLEAN, HandleDrawEnd(s, isValid) PROVE IInv'
  BY <1>2, HandleDrawEndPreserves
<1>3. ASSUME NEW s \in Shapes,
             MapViewButton(s) \/ ChooseSuggestion(s) \/ LookupAnswered(s) \/ Clone(s)
      PROVE  IInv'
  BY <1>3, MapViewPreserves, ChooseSuggestionPreserves, LookupAnsweredPreserves,
     ClonePreserves
<1>4. ASSUME NEW s \in Shapes,
             DropFile(s) \/ HandleGeoJSONUpload(s) \/ UploadFails(s) \/ UploadLost(s)
      PROVE  IInv'
  BY <1>4, SameAreaSteps, UploadPreserves, UploadFailsPreserves
<1>5. CASE \E f \in drawn, isValid \in BOOLEAN : MoveVertex(f, isValid)
  BY <1>5, MoveVertexPreserves
<1>6. CASE \E l \in strays : StrayAnswered(l) BY <1>6, StrayAnsweredPreserves
<1>7. CASE \/ SearchInput \/ ReceivedGeocode \/ ClearError \/ HandleBufferChange
           \/ CloseBufferDialog \/ CloseResetDialog \/ UNCHANGED vars
           \/ \E b \in {0, 1} : ChangeBuffer(b)
  BY <1>7, SameAreaSteps
<1>8. CASE OpenImport \/ CloseImport BY <1>8, OpenImportPreserves, CloseImportPreserves
<1>9. CASE OpenBufferDialog \/ OpenResetDialog \/ OnBufferClick \/ ResetAoi
  BY <1>9, OpenDialogSteps, OnBufferClickPreserves, ResetAoiPreserves
<1>10. CASE Visit \/ GoOn \/ GoBack \/ Leave
  BY <1>10, VisitPreserves, GoOnPreserves, GoBackPreserves, LeavePreserves
<1> QED BY <1>1, <1>2, <1>3, <1>4, <1>5, <1>6, <1>7, <1>8, <1>9, <1>10 DEF Next

LEMMA Inductive == Spec => []IInv
<1>1. Init => IInv BY InitIInv
<1>2. IInv /\ [Next]_vars => IInv' BY Steps
<1> QED BY <1>1, <1>2, PTL DEF Spec

\* Every state has the types the handlers rely on, no empty collection is buffered, and
\* nothing is being drawn outside a mode of drawing.
THEOREM TypeCorrect == Spec => []TypeOK
<1>1. IInv => TypeOK
  <2> SUFFICES ASSUME IInv PROVE TypeOK OBVIOUS
  <2> USE DEF IInv, Types
  <2>1. Area \subseteq Geojson
    <3>1. Empty \in Geojson BY DEF Geojson, Empty
    <3>2. [shape : Shapes, buffered : BOOLEAN] \subseteq Geojson BY DEF Geojson
    <3> QED BY <3>1, <3>2 DEF Area
  <2>2. aoi.geojson.shape = "none" => aoi.geojson = Empty
    BY ShapesAssumption DEF AoiOK, Area
  <2>3. aoi \in [geojson : Geojson, original : Geojson,
                 selectionType : Tools \cup {"null"}, buffer : {0, 1}]
    BY <2>1 DEF AoiOK
  <2>4. drawn \subseteq [geojson : Geojson, valid : BOOLEAN] BY <2>1 DEF DrawnOK
  <2> QED
    BY <2>1, <2>2, <2>3, <2>4 DEF TypeOK, StoreOK, AnswersOK, ToolOK, DrawnOK, BufferOK,
                                  PageOK, Dialogs
<1> QED BY <1>1, Inductive, PTL

\* Unless something is being drawn or warned of, or an answer found the page busy with
\* something else, the map shows the area of interest, whatever was searched for,
\* imported, moved, buffered and reverted.
THEOREM ShownIsSelected == Spec => []SelectionIsDrawn
<1>1. IInv => SelectionIsDrawn BY DEF IInv, Drawing
<1> QED BY <1>1, Inductive, PTL

\* Nobody goes on with points or lines alone, but for what was searched for.
THEOREM AreaFirst == Spec => []AreaBeforeNext
<1>1. IInv => AreaBeforeNext BY DEF IInv, Going
<1> QED BY <1>1, Inductive, PTL
===============================================================================
