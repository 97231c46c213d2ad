--------------------------- MODULE CreatePageProofs ----------------------------
(***************************************************************************)
(* The properties of CreatePage for any providers and any bounds on what   *)
(* is in flight.                                                           *)
(*                                                                         *)
(* That the overlay ends is not inductive: the page takes it away when it  *)
(* sees a success appear in the store, so it has to be known that none is  *)
(* there while a submission of this visit is in flight (Expected).         *)
(***************************************************************************)
EXTENDS CreatePage, TLAPS

\* No earlier success hides that of a submission in flight.
Expected == open /\ ~broken /\ posts.this > 0 => submit # "fetched"

IInv == TypeOK /\ Begun <= MaxPosts /\ OverlayEnds /\ Expected

\* The parts of the state, for the steps that change few of them.
PageOK == /\ {open, broken, modified, leaving, loading, error} \subseteq BOOLEAN
          /\ step \in 0..2
StoreOK == /\ {area, next} \subseteq BOOLEAN /\ info \in Info
           /\ submit \in {"clear", "fetching", "fetched", "error", "plain"}
ListedOK == /\ formats \in BOOLEAN
            /\ providers \in {"none", "bare", "pending", "known"} /\ checks \in 0..MaxChecks
            /\ lists \in [providers : 0..MaxLists, formats : BOOLEAN]
SendingOK == /\ {timers, posts} \subseteq [Visits -> 0..MaxPosts]
             /\ Begun <= MaxPosts
EditOK == edit \in [by : {"none", "mine", "stray"}, info : Info]
HistoryOK == unanswered \in BOOLEAN
ShownOK == open => submit \notin {"error", "plain"}
ClosedOK == ~open => step = 0 /\ posts.this = 0 /\ timers.this = 0

LEMMA Parts ==
    IInv <=> /\ PageOK /\ StoreOK /\ ListedOK /\ SendingOK /\ EditOK /\ HistoryOK
             /\ ShownOK /\ ClosedOK /\ OverlayEnds /\ Expected
BY DEF IInv, TypeOK, PageOK, StoreOK, ListedOK, SendingOK, EditOK, HistoryOK, ShownOK, ClosedOK

LEMMA NoInfoTyped == NoInfo \in Info
BY DEF NoInfo, Info

-------------------------------------------------------------------------------
(* Most steps leave the submissions and the overlay alone. *)

Quiet == /\ UNCHANGED <<open, loading, submit, sending, unanswered>>
         /\ broken => broken'

LEMMA QuietKeeps ==
    ASSUME IInv, Quiet
    PROVE  SendingOK' /\ HistoryOK' /\ OverlayEnds' /\ Expected'
BY Parts DEF Quiet, sending, SendingOK, Begun, HistoryOK, OverlayEnds, Expected

\* Such a step has to be looked at only for the part of the state it changes.
LEMMA QuietSteps ==
    ASSUME IInv, Quiet, PageOK', StoreOK', ListedOK', EditOK', ShownOK', ClosedOK'
    PROVE  IInv'
BY QuietKeeps, Parts, PTL

LEMMA EditAreaPreserves == ASSUME IInv, EditArea PROVE IInv'
<1> USE DEF EditArea, Modify, listed, sending
<1>1. Quiet BY DEF Quiet
<1>2. PageOK' /\ StoreOK' BY Parts DEF PageOK, StoreOK
<1>3. ListedOK' /\ EditOK' BY Parts DEF ListedOK, EditOK
<1>4. ShownOK' /\ ClosedOK' BY Parts DEF ShownOK, ClosedOK
<1> QED BY <1>1, <1>2, <1>3, <1>4, QuietSteps

LEMMA InfoReceivesTyped ==
    ASSUME info' \in Info, NEW enabled \in BOOLEAN, InfoReceives(enabled)
    PROVE  next' \in BOOLEAN
BY DEF InfoReceives, Complete, Info

LEMMA StrayAreaPreserves == ASSUME IInv, StrayArea PROVE IInv'
<1> USE DEF StrayArea, Modify, listed, sending
<1>1. Quiet BY DEF Quiet
<1>2. next' \in BOOLEAN
  <2>1. info' \in Info /\ next \in BOOLEAN BY Parts DEF StoreOK
  <2> QED BY <2>1, InfoReceivesTyped
<1>3. PageOK' BY Parts DEF PageOK
<1>4. StoreOK' BY <1>2, Parts DEF StoreOK
<1>5. ListedOK' /\ EditOK' BY Parts DEF ListedOK, EditOK
<1>6. ShownOK' /\ ClosedOK' BY Parts DEF ShownOK, ClosedOK
<1> QED BY <1>1, <1>3, <1>4, <1>5, <1>6, QuietSteps

LEMMA DropEditTyped == ASSUME IInv, DropEdit PROVE EditOK'
<1>1. edit \in [by : {"none", "mine", "stray"}, info : Info] /\ info \in Info
  BY Parts DEF EditOK, StoreOK
<1>2. edit.info.named \in BOOLEAN BY <1>1 DEF Info
<1>3. [info EXCEPT !.named = edit.info.named] \in Info BY <1>1, <1>2 DEF Info
<1> QED BY <1>1, <1>3 DEF DropEdit, EditOK

LEMMA MountInfoPreserves ==
    ASSUME IInv, MountInfo, open,
           UNCHANGED <<area, info, submit, formats, lists, open, leaving, loading, error, sending, unanswered>>,
           EditOK'
    PROVE  IInv'
<1> USE DEF MountInfo, sending
<1>1. Quiet BY DEF Quiet
<1>2. PageOK'
  <2>1. PageOK BY Parts
  <2>2. broken' \in BOOLEAN /\ modified' \in BOOLEAN BY <2>1 DEF PageOK
  <2>3. step' \in 0..2 OBVIOUS
  <2> QED BY <2>1, <2>2, <2>3 DEF PageOK
<1>3. StoreOK' BY Parts DEF StoreOK, Complete, Info
<1>4. checks' \in 0..MaxChecks
  <2>1. checks \in 0..MaxChecks /\ MaxChecks \in Nat BY Parts, BoundsAssumption DEF ListedOK
  <2> QED BY <2>1
<1>5. ListedOK' BY <1>4, Parts DEF ListedOK
<1>6. ShownOK' /\ ClosedOK' BY Parts DEF ShownOK, ClosedOK
<1> QED BY <1>1, <1>2, <1>3, <1>5, <1>6, QuietSteps

LEMMA HandleNextPreserves == ASSUME IInv, HandleNext PROVE IInv'
<1>0. open BY DEF HandleNext, CanGoOn, Usable
<1>1. CASE step = 0 /\ MountInfo /\ UNCHANGED edit
  <2>1. EditOK' BY <1>1, Parts DEF EditOK
  <2> QED BY <1>0, <1>1, <2>1, MountInfoPreserves DEF HandleNext
<1>2. CASE step = 1 /\ step' = 2 /\ DropEdit /\ UNCHANGED <<broken, providers, checks, modified, next>>
  <2> USE <1>2 DEF HandleNext, sending
  <2>1. Quiet BY DEF Quiet
  <2>2. PageOK' BY Parts DEF PageOK
  <2>3. StoreOK' /\ ListedOK' BY Parts DEF StoreOK, ListedOK
  <2>4. ShownOK' /\ ClosedOK' BY <1>0, Parts DEF ShownOK, ClosedOK
  <2>5. EditOK' BY DropEditTyped
  <2> QED BY <2>1, <2>2, <2>3, <2>4, <2>5, QuietSteps
<1> QED BY <1>1, <1>2 DEF HandleNext

LEMMA HandlePrevPreserves == ASSUME IInv, HandlePrev PROVE IInv'
<1>0. open BY DEF HandlePrev, CanGoBack, Usable
<1>1. CASE step = 2 /\ MountInfo /\ UNCHANGED edit
  <2>1. EditOK' BY <1>1, Parts DEF EditOK
  <2> QED BY <1>0, <1>1, <2>1, MountInfoPreserves DEF HandlePrev
<1>2. CASE /\ step = 1 /\ step' = 0 /\ DropEdit
           /\ next' = (next \/ area) /\ UNCHANGED <<broken, providers, checks, modified>>
  <2> USE <1>2 DEF HandlePrev, sending
  <2>1. Quiet BY DEF Quiet
  <2>2. PageOK' BY Parts DEF PageOK
  <2>3. StoreOK' /\ ListedOK' BY Parts DEF StoreOK, ListedOK
  <2>4. ShownOK' /\ ClosedOK' BY <1>0, Parts DEF ShownOK, ClosedOK
  <2>5. EditOK' BY DropEditTyped
  <2> QED BY <2>1, <2>2, <2>3, <2>4, <2>5, QuietSteps
<1> QED BY <1>1, <1>2 DEF HandlePrev

LEMMA OnNameChangePreserves ==
    ASSUME IInv, NEW n \in BOOLEAN, OnNameChange(n) PROVE IInv'
<1> USE DEF OnNameChange, store, listed, page, sending
<1>1. Quiet BY DEF Quiet
<1>2. PageOK' /\ StoreOK' BY Parts DEF PageOK, StoreOK
<1>3. ListedOK' BY Parts DEF ListedOK
<1>4. EditOK'
  <2>1. info \in Info BY Parts DEF StoreOK
  <2>2. [info EXCEPT !.named = n] \in Info BY <2>1 DEF Info
  <2> QED BY <2>2 DEF EditOK
<1>5. ShownOK' /\ ClosedOK' BY Parts DEF ShownOK, ClosedOK
<1> QED BY <1>1, <1>2, <1>3, <1>4, <1>5, QuietSteps

\* Both changes of what the user has entered keep the button as it should be.
LEMMA InfoChangePreserves ==
    ASSUME IInv, info' \in Info, EditOK', UNCHANGED area, InfoReceives(next), Modify,
           UNCHANGED <<submit, listed, open, broken, step, leaving, loading, error, sending, unanswered>>
    PROVE  IInv'
<1> USE DEF Modify, listed, sending
<1>1. Quiet BY DEF Quiet
<1>2. next' \in BOOLEAN
  <2>1. next \in BOOLEAN BY Parts DEF StoreOK
  <2> QED BY <2>1, InfoReceivesTyped
<1>3. PageOK' BY Parts DEF PageOK
<1>4. StoreOK' BY <1>2, Parts DEF StoreOK
<1>5. ListedOK' BY Parts DEF ListedOK
<1>6. ShownOK' /\ ClosedOK' BY Parts DEF ShownOK, ClosedOK
<1> QED BY <1>1, <1>3, <1>4, <1>5, <1>6, QuietSteps

LEMMA NameHandlerPreserves == ASSUME IInv, NameHandler PROVE IInv'
<1>1. edit \in [by : {"none", "mine", "stray"}, info : Info] /\ info \in Info
  BY Parts DEF EditOK, StoreOK
<1>2. edit.info \in Info /\ edit.info.named \in BOOLEAN BY <1>1 DEF Info
<1>3. [info EXCEPT !.named = edit.info.named] \in Info BY <1>1, <1>2 DEF Info
<1>4. info' \in Info BY <1>2, <1>3 DEF NameHandler
<1>5. EditOK' BY NoInfoTyped DEF NameHandler, NoEdit, EditOK
<1> QED BY <1>4, <1>5, InfoChangePreserves DEF NameHandler

LEMMA OnChangeCheckPreserves ==
    ASSUME IInv, NEW p \in Providers, OnChangeCheck(p) PROVE IInv'
<1>1. info \in Info BY Parts DEF StoreOK
<1>2. info' \in Info BY <1>1 DEF OnChangeCheck, Info
<1>3. EditOK' BY Parts DEF OnChangeCheck, EditOK
<1> QED BY <1>2, <1>3, InfoChangePreserves DEF OnChangeCheck

\* The lists and the checks are not what the user has entered.
LEMMA ListStepPreserves ==
    ASSUME IInv, ListedOK', broken' \in BOOLEAN, broken => broken',
           UNCHANGED <<store, open, step, modified, leaving, loading, error, sending, edit, unanswered>>
    PROVE  IInv'
<1> USE DEF store, sending
<1>1. Quiet BY DEF Quiet
<1>2. PageOK' /\ StoreOK' BY Parts DEF PageOK, StoreOK
<1>3. EditOK' BY Parts DEF EditOK
<1>4. ShownOK' /\ ClosedOK' BY Parts DEF ShownOK, ClosedOK
<1> QED BY <1>1, <1>2, <1>3, <1>4, QuietSteps

\* A counter of requests that go out or are answered.
LEMMA CountsDown ==
    ASSUME NEW n \in Nat, NEW c \in 0..n, c > 0 PROVE c - 1 \in 0..n
OBVIOUS

LEMMA BoundsTyped == MaxPosts \in Nat /\ MaxLists \in Nat /\ MaxChecks \in Nat /\ MaxPosts > 0
BY BoundsAssumption

LEMMA ListStepsPreserve ==
    ASSUME IInv, ProvidersReceived \/ FormatsReceived \/ ListFails \/ CheckAvailability \/ OnRefresh
    PROVE  IInv'
<1>1. ListedOK /\ broken \in BOOLEAN BY Parts DEF PageOK
<1>2. lists.providers \in 0..MaxLists BY <1>1 DEF ListedOK
<1>3. lists.providers > 0 => lists.providers - 1 \in 0..MaxLists
  BY <1>2, BoundsTyped, CountsDown
<1>4. checks > 0 => checks - 1 \in 0..MaxChecks
  BY <1>1, BoundsTyped, CountsDown DEF ListedOK
<1>5. checks < MaxChecks => checks + 1 \in 0..MaxChecks
  <2>1. checks \in 0..MaxChecks BY <1>1 DEF ListedOK
  <2> QED BY ONLY <2>1, BoundsTyped
<1>6. 0 \in 0..MaxChecks BY BoundsTyped
<1>7. CASE ProvidersReceived
  <2>1. ListedOK' BY <1>1, <1>3, <1>6, <1>7 DEF ProvidersReceived, ListedOK
  <2> QED BY <1>1, <1>7, <2>1, ListStepPreserves DEF ProvidersReceived, StatusIconThrows
<1>8. CASE FormatsReceived
  <2>1. ListedOK' BY <1>1, <1>8 DEF FormatsReceived, ListedOK
  <2> QED BY <1>1, <1>8, <2>1, ListStepPreserves DEF FormatsReceived, page
<1>9. CASE ListFails
  <2>1. ListedOK' BY <1>1, <1>3, <1>9 DEF ListFails, ListedOK
  <2> QED BY <1>1, <1>9, <2>1, ListStepPreserves DEF ListFails, page
<1>10. CASE CheckAvailability
  <2>1. ListedOK' BY <1>1, <1>4, <1>10 DEF CheckAvailability, ListedOK
  <2> QED BY <1>1, <1>10, <2>1, ListStepPreserves DEF CheckAvailability, page
<1>11. CASE OnRefresh
  <2>1. ListedOK' BY <1>1, <1>5, <1>11 DEF OnRefresh, ListedOK
  <2> QED BY <1>1, <1>11, <2>1, ListStepPreserves DEF OnRefresh, page
<1> QED BY <1>7, <1>8, <1>9, <1>10, <1>11

\* The dialogs.
LEMMA DialogsPreserve ==
    ASSUME IInv, HideError \/ HandleLeaveWarningDialogCancel PROVE IInv'
<1> USE DEF HideError, HandleLeaveWarningDialogCancel, store, listed, sending
<1>1. Quiet BY DEF Quiet
<1>2. PageOK' BY Parts DEF PageOK
<1>3. StoreOK' /\ ListedOK' BY Parts DEF StoreOK, ListedOK
<1>4. EditOK' BY Parts DEF EditOK
<1>5. ShownOK' /\ ClosedOK' BY Parts DEF ShownOK, ClosedOK
<1> QED BY <1>1, <1>2, <1>3, <1>4, <1>5, QuietSteps

-------------------------------------------------------------------------------
(* A visit begins and ends with nothing submitted. *)

LEMMA MountPreserves ==
    ASSUME IInv, NEW a \in BOOLEAN, NEW i \in Info, Mount(a, i) PROVE IInv'
<1> USE DEF Mount, sending
<1>1. PageOK'
  <2>1. broken' \in BOOLEAN BY DEF ShowError
  <2>2. error' \in BOOLEAN /\ loading' \in BOOLEAN BY DEF ShowError
  <2>3. step' = 0 /\ open' = TRUE /\ modified' = FALSE /\ leaving' = FALSE OBVIOUS
  <2>4. step' \in 0..2 BY ONLY <2>3
  <2> QED BY ONLY <2>1, <2>2, <2>3, <2>4 DEF PageOK
<1>2. StoreOK'
  <2>1. StoreOK BY Parts
  <2>2. submit' \in {"clear", "fetching", "fetched"} BY <2>1 DEF StoreOK, ShowError
  <2>3. next' \in BOOLEAN BY <2>1 DEF StoreOK, Info
  <2> QED BY <2>2, <2>3 DEF StoreOK
<1>3. ListedOK'
  <2>1. lists.providers \in 0..MaxLists BY Parts DEF ListedOK
  <2>2. lists.providers + 1 \in 0..MaxLists BY ONLY <2>1, BoundsTyped, lists.providers < MaxLists
  <2>3. checks' \in 0..MaxChecks
    <3>1. checks' = 0 OBVIOUS
    <3> QED BY ONLY <3>1, BoundsTyped
  <2>4. lists' \in [providers : 0..MaxLists, formats : BOOLEAN] BY <2>2
  <2>5. providers' = "none" /\ formats' = FALSE OBVIOUS
  <2> QED BY ONLY <2>3, <2>4, <2>5 DEF ListedOK
<1>4. SendingOK' /\ EditOK' /\ HistoryOK' BY Parts DEF SendingOK, Begun, EditOK, HistoryOK
<1>5. ShownOK'
  <2>1. submit' \notin {"error", "plain"} BY DEF ShowError
  <2> QED BY <2>1 DEF ShownOK
<1>6. ClosedOK' BY DEF ClosedOK
<1>7. OverlayEnds' /\ Expected'
  <2>1. posts.this = 0 /\ ~open BY Parts DEF ClosedOK
  <2>2. posts'.this = 0 /\ ~loading' BY <2>1 DEF ShowError
  <2> QED BY <2>2 DEF OverlayEnds, Expected
<1> QED BY <1>1, <1>2, <1>3, <1>4, <1>5, <1>6, <1>7, Parts, PTL

\* What is begun, counted by visit.
LEMMA SendingTyped ==
    ASSUME IInv
    PROVE  /\ timers \in [Visits -> 0..MaxPosts] /\ posts \in [Visits -> 0..MaxPosts]
           /\ timers.this \in Nat /\ timers.earlier \in Nat
           /\ posts.this \in Nat /\ posts.earlier \in Nat /\ MaxPosts \in Nat
           /\ timers.this + timers.earlier + posts.this + posts.earlier <= MaxPosts
<1>1. SendingOK /\ MaxPosts \in Nat BY Parts, BoundsTyped
<1>2. \A n \in 0..MaxPosts : n \in Nat BY ONLY <1>1
<1>3. {"this", "earlier"} \subseteq Visits BY DEF Visits
<1> QED BY ONLY <1>1, <1>2, <1>3 DEF SendingOK, Begun

LEMMA ClosePreserves ==
    ASSUME IInv, NEW p \in [Visits -> 0..MaxPosts],
           timers.this + timers.earlier + p.this + p.earlier <= MaxPosts,
           CloseAsEarlier(p), UNCHANGED <<next, listed>>
    PROVE  IInv'
<1> USE DEF CloseAsEarlier, Close, listed
<1>1. PageOK'
  <2>1. /\ step' = 0 /\ open' = FALSE /\ broken' = FALSE /\ modified' = FALSE
        /\ leaving' = FALSE /\ loading' = FALSE /\ error' = FALSE
    OBVIOUS
  <2>2. step' \in 0..2 BY ONLY <2>1
  <2> QED BY ONLY <2>1, <2>2 DEF PageOK
<1>2. StoreOK' BY NoInfoTyped, Parts DEF StoreOK
<1>3. ListedOK' BY Parts DEF ListedOK
<1>4. SendingOK' /\ posts'.this = 0 /\ timers'.this = 0
  <2>1. p.this \in 0..MaxPosts /\ p.earlier \in 0..MaxPosts BY DEF Visits
  <2> DEFINE t == timers.this + timers.earlier  q == p.this + p.earlier
  <2>2. t \in 0..MaxPosts /\ q \in 0..MaxPosts /\ t + q <= MaxPosts /\ 0 \in 0..MaxPosts
    BY ONLY SendingTyped, IInv, <2>1,
            timers.this + timers.earlier + p.this + p.earlier <= MaxPosts
  <2>3. timers' = [this |-> 0, earlier |-> t] /\ posts' = [this |-> 0, earlier |-> q]
    OBVIOUS
  <2> HIDE DEF t, q
  <2>4. {timers', posts'} \subseteq [Visits -> 0..MaxPosts] BY ONLY <2>2, <2>3 DEF Visits
  <2>5. Begun' <= MaxPosts BY ONLY <2>2, <2>3 DEF Begun
  <2> QED BY ONLY <2>3, <2>4, <2>5 DEF SendingOK
<1>5. EditOK' BY DropEditTyped
<1>6. HistoryOK' BY DEF HistoryOK
<1>7. ShownOK' /\ ClosedOK' BY <1>4 DEF ShownOK, ClosedOK
<1>8. OverlayEnds' /\ Expected' BY DEF OverlayEnds, Expected
<1> QED BY <1>1, <1>2, <1>3, <1>4, <1>5, <1>6, <1>7, <1>8, Parts, PTL

LEMMA LeavePreserves ==
    ASSUME IInv, Leave \/ HandleLeaveWarningDialogConfirm PROVE IInv'
<1>1. /\ posts \in [Visits -> 0..MaxPosts]
      /\ timers.this + timers.earlier + posts.this + posts.earlier <= MaxPosts
  BY SendingTyped
<1>2. CASE CloseAsEarlier(posts) /\ UNCHANGED <<next, listed>>
  BY <1>1, <1>2, ClosePreserves
<1>3. CASE /\ leaving' = TRUE
           /\ UNCHANGED <<store, listed, open, broken, step, modified, loading, error, sending, edit, unanswered>>
  <2> USE <1>3 DEF store, listed, sending
  <2>1. Quiet BY DEF Quiet
  <2>2. PageOK' BY Parts DEF PageOK
  <2>3. StoreOK' /\ ListedOK' BY Parts DEF StoreOK, ListedOK
  <2>4. EditOK' BY Parts DEF EditOK
  <2>5. ShownOK' /\ ClosedOK' BY Parts DEF ShownOK, ClosedOK
  <2> QED BY <2>1, <2>2, <2>3, <2>4, <2>5, QuietSteps
<1> QED BY <1>2, <1>3 DEF Leave, HandleLeaveWarningDialogConfirm

-------------------------------------------------------------------------------
(* Submissions.  The types of what they change, and then the overlay. *)

LEMMA SubmitDatapackPreserves == ASSUME IInv, SubmitDatapack PROVE IInv'
<1> USE DEF SubmitDatapack, store, listed
<1>0. open /\ step = 2 BY DEF CanGoOn, Usable
<1>1. PageOK' BY Parts DEF PageOK
<1>2. StoreOK' /\ ListedOK' BY Parts DEF StoreOK, ListedOK
<1>3. SendingOK' /\ timers'.this = timers.this + 1
  <2>1. /\ timers'.this = timers.this + 1 /\ timers'.earlier = timers.earlier
        /\ posts' = posts /\ timers' = [timers EXCEPT !.this = @ + 1]
    BY SendingTyped DEF Visits
  <2>2. timers.this + 1 \in 0..MaxPosts
    BY ONLY SendingTyped, IInv, Begun < MaxPosts DEF Begun
  <2>3. {timers', posts'} \subseteq [Visits -> 0..MaxPosts]
    BY ONLY <2>1, <2>2, SendingTyped, IInv
  <2>4. Begun' <= MaxPosts
    BY ONLY <2>1, SendingTyped, IInv, Begun < MaxPosts DEF Begun
  <2> QED BY ONLY <2>1, <2>3, <2>4 DEF SendingOK
<1>4. EditOK' BY Parts DEF EditOK
<1>5. HistoryOK' BY Parts DEF HistoryOK
<1>6. ShownOK' /\ ClosedOK' BY <1>0, Parts DEF ShownOK, ClosedOK
<1>7. OverlayEnds'
  <2>1. timers'.this > 0 BY ONLY <1>3, SendingTyped, IInv
  <2> QED BY <2>1 DEF OverlayEnds
<1>8. Expected' BY Parts DEF Expected
<1> QED BY <1>1, <1>2, <1>3, <1>4, <1>5, <1>6, <1>7, <1>8, Parts, PTL

\* A timeout moves one of the calls to the submissions.
LEMMA HandleSubmitPreserves == ASSUME IInv, NEW v \in Visits, HandleSubmit(v) PROVE IInv'
<1> USE DEF HandleSubmit, TimesOut, listed, page
<1>0. /\ timers \in [Visits -> 0..MaxPosts] /\ posts \in [Visits -> 0..MaxPosts]
      /\ timers[v] > 0 /\ timers' = [timers EXCEPT ![v] = @ - 1]
      /\ posts' = [posts EXCEPT ![v] = @ + 1]
  BY SendingTyped
<1>1. PageOK' BY Parts DEF PageOK
<1>2. StoreOK' /\ ListedOK' BY Parts DEF StoreOK, ListedOK
<1>3. /\ v = "this" => /\ posts'.this = posts.this + 1 /\ posts'.earlier = posts.earlier
                       /\ timers'.this = timers.this - 1 /\ timers'.earlier = timers.earlier
      /\ v = "earlier" => /\ posts'.earlier = posts.earlier + 1 /\ posts'.this = posts.this
                          /\ timers'.earlier = timers.earlier - 1 /\ timers'.this = timers.this
  BY ONLY <1>0 DEF Visits
<1>4. v = "this" \/ v = "earlier" BY DEF Visits
<1>5. SendingOK'
  <2>1. timers[v] - 1 \in 0..MaxPosts /\ posts[v] + 1 \in 0..MaxPosts
    <3>1. timers[v] \in Nat /\ posts[v] \in Nat /\ timers[v] + posts[v] <= MaxPosts
      BY ONLY <1>4, SendingTyped, IInv
    <3> QED BY ONLY <3>1, <1>0, SendingTyped, IInv
  <2>2. {timers', posts'} \subseteq [Visits -> 0..MaxPosts] BY ONLY <1>0, <2>1
  <2>3. Begun' <= MaxPosts BY ONLY <1>3, <1>4, SendingTyped, IInv DEF Begun
  <2> QED BY ONLY <2>2, <2>3 DEF SendingOK
<1>6. EditOK' BY Parts DEF EditOK
<1>7. HistoryOK' BY Parts DEF HistoryOK
<1>8. ShownOK' BY Parts DEF ShownOK
<1>9. ClosedOK'
  <2>1. ~open => timers.this = 0 /\ v # "this" BY <1>0, Parts DEF ClosedOK
  <2> QED BY <1>3, <1>4, <2>1, Parts DEF ClosedOK
<1>10. OverlayEnds'
  <2>1. v = "this" => posts'.this > 0 BY ONLY <1>3, SendingTyped, IInv
  <2> QED BY <1>3, <1>4, <2>1, Parts DEF OverlayEnds
<1>11. Expected' BY DEF Expected
<1> QED BY <1>1, <1>2, <1>5, <1>6, <1>7, <1>8, <1>9, <1>10, <1>11, Parts, PTL

\* One submission is no longer in flight.
LEMMA AnsweredTyped ==
    ASSUME IInv, NEW v \in Visits, posts[v] > 0
    PROVE  LET p == [posts EXCEPT ![v] = @ - 1]
           IN  /\ p \in [Visits -> 0..MaxPosts]
               /\ timers.this + timers.earlier + p.this + p.earlier <= MaxPosts
               /\ v = "this" => p.this = posts.this - 1
               /\ v # "this" => p.this = posts.this
               /\ p.this \in Nat /\ p.this <= posts.this
<1> DEFINE p == [posts EXCEPT ![v] = @ - 1]
<1>1. posts \in [Visits -> 0..MaxPosts] BY SendingTyped
<1>2. posts[v] - 1 \in 0..MaxPosts
  <2>1. posts[v] \in 0..MaxPosts BY <1>1
  <2> QED BY ONLY <2>1, posts[v] > 0, BoundsTyped
<1>3. p \in [Visits -> 0..MaxPosts] BY ONLY <1>1, <1>2
<1>4. /\ v = "this" => p.this = posts.this - 1 /\ p.earlier = posts.earlier
      /\ v = "earlier" => p.earlier = posts.earlier - 1 /\ p.this = posts.this
  BY ONLY <1>1 DEF Visits
<1>5. v = "this" \/ v = "earlier" BY DEF Visits
<1>6. p.this \in Nat
  <2>1. p.this \in 0..MaxPosts BY <1>3 DEF Visits
  <2> QED BY ONLY <2>1, BoundsTyped
<1>7. timers.this + timers.earlier + p.this + p.earlier <= MaxPosts /\ p.this <= posts.this
  BY ONLY <1>4, <1>5, SendingTyped, IInv
<1> QED BY <1>3, <1>4, <1>5, <1>6, <1>7

LEMMA AnswerTypes ==
    ASSUME IInv, NEW v \in Visits, Answered(v), UNCHANGED timers
    PROVE  /\ SendingOK' /\ posts'.this \in Nat /\ posts'.this <= posts.this
           /\ v # "this" => posts'.this = posts.this
           /\ ~open => v # "this" /\ posts'.this = 0 /\ timers'.this = 0
<1> USE DEF Answered
<1>1. /\ posts' \in [Visits -> 0..MaxPosts] /\ timers' = timers
      /\ timers.this + timers.earlier + posts'.this + posts'.earlier <= MaxPosts
      /\ posts'.this \in Nat /\ posts'.this <= posts.this
      /\ v # "this" => posts'.this = posts.this
  BY AnsweredTyped
<1>2. SendingOK' BY <1>1, SendingTyped DEF SendingOK, Begun
<1>3. ~open => posts.this = 0 /\ timers.this = 0 BY Parts DEF ClosedOK
<1>4. ~open => v # "this" BY <1>3
<1> QED BY <1>1, <1>2, <1>3, <1>4

LEMMA JobUnansweredPreserves ==
    ASSUME IInv, NEW v \in Visits, JobUnanswered(v) PROVE IInv'
<1> USE DEF JobUnanswered, store, listed, page
<1>1. /\ SendingOK' /\ posts'.this \in Nat /\ posts'.this <= posts.this
      /\ v # "this" => posts'.this = posts.this
      /\ ~open => posts'.this = 0 /\ timers'.this = 0
  BY AnswerTypes
<1>2. PageOK' BY Parts DEF PageOK
<1>3. StoreOK' /\ ListedOK' BY Parts DEF StoreOK, ListedOK
<1>4. EditOK' /\ HistoryOK' BY Parts DEF EditOK, HistoryOK
<1>5. ShownOK' /\ ClosedOK' BY <1>1, Parts DEF ShownOK, ClosedOK
<1>6. OverlayEnds' BY <1>1, Parts DEF OverlayEnds
<1>7. Expected'
  <2>1. posts'.this > 0 => posts.this > 0 BY ONLY <1>1, SendingTyped, IInv
  <2> QED BY <2>1, Parts DEF Expected
<1> QED BY <1>1, <1>2, <1>3, <1>4, <1>5, <1>6, <1>7, Parts, PTL

LEMMA JobSubmittedPreserves ==
    ASSUME IInv, NEW v \in Visits, JobSubmitted(v) PROVE IInv'
<1>1. CASE open /\ ~broken /\ submit # "fetched"
  <2>1. posts[v] > 0 /\ CloseAsEarlier([posts EXCEPT ![v] = @ - 1]) /\ UNCHANGED <<next, listed>>
    BY <1>1 DEF JobSubmitted
  <2> QED BY <2>1, AnsweredTyped, ClosePreserves
<1>2. CASE ~(open /\ ~broken /\ submit # "fetched")
  <2>0. /\ Answered(v) /\ submit' = "fetched"
        /\ UNCHANGED <<area, info, next, page, timers, edit, unanswered, listed>>
    BY <1>2 DEF JobSubmitted
  <2> USE <2>0 DEF page, listed
  <2>1. /\ SendingOK' /\ posts'.this \in Nat /\ posts'.this <= posts.this
        /\ v # "this" => posts'.this = posts.this
        /\ ~open => v # "this" /\ posts'.this = 0 /\ timers'.this = 0
    BY AnswerTypes
  <2>2. PageOK' BY Parts DEF PageOK
  <2>3. StoreOK' /\ ListedOK' BY Parts DEF StoreOK, ListedOK
  <2>4. EditOK' /\ HistoryOK' BY Parts DEF EditOK, HistoryOK
  <2>5. ShownOK' /\ ClosedOK' BY <2>1, Parts DEF ShownOK, ClosedOK
  <2>6. open /\ ~broken => v # "this" /\ ~(posts.this > 0)
    BY <1>2, Parts DEF Expected, Answered
  <2>7. OverlayEnds' BY <2>1, <2>6, Parts DEF OverlayEnds
  <2>8. Expected'
    <3>1. posts'.this > 0 => posts.this > 0 BY ONLY <2>1, SendingTyped, IInv
    <3> QED BY <2>6, <3>1 DEF Expected
  <2> QED BY <2>1, <2>2, <2>3, <2>4, <2>5, <2>7, <2>8, Parts, PTL
<1> QED BY <1>1, <1>2

LEMMA JobFailsPreserves ==
    ASSUME IInv, NEW v \in Visits, NEW kind \in {"error", "plain"}, JobFails(v, kind) PROVE IInv'
<1> USE DEF JobFails, listed
<1>0. /\ SendingOK' /\ posts'.this \in Nat /\ posts'.this <= posts.this
      /\ v # "this" => posts'.this = posts.this
      /\ ~open => v # "this" /\ posts'.this = 0 /\ timers'.this = 0
  BY AnswerTypes
<1>1. PageOK' BY Parts DEF PageOK, ShowError
<1>2. StoreOK' BY Parts DEF StoreOK, ShowError
<1>3. ListedOK' BY Parts DEF ListedOK
<1>4. EditOK' /\ HistoryOK' BY Parts DEF EditOK, HistoryOK
<1>5. ShownOK' BY DEF ShownOK, ShowError
<1>6. ClosedOK' BY <1>0, Parts DEF ClosedOK
<1>7. OverlayEnds' BY <1>0, Parts DEF OverlayEnds, ShowError
<1>8. Expected' BY DEF Expected, ShowError
<1> QED BY <1>0, <1>1, <1>2, <1>3, <1>4, <1>5, <1>6, <1>7, <1>8, Parts, PTL

-------------------------------------------------------------------------------
(* The theorems *)

LEMMA InitIInv == ASSUME Init PROVE IInv
<1> USE DEF Init
<1>1. PageOK
  <2>1. /\ step = 0 /\ open = FALSE /\ broken = FALSE /\ modified = FALSE
        /\ leaving = FALSE /\ loading = FALSE /\ error = FALSE
    OBVIOUS
  <2>2. step \in 0..2 BY ONLY <2>1
  <2> QED BY ONLY <2>1, <2>2 DEF PageOK
<1>2. StoreOK BY NoInfoTyped DEF StoreOK
<1>3. 0 \in 0..MaxPosts /\ 0 \in 0..MaxLists /\ 0 \in 0..MaxChecks BY ONLY BoundsTyped
<1>4. ListedOK
  <2>1. lists \in [providers : 0..MaxLists, formats : BOOLEAN] BY <1>3
  <2>2. checks \in 0..MaxChecks BY <1>3
  <2>3. providers = "none" /\ formats = FALSE OBVIOUS
  <2> QED BY ONLY <2>1, <2>2, <2>3 DEF ListedOK
<1>5. SendingOK
  <2>1. timers = Zero /\ posts = Zero /\ Zero \in [Visits -> 0..MaxPosts]
    BY <1>3 DEF Zero
  <2>2. Zero.this = 0 /\ Zero.earlier = 0 BY DEF Zero, Visits
  <2>3. Begun <= MaxPosts BY ONLY <2>1, <2>2, BoundsTyped DEF Begun
  <2> QED BY ONLY <2>1, <2>3 DEF SendingOK
<1>6. EditOK BY NoInfoTyped DEF EditOK, NoEdit
<1>7. HistoryOK BY DEF HistoryOK
<1>8. ShownOK /\ ClosedOK /\ OverlayEnds /\ Expected
  BY DEF ShownOK, ClosedOK, OverlayEnds, Expected, Zero, Visits
<1> QED BY <1>1, <1>2, <1>4, <1>5, <1>6, <1>7, <1>8, Parts

LEMMA StepIInv == ASSUME IInv, [Next]_vars PROVE IInv'
<1>1. CASE Visit \/ \E i \in Info : Clone(i)
  <2>1. area \in BOOLEAN /\ info \in Info BY Parts DEF StoreOK
  <2> QED BY <1>1, <2>1, MountPreserves DEF Visit, Clone
<1>2. CASE Leave \/ HandleLeaveWarningDialogConfirm BY <1>2, LeavePreserves
<1>3. CASE HandleLeaveWarningDialogCancel \/ HideError BY <1>3, DialogsPreserve
<1>4. CASE EditArea \/ StrayArea BY <1>4, EditAreaPreserves, StrayAreaPreserves
<1>5. CASE HandleNext \/ HandlePrev BY <1>5, HandleNextPreserves, HandlePrevPreserves
<1>6. CASE \E n \in BOOLEAN : OnNameChange(n) BY <1>6, OnNameChangePreserves
<1>7. CASE NameHandler BY <1>7, NameHandlerPreserves
<1>8. CASE \E p \in Providers : OnChangeCheck(p) BY <1>8, OnChangeCheckPreserves
<1>9. CASE ProvidersReceived \/ FormatsReceived \/ ListFails \/ CheckAvailability \/ OnRefresh
  BY <1>9, ListStepsPreserve
<1>10. CASE SubmitDatapack \/ \E v \in Visits : HandleSubmit(v)
  BY <1>10, SubmitDatapackPreserves, HandleSubmitPreserves
<1>11. CASE \E v \in Visits : JobSubmitted(v) \/ JobUnanswered(v)
  BY <1>11, JobSubmittedPreserves, JobUnansweredPreserves
<1>12. CASE \E v \in Visits : \E kind \in {"error", "plain"} : JobFails(v, kind)
  BY <1>12, JobFailsPreserves
<1>13. CASE UNCHANGED vars
  <2> USE <1>13 DEF vars, store, listed, page, sending
  <2>1. Quiet BY DEF Quiet
  <2>2. PageOK' BY Parts DEF PageOK
  <2>3. StoreOK' /\ ListedOK' BY Parts DEF StoreOK, ListedOK
  <2>4. EditOK' BY Parts DEF EditOK
  <2>5. ShownOK' /\ ClosedOK' BY Parts DEF ShownOK, ClosedOK
  <2> QED BY <2>1, <2>2, <2>3, <2>4, <2>5, QuietSteps
<1> QED BY <1>1, <1>2, <1>3, <1>4, <1>5, <1>6, <1>7, <1>8, <1>9, <1>10, <1>11, <1>12, <1>13 DEF Next

LEMMA Inductive == Spec => []IInv
BY InitIInv, StepIInv, PTL DEF Spec

\* Every state has the types the page's handlers rely on; a closed page keeps no
\* timeout of its own, and an open one never has an error left in the store.
THEOREM TypeCorrect == Spec => []TypeOK
<1>1. IInv => TypeOK BY DEF IInv
<1> QED BY <1>1, Inductive, PTL

\* The overlay of a submission is taken away by its answer, in whatever order it and the
\* submissions of earlier visits are answered: an earlier success is never taken for it.
THEOREM OverlayGoes == Spec => []OverlayEnds
<1>1. IInv => OverlayEnds BY DEF IInv
<1> QED BY <1>1, Inductive, PTL

\* Whatever shows an availability as being checked has begun a check.
LEMMA StepPending ==
    ASSUME IInv, PendingIsChecked, [Next]_vars PROVE PendingIsChecked'
<1>0. checks \in Nat BY Parts, BoundsTyped DEF ListedOK
<1>1. \/ UNCHANGED <<providers, checks>>
      \/ providers' # "pending"
      \/ checks' = checks + 1
  <2>1. CASE Visit \/ \E i \in Info : Clone(i) BY <2>1 DEF Visit, Clone, Mount
  <2>2. CASE Leave \/ HandleLeaveWarningDialogConfirm \/ HandleLeaveWarningDialogCancel \/ HideError
    BY <2>2 DEF Leave, HandleLeaveWarningDialogConfirm, HandleLeaveWarningDialogCancel, HideError, listed
  <2>3. CASE EditArea \/ StrayArea \/ NameHandler
    BY <2>3 DEF EditArea, StrayArea, NameHandler, listed
  <2>4. CASE HandleNext \/ HandlePrev BY <2>4 DEF HandleNext, HandlePrev, MountInfo
  <2>5. CASE \E n \in BOOLEAN : OnNameChange(n) BY <2>5 DEF OnNameChange, listed
  <2>6. CASE \E p \in Providers : OnChangeCheck(p) BY <2>6 DEF OnChangeCheck, listed
  <2>7. CASE ProvidersReceived \/ FormatsReceived \/ ListFails
    BY <2>7 DEF ProvidersReceived, FormatsReceived, ListFails
  <2>8. CASE CheckAvailability \/ OnRefresh BY <2>8 DEF CheckAvailability, OnRefresh
  <2>9. CASE SubmitDatapack \/ \E v \in Visits : HandleSubmit(v)
    BY <2>9 DEF SubmitDatapack, HandleSubmit, listed
  <2>10. CASE \E v \in Visits : JobSubmitted(v) \/ JobUnanswered(v)
    BY <2>10 DEF JobSubmitted, JobUnanswered, listed
  <2>11. CASE \E v \in Visits : \E kind \in {"error", "plain"} : JobFails(v, kind)
    BY <2>11 DEF JobFails, listed
  <2>12. CASE UNCHANGED vars BY <2>12 DEF vars, listed
  <2> QED
    BY <2>1, <2>2, <2>3, <2>4, <2>5, <2>6, <2>7, <2>8, <2>9, <2>10, <2>11, <2>12 DEF Next
<1>2. checks' = checks + 1 => checks' > 0 BY ONLY <1>0
<1> QED BY <1>1, <1>2 DEF PendingIsChecked

\* The wheel of a provider turns only while an answer is to come: no sequence of
\* visits, lists, refreshes and answers leaves one turning for ever.
THEOREM PendingChecked == Spec => []PendingIsChecked
<1>1. Init => PendingIsChecked BY DEF Init, PendingIsChecked
<1> QED BY <1>1, StepPending, Inductive, PTL DEF Spec

===============================================================================
