--------------------------- MODULE GroupsPageProofs ----------------------------
(***************************************************************************)
(* The properties of GroupsPage for any users and groups and any bounds.   *)
(*                                                                         *)
(* A list is old when a change was made after it was read.  What has to be *)
(* known is that, while no change may be missed, an old list is either     *)
(* replaced by one that was asked for, or of a change whose answer has not *)
(* come; and that the answer makes the page ask again.                     *)
(***************************************************************************)
EXTENDS GroupsPage, TLAPS

Change == [kind : Kinds \cup {"none"}, group : Groups \cup {None},
           what : {"nothing", "members", "admins", "name", "leave"},
           stage : {"asked", "ok", "bad"},
           members : SUBSET Users, admins : SUBSET Users]

\* The changes in flight; all but new groups are of a group.
Flying(i) == changes[i].kind # "none"

ServerOK == server \in [Groups -> Group]
ChangesOK ==
    /\ changes \in [Places -> Change]
    /\ \A i \in Places : /\ Flying(i) \/ changes[i] = NoChange
                         /\ changes[i].kind \in {"update", "delete"} => changes[i].group \in Groups
SentOK == sent \in [mine : 0..MaxChanges, others : 0..MaxOthers]

\* A list has the groups that are there.
Lists == {list \in [Groups -> Group] : \A g \in Groups : list[g] = Gone \/ list[g].is = "there"}
GroupsOK == /\ groups \in [is : {"none", "list"}, list : Lists, fresh : BOOLEAN]
            /\ getGroups \in [stage : {"none", "asked", "served", "lost"}, list : Lists,
                              fresh : BOOLEAN]
            /\ missed \in BOOLEAN
FlagsOK == /\ doing \in [Kinds -> BOOLEAN] /\ done \in [Kinds -> BOOLEAN]
           /\ \A k \in Kinds : ~(doing[k] /\ done[k])
PeopleOK == /\ users \subseteq Others /\ getUsers \in 0..MaxUsers
            /\ fetching \in BOOLEAN /\ fetched \in BOOLEAN /\ crossed \in BOOLEAN
PageOK == /\ open \in BOOLEAN /\ broken \in BOOLEAN /\ showCreate \in BOOLEAN
          /\ selected \subseteq Others /\ createUsers \subseteq Others
          /\ selection \in Groups \cup {None} /\ menu \in Others \cup {Header, None}
Drawn == open /\ ~broken /\ selection # None => groups.list[selection] # Gone

Types == ServerOK /\ ChangesOK /\ SentOK /\ GroupsOK /\ FlagsOK /\ PeopleOK /\ PageOK /\ Drawn

\* While nothing may be missed, every change on its way is the one the page waits for.
Awaited ==
    ~missed =>
        /\ \A i \in Places : Flying(i) => doing[changes[i].kind]
        /\ \A i, j \in Places : Flying(i) /\ changes[i].kind = changes[j].kind => i = j

\* The page waits for the answer to a change of kind k that the server has dealt with.
Owed(k) == doing[k] /\ \A i \in Places : changes[i].kind = k => changes[i].stage = "ok"

\* What an open page has, or will get, is up to date, or it waits for such an answer.
OldIsAwaited ==
    open /\ ~missed =>
        /\ ~getGroups.fresh => \E k \in Kinds : Owed(k)
        /\ groups.is = "list" /\ ~groups.fresh =>
              getGroups.stage # "none" \/ \E k \in Kinds : Owed(k)

\* A request for the users that is alone will be noticed when it is answered.
AnswerNoticed == ~crossed => getUsers <= 1 /\ (getUsers = 1 => ~fetched)
ClosedSelectsNothing == ~open => selected = {} /\ selection = None

IInv == /\ Types /\ Awaited /\ OldIsAwaited
        /\ AnswerNoticed /\ ClosedSelectsNothing /\ SelectionIsListed

USE DEF data, lists, people, status, page

-------------------------------------------------------------------------------
(* What the steps are made of *)

LEMMA NothingTyped ==
    /\ NoChange \in Change /\ ~(NoChange.kind \in Kinds) /\ NoChange.kind = "none"
    /\ NoList \in Lists
    /\ Gone \in Group
BY DEF NoChange, Change, Kinds, NoList, Lists, Gone, Group

LEMMA PermissionsTyped ==
    ASSUME ServerOK, NEW g \in Groups, NEW m \in SUBSET Users, NEW a \in SUBSET Users
    PROVE  [server EXCEPT ![g].members = m, ![g].admins = a] \in [Groups -> Group]
<1>1. server[g] \in Group BY DEF ServerOK
<1>2. [[server[g] EXCEPT !.members = m] EXCEPT !.admins = a] \in Group BY <1>1 DEF Group
<1>3. [server EXCEPT ![g].members = m, ![g].admins = a]
         = [server EXCEPT ![g] = [[server[g] EXCEPT !.members = m] EXCEPT !.admins = a]]
  BY <1>1 DEF ServerOK
<1> QED BY <1>2, <1>3 DEF ServerOK

LEMMA ListingTyped == ASSUME ServerOK PROVE Listing(server) \in Lists
BY NothingTyped DEF ServerOK, Listing, Lists, Group, Gone

\* A change keeps what it does not write.
LEMMA Untouched ==
    ASSUME Awaited, OldIsAwaited, open' => open,
           UNCHANGED <<changes, doing, groups, getGroups, missed>>
    PROVE  Awaited' /\ OldIsAwaited'
BY DEF Awaited, OldIsAwaited, Owed, Flying

\* What is drawn is in the list, or the page has thrown.
LEMMA DrawPreserves == ASSUME GroupsOK', PageOK', Draw PROVE Drawn'
BY DEF Drawn, Draw, PageOK

\* A new request for the groups: whatever list there is, it will be replaced.
LEMMA AskGroups ==
    ASSUME GroupsOK, GetGroups, UNCHANGED groups
    PROVE  /\ GroupsOK' /\ OldIsAwaited'
           /\ ~missed' => ~missed \/ \A i \in Places : changes'[i] = NoChange
<1>1. NoGet \in [stage : {"none", "asked", "served", "lost"}, list : Lists, fresh : BOOLEAN]
  BY NothingTyped DEF NoGet
<1>2. /\ getGroups' \in [stage : {"none", "asked", "served", "lost"}, list : Lists,
                         fresh : BOOLEAN]
      /\ getGroups'.stage = "asked" /\ getGroups'.fresh = TRUE
  BY <1>1 DEF GetGroups, NoGet
<1>3. missed' \in BOOLEAN BY DEF GetGroups, GroupsOK
<1> QED BY <1>2, <1>3 DEF GetGroups, GroupsOK, OldIsAwaited

LEMMA AskUsers ==
    ASSUME PeopleOK, AnswerNoticed, MakeUserRequest
    PROVE  PeopleOK' /\ AnswerNoticed' /\ users' = users /\ (~crossed' => ~crossed)
<1>1. getUsers \in 0..MaxUsers /\ getUsers < MaxUsers /\ getUsers' = getUsers + 1
  BY DEF PeopleOK, MakeUserRequest
<1>2. getUsers' \in 0..MaxUsers BY <1>1, BoundsAssumption
<1>3. /\ fetching' = TRUE /\ fetched' = FALSE /\ users' = users /\ crossed' \in BOOLEAN
      /\ ~crossed' => ~crossed /\ ~(getUsers > 0)
  BY DEF MakeUserRequest
<1>4. ~(getUsers > 0) => getUsers' = 1 BY <1>1, BoundsAssumption
<1>5. PeopleOK' BY <1>2, <1>3 DEF PeopleOK
<1>6. AnswerNoticed' BY <1>3, <1>4 DEF AnswerNoticed
<1> QED BY <1>3, <1>5, <1>6

\* A change is sent: the page waits for it, and no other of its kind was on its way.
LEMMA SendPreserves ==
    ASSUME Types, Awaited, OldIsAwaited, NEW c \in Change, Send(c), open' = open,
           c.kind \in Kinds, c.kind \in {"update", "delete"} => c.group \in Groups
    PROVE  /\ ServerOK' /\ ChangesOK' /\ SentOK' /\ GroupsOK' /\ FlagsOK' /\ PeopleOK'
           /\ Awaited' /\ OldIsAwaited'
<1> USE DEF Types
<1>1. PICK i \in Places : changes[i] = NoChange /\ changes' = [changes EXCEPT ![i] = c]
  BY DEF Send
<1>2. ServerOK' /\ GroupsOK' /\ PeopleOK'
  BY DEF Send, ServerOK, GroupsOK, PeopleOK
<1>3. ChangesOK'
  <2>1. c.kind # "none" BY DEF Kinds
  <2> QED BY <1>1, <2>1 DEF ChangesOK, Flying
<1>4. SentOK'
  <2>1. sent.mine \in 0..MaxChanges /\ sent.mine < MaxChanges BY DEF SentOK, Send
  <2>2. sent.mine + 1 \in 0..MaxChanges BY <2>1, BoundsAssumption
  <2> QED BY <2>2 DEF SentOK, Send
<1>5. FlagsOK' BY DEF FlagsOK, Send
<1>6. /\ doing' = [doing EXCEPT ![c.kind] = TRUE]
      /\ ~missed' => ~missed /\ ~doing[c.kind]
      /\ UNCHANGED <<groups, getGroups>>
  BY DEF Send
<1>7. ASSUME ~missed' PROVE \A j \in Places : j # i => ~(changes'[j].kind = c.kind)
  BY <1>1, <1>6, <1>7 DEF Awaited, Flying, Kinds
<1>8. Awaited'
  <2> SUFFICES ASSUME ~missed'
               PROVE  /\ \A j \in Places : Flying(j)' => doing'[changes'[j].kind]
                      /\ \A j, k \in Places :
                            Flying(j)' /\ changes'[j].kind = changes'[k].kind => j = k
    BY DEF Awaited, Flying
  <2>1. changes'[i] = c /\ \A j \in Places : j # i => changes'[j] = changes[j]
    BY <1>1 DEF ChangesOK
  <2>2. \A j \in Places : changes'[j].kind \in Kinds \cup {"none"}
    BY <1>3 DEF ChangesOK, Change
  <2> QED BY <1>6, <1>7, <2>1, <2>2 DEF Awaited, Flying, FlagsOK
<1>9. OldIsAwaited'
  <2>1. ASSUME ~missed', NEW k \in Kinds, Owed(k) PROVE Owed(k)'
    <3>1. k # c.kind BY <1>6, <2>1 DEF Owed
    <3>2. \A j \in Places : changes'[j].kind = k => changes'[j] = changes[j]
      BY <1>1, <3>1 DEF ChangesOK
    <3> QED BY <1>6, <2>1, <3>1, <3>2 DEF Owed, FlagsOK
  <2> QED BY <1>6, <2>1 DEF OldIsAwaited
<1> QED BY <1>2, <1>3, <1>4, <1>5, <1>8, <1>9

\* The server has answered a change that is still to be taken, so the page waits for it.
LEMMA ServePreserves ==
    ASSUME IInv, NEW i \in Places, NEW ok \in BOOLEAN, Serve(i, ok), ServerOK',
           Flying(i), changes[i].stage = "asked"
    PROVE  IInv'
<1> USE DEF IInv, Types
<1>1. /\ changes' = [changes EXCEPT ![i].stage = IF ok THEN "ok" ELSE "bad"]
      /\ groups' = [groups EXCEPT !.fresh = @ /\ ~ok]
      /\ getGroups' = [getGroups EXCEPT !.fresh = @ /\ ~(ok /\ getGroups.stage = "served")]
      /\ UNCHANGED <<sent, missed, people, status, page>>
  BY DEF Serve
<1>2. /\ changes'[i].kind = changes[i].kind /\ changes'[i].stage = IF ok THEN "ok" ELSE "bad"
      /\ \A j \in Places : j # i => changes'[j] = changes[j]
      /\ \A j \in Places : changes'[j].kind = changes[j].kind
      /\ changes[i].kind \in Kinds
  BY <1>1 DEF ChangesOK, Change, Flying
<1>3. ChangesOK'
  <2>1. changes' \in [Places -> Change] BY <1>1 DEF ChangesOK, Change
  <2>2. \A j \in Places : changes'[j].group = changes[j].group BY <1>1 DEF ChangesOK, Change
  <2> QED BY <1>2, <2>1, <2>2 DEF ChangesOK, Flying
<1>4. /\ GroupsOK' /\ groups'.list = groups.list /\ groups'.is = groups.is
      /\ getGroups'.stage = getGroups.stage
      /\ groups'.fresh = (groups.fresh /\ ~ok)
      /\ getGroups'.fresh => getGroups.fresh
      /\ ~ok => getGroups'.fresh = getGroups.fresh
  BY <1>1 DEF GroupsOK
<1>5. SentOK' /\ FlagsOK' /\ PeopleOK' /\ PageOK' /\ Drawn'
  BY <1>1, <1>4 DEF SentOK, FlagsOK, PeopleOK, PageOK, Drawn
<1>6. Awaited' BY <1>1, <1>2 DEF Awaited, Flying
<1>7. OldIsAwaited'
  <2> SUFFICES ASSUME open, ~missed PROVE OldIsAwaited'
    BY <1>1 DEF OldIsAwaited
  <2>1. CASE ok
    <3>1. Owed(changes[i].kind)'
      <4>1. \A j \in Places : changes'[j].kind = changes[i].kind => j = i
        BY <1>2 DEF Awaited, Flying
      <4>2. doing[changes[i].kind] BY DEF Awaited
      <4> QED BY <1>1, <1>2, <2>1, <4>1, <4>2 DEF Owed
    <3> QED BY <1>2, <3>1 DEF OldIsAwaited
  <2>2. CASE ~ok
    <3>1. ASSUME NEW k \in Kinds, Owed(k) PROVE Owed(k)'
      <4>1. changes[i].kind # k BY <3>1 DEF Owed
      <4> QED BY <1>1, <1>2, <3>1, <4>1 DEF Owed
    <3> QED BY <1>1, <1>4, <2>2, <3>1 DEF OldIsAwaited
  <2> QED BY <2>1, <2>2
<1>8. AnswerNoticed' /\ ClosedSelectsNothing' /\ SelectionIsListed'
  BY <1>1 DEF AnswerNoticed, ClosedSelectsNothing, SelectionIsListed
<1> QED BY <1>3, <1>4, <1>5, <1>6, <1>7, <1>8

-------------------------------------------------------------------------------
(* The page *)

LEMMA MountPreserves == ASSUME IInv, Mount PROVE IInv'
<1> USE DEF Mount, IInv, Types
<1>1. PeopleOK' /\ AnswerNoticed' /\ users' = users /\ (~crossed' => ~crossed) BY AskUsers
<1>2. /\ GroupsOK' /\ OldIsAwaited'
      /\ ~missed' => ~missed \/ \A i \in Places : changes[i] = NoChange
  BY AskGroups
<1>3. ServerOK' /\ ChangesOK' /\ SentOK' /\ FlagsOK' /\ PageOK'
  BY DEF ServerOK, ChangesOK, Flying, SentOK, FlagsOK, PageOK
<1>4. Drawn' BY DEF ClosedSelectsNothing, Drawn
<1>5. Awaited' BY <1>2, NothingTyped DEF Awaited, Flying
<1>6. ClosedSelectsNothing' /\ SelectionIsListed'
  BY DEF ClosedSelectsNothing, SelectionIsListed
<1> QED BY <1>1, <1>2, <1>3, <1>4, <1>5, <1>6

LEMMA UnmountPreserves == ASSUME IInv, Unmount PROVE IInv'
<1> USE DEF Unmount, IInv, Types
<1>1. ServerOK' /\ ChangesOK' /\ SentOK' /\ GroupsOK' /\ FlagsOK' /\ PeopleOK' /\ PageOK' /\ Drawn'
  BY DEF ServerOK, ChangesOK, Flying, SentOK, GroupsOK, FlagsOK, PeopleOK, PageOK, Drawn
<1>2. Awaited' /\ OldIsAwaited' BY Untouched
<1>3. AnswerNoticed' /\ ClosedSelectsNothing' /\ SelectionIsListed'
  BY DEF AnswerNoticed, ClosedSelectsNothing, SelectionIsListed
<1> QED BY <1>1, <1>2, <1>3

LEMMA DrawerPreserves ==
    ASSUME IInv, NEW s \in Groups \cup {None}, HandleDrawerSelectionChange(s)
    PROVE  IInv'
<1> USE DEF HandleDrawerSelectionChange, Usable, IInv, Types
<1>1. PeopleOK' /\ AnswerNoticed' /\ users' = users /\ (~crossed' => ~crossed) BY AskUsers
<1>2. ServerOK' /\ ChangesOK' /\ SentOK' /\ GroupsOK' /\ FlagsOK'
  BY DEF ServerOK, ChangesOK, Flying, SentOK, GroupsOK, FlagsOK
<1>3. PageOK' BY DEF PageOK, Draw
<1>4. Drawn' BY <1>2, <1>3, DrawPreserves
<1>5. Awaited' /\ OldIsAwaited' BY Untouched
<1>6. SelectionIsListed' /\ ClosedSelectsNothing'
  BY <1>1 DEF SelectionIsListed, ClosedSelectsNothing
<1> QED BY <1>1, <1>2, <1>3, <1>4, <1>5, <1>6

LEMMA AskAgainPreserves == ASSUME IInv, AskAgain PROVE IInv'
<1> USE DEF AskAgain, IInv, Types
<1>1. PeopleOK' /\ AnswerNoticed' /\ users' = users /\ (~crossed' => ~crossed) BY AskUsers
<1>2. ServerOK' /\ ChangesOK' /\ SentOK' /\ GroupsOK' /\ FlagsOK' /\ PageOK' /\ Drawn'
  BY DEF ServerOK, ChangesOK, Flying, SentOK, GroupsOK, FlagsOK, PageOK, Drawn
<1>3. Awaited' /\ OldIsAwaited' BY Untouched
<1>4. SelectionIsListed' /\ ClosedSelectsNothing'
  BY <1>1 DEF SelectionIsListed, ClosedSelectsNothing
<1> QED BY <1>1, <1>2, <1>3, <1>4

\* What the user does to the page alone.
LEMMA PageStepsPreserve ==
    ASSUME IInv, \/ \E us \in SUBSET Others : Select(us)
                 \/ \E u \in Others : HandleOpen(u)
                 \/ OpenHeaderMenu \/ HandleClose \/ HandleNewGroupClick
                 \/ HandleCreateOpen \/ CancelCreate
    PROVE  IInv'
<1> USE DEF IInv, Types
<1> DEFINE PageOnly ==
             /\ UNCHANGED <<data, lists, people, status, open, broken, selection>>
             /\ selected' = selected \/ (open /\ selected' \subseteq users)
             /\ PageOK'
<1>a. ASSUME NEW us \in SUBSET Others, Select(us) PROVE PageOnly
  BY <1>a DEF Select, Usable, PageOK
<1>b. ASSUME NEW u \in Others, HandleOpen(u) PROVE PageOnly BY <1>b DEF HandleOpen, PageOK
<1>c. ASSUME OpenHeaderMenu \/ HandleClose PROVE PageOnly
  BY <1>c DEF OpenHeaderMenu, HandleClose, PageOK
<1>d. ASSUME HandleNewGroupClick PROVE PageOnly
  BY <1>d DEF HandleNewGroupClick, RowMenu, HeaderMenu, PageOK
<1>e. ASSUME HandleCreateOpen PROVE PageOnly BY <1>e DEF HandleCreateOpen, PageOK
<1>f. ASSUME CancelCreate PROVE PageOnly BY <1>f DEF CancelCreate, HandleCreateClose, PageOK
<1>1. PageOnly BY <1>a, <1>b, <1>c, <1>d, <1>e, <1>f
<1>2. ServerOK' /\ ChangesOK' /\ SentOK' /\ GroupsOK' /\ FlagsOK' /\ PeopleOK' /\ Drawn'
  BY <1>1 DEF ServerOK, ChangesOK, Flying, SentOK, GroupsOK, FlagsOK, PeopleOK, Drawn
<1>3. Awaited' /\ OldIsAwaited' BY <1>1, Untouched
<1>4. AnswerNoticed' /\ ClosedSelectsNothing' /\ SelectionIsListed'
  BY <1>1 DEF AnswerNoticed, ClosedSelectsNothing, SelectionIsListed
<1> QED BY <1>1, <1>2, <1>3, <1>4

-------------------------------------------------------------------------------
(* Changes that are sent *)

\* A change that is sent without touching the page, or closing the dialog for its name.
LEMMA SentPreserves ==
    ASSUME IInv, NEW c \in Change, Send(c), c.kind \in Kinds,
           c.kind \in {"update", "delete"} => c.group \in Groups,
           PageOK', UNCHANGED <<open, broken, selection, selected>>
    PROVE  IInv'
<1> USE DEF IInv, Types
<1>1. /\ ServerOK' /\ ChangesOK' /\ SentOK' /\ GroupsOK' /\ FlagsOK' /\ PeopleOK'
      /\ Awaited' /\ OldIsAwaited'
  BY SendPreserves
<1>2. UNCHANGED <<groups, people>> BY DEF Send
<1>3. Drawn' BY <1>2 DEF Drawn
<1>4. AnswerNoticed' /\ ClosedSelectsNothing' /\ SelectionIsListed'
  BY <1>2 DEF AnswerNoticed, ClosedSelectsNothing, SelectionIsListed
<1> QED BY <1>1, <1>3, <1>4

LEMMA UpdatesPreserve ==
    ASSUME IInv, NEW g \in Groups, NEW what \in {"members", "admins", "name", "leave"},
           NEW members \in SUBSET Users, NEW admins \in SUBSET Users,
           UpdateGroup(g, what, members, admins),
           PageOK', UNCHANGED <<open, broken, selection, selected>>
    PROVE  IInv'
<1> DEFINE c == [NoChange EXCEPT !.kind = "update", !.group = g, !.what = what,
                                 !.members = members, !.admins = admins]
<1>1. c \in Change /\ c.kind = "update" /\ c.group = g BY DEF NoChange, Change, Kinds
<1>2. Send(c) BY DEF UpdateGroup
<1>4. c.kind \in Kinds BY <1>1 DEF Kinds
<1> HIDE DEF c
<1> QED BY <1>1, <1>2, <1>4, SentPreserves

LEMMA MembersPreserve ==
    ASSUME IInv, NEW g \in Groups, NEW us \in SUBSET Users, ChangeMembers(g, us),
           PageOK', UNCHANGED <<open, broken, selection, selected>>
    PROVE  IInv'
<1>1. groups.list[g].members \in SUBSET Users /\ groups.list[g].admins \in SUBSET Users
  BY DEF IInv, Types, GroupsOK, Lists, Group
<1>2. CASE us \subseteq groups.list[g].members
  BY <1>1, <1>2, UpdatesPreserve DEF ChangeMembers
<1>3. CASE ~(us \subseteq groups.list[g].members)
  BY <1>1, <1>3, UpdatesPreserve DEF ChangeMembers
<1> QED BY <1>2, <1>3

LEMMA RowChangesPreserve ==
    ASSUME IInv, NEW g \in Groups,
           \/ HandleSingleUserChange(g) \/ HandleMultiUserChange(g)
           \/ HandleRenameSave(g) \/ HandleLeaveClick(g)
    PROVE  IInv'
<1>a. PageOK' /\ UNCHANGED <<open, broken, selection, selected>>
  BY DEF HandleSingleUserChange, HandleMultiUserChange, HandleRenameSave, HandleLeaveClick,
         page, IInv, Types, PageOK
<1>1. CASE HandleSingleUserChange(g)
  <2>1. {menu} \in SUBSET Users
    BY <1>1 DEF HandleSingleUserChange, RowMenu, IInv, Types, PageOK, Users
  <2> QED BY <1>a, <1>1, <2>1, MembersPreserve DEF HandleSingleUserChange
<1>2. CASE HandleMultiUserChange(g)
  <2>1. selected \in SUBSET Users BY DEF IInv, Types, PageOK, Users
  <2> QED BY <1>a, <1>2, <2>1, MembersPreserve DEF HandleMultiUserChange
<1>3. CASE HandleRenameSave(g) BY <1>a, <1>3, UpdatesPreserve DEF HandleRenameSave
<1>4. CASE HandleLeaveClick(g) BY <1>a, <1>4, UpdatesPreserve DEF HandleLeaveClick
<1> QED BY <1>1, <1>2, <1>3, <1>4

LEMMA AdminsPreserve ==
    ASSUME IInv, NEW u \in Others, HandleMakeAdmin(u) \/ HandleDemoteAdmin(u)
    PROVE  IInv'
<1>1. selection \in Groups
  BY DEF HandleMakeAdmin, HandleDemoteAdmin, ShowAdmin, IInv, Types, PageOK
<1>2. /\ groups.list[selection].admins \cup {u} \in SUBSET Users
      /\ groups.list[selection].admins \ {u} \in SUBSET Users
  BY <1>1 DEF IInv, Types, GroupsOK, Lists, Group, Users
<1>a. PageOK' /\ UNCHANGED <<open, broken, selection, selected>>
  BY DEF HandleMakeAdmin, HandleDemoteAdmin, page, IInv, Types, PageOK
<1>3. CASE HandleMakeAdmin(u) BY <1>a, <1>1, <1>2, <1>3, UpdatesPreserve DEF HandleMakeAdmin
<1>4. CASE HandleDemoteAdmin(u)
  BY <1>a, <1>1, <1>2, <1>4, UpdatesPreserve DEF HandleDemoteAdmin
<1> QED BY <1>3, <1>4

LEMMA CreatePreserves == ASSUME IInv, HandleCreateSave PROVE IInv'
<1> DEFINE c == [NoChange EXCEPT !.kind = "create", !.members = createUsers]
<1>1. c \in Change /\ c.kind = "create" /\ c.kind \in Kinds
  BY DEF NoChange, Change, Kinds, IInv, Types, PageOK, Users
<1>2. Send(c) /\ UNCHANGED <<open, broken, selection, selected>> /\ PageOK'
  BY DEF HandleCreateSave, HandleCreateClose, IInv, Types, PageOK
<1> HIDE DEF c
<1> QED BY <1>1, <1>2, SentPreserves

LEMMA DeleteClickPreserves == ASSUME IInv, NEW g \in Groups, HandleDeleteClick(g) PROVE IInv'
<1> DEFINE c == [NoChange EXCEPT !.kind = "delete", !.group = g]
<1>1. c \in Change /\ c.kind = "delete" /\ c.kind \in Kinds /\ c.group = g
  BY DEF NoChange, Change, Kinds
<1>2. Send(c) /\ UNCHANGED page /\ PageOK'
  BY DEF HandleDeleteClick, IInv, Types, PageOK
<1> HIDE DEF c
<1> QED BY <1>1, <1>2, SentPreserves

-------------------------------------------------------------------------------
(* The server *)

LEMMA ServesPreserve ==
    ASSUME IInv, NEW i \in Places, ServeUpdate(i) \/ ServeCreate(i) \/ ServeDelete(i)
    PROVE  IInv'
<1> USE DEF IInv, Types
<1>1. changes[i] \in Change BY DEF ChangesOK
<1>2. CASE ServeUpdate(i)
  <2>1. changes[i].group \in Groups /\ Flying(i) /\ changes[i].stage = "asked"
    BY <1>2 DEF ServeUpdate, ChangesOK, Flying
  <2>2. \/ server' = server
        \/ \E m, a \in SUBSET Users :
              server' = [server EXCEPT ![changes[i].group].members = m,
                                       ![changes[i].group].admins = a]
    <3>1. server[changes[i].group] \in Group BY <2>1 DEF ServerOK
    <3>2. /\ server[changes[i].group].members \in SUBSET Users
          /\ server[changes[i].group].members \ {Me} \in SUBSET Users
          /\ server[changes[i].group].admins \in SUBSET Users
          /\ changes[i].members \in SUBSET Users /\ changes[i].admins \in SUBSET Users
      BY <1>1, <3>1 DEF Group, Change
    <3> QED BY <1>2, <3>2 DEF ServeUpdate
  <2>3. ServerOK'
    <3>1. CASE server' = server BY <3>1 DEF ServerOK
    <3>2. ASSUME NEW m \in SUBSET Users, NEW a \in SUBSET Users,
                 server' = [server EXCEPT ![changes[i].group].members = m,
                                          ![changes[i].group].admins = a]
          PROVE  ServerOK'
      <4>1. PICK g \in Groups : g = changes[i].group BY <2>1
      <4>2. server' \in [Groups -> Group] BY <3>2, <4>1, PermissionsTyped
      <4> QED BY <4>2 DEF ServerOK
    <3> QED BY <2>2, <3>1, <3>2
  <2>4. \E ok \in BOOLEAN : Serve(i, ok) BY <1>2 DEF ServeUpdate
  <2> QED BY <2>1, <2>3, <2>4, ServePreserves
<1>3. CASE ServeCreate(i)
  <2>1. Flying(i) /\ changes[i].stage = "asked" BY <1>3 DEF ServeCreate, Flying
  <2>2. [is |-> "there", members |-> changes[i].members \cup {Me}, admins |-> {Me}] \in Group
    BY <1>1 DEF Group, Change, Users
  <2>3. ServerOK' BY <1>3, <2>2 DEF ServeCreate, ServerOK
  <2>4. \E ok \in BOOLEAN : Serve(i, ok) BY <1>3 DEF ServeCreate
  <2> QED BY <2>1, <2>3, <2>4, ServePreserves
<1>4. CASE ServeDelete(i)
  <2>1. Flying(i) /\ changes[i].stage = "asked" BY <1>4 DEF ServeDelete, Flying
  <2>2. ServerOK' BY <1>4, NothingTyped DEF ServeDelete, ServerOK
  <2>3. \E ok \in BOOLEAN : Serve(i, ok) BY <1>4 DEF ServeDelete
  <2> QED BY <2>1, <2>2, <2>3, ServePreserves
<1> QED BY <1>2, <1>3, <1>4

LEMMA ServeGroupsPreserves == ASSUME IInv, ServeGroups PROVE IInv'
<1> USE DEF ServeGroups, IInv, Types
<1>1. GroupsOK' BY ListingTyped DEF GroupsOK
<1>2. ServerOK' /\ ChangesOK' /\ SentOK' /\ FlagsOK' /\ PeopleOK' /\ PageOK' /\ Drawn'
  BY DEF ServerOK, ChangesOK, Flying, SentOK, FlagsOK, PeopleOK, PageOK, Drawn
<1>3. Awaited' BY DEF Awaited, Flying
<1>4. OldIsAwaited' BY DEF OldIsAwaited, Owed
<1>5. AnswerNoticed' /\ ClosedSelectsNothing' /\ SelectionIsListed'
  BY DEF AnswerNoticed, ClosedSelectsNothing, SelectionIsListed
<1> QED BY <1>1, <1>2, <1>3, <1>4, <1>5

LEMMA OtherPreserves == ASSUME IInv, NEW u \in Others, OtherChange(u) PROVE IInv'
<1> USE DEF OtherChange, IInv, Types
<1>1. ServerOK'
  <2>1. PICK g \in Groups :
          \/ \E m, a \in SUBSET Users :
                server' = [server EXCEPT ![g].members = m, ![g].admins = a]
          \/ server' = [server EXCEPT ![g] = Gone]
    OBVIOUS
  <2>2. ASSUME NEW m \in SUBSET Users, NEW a \in SUBSET Users,
               server' = [server EXCEPT ![g].members = m, ![g].admins = a]
        PROVE  ServerOK'
    BY <2>2, PermissionsTyped DEF ServerOK
  <2>3. CASE server' = [server EXCEPT ![g] = Gone] BY <2>3, NothingTyped DEF ServerOK
  <2> QED BY <2>1, <2>2, <2>3
<1>2. SentOK'
  <2>1. sent.others \in 0..MaxOthers /\ sent.others < MaxOthers BY DEF SentOK
  <2>2. sent.others + 1 \in 0..MaxOthers BY <2>1, BoundsAssumption
  <2> QED BY <2>2 DEF SentOK
<1>3. ChangesOK' /\ GroupsOK' /\ FlagsOK' /\ PeopleOK' /\ PageOK' /\ Drawn'
  BY DEF ChangesOK, Flying, GroupsOK, FlagsOK, PeopleOK, PageOK, Drawn
<1>4. Awaited' /\ OldIsAwaited' BY Untouched
<1>5. AnswerNoticed' /\ ClosedSelectsNothing' /\ SelectionIsListed'
  BY DEF AnswerNoticed, ClosedSelectsNothing, SelectionIsListed
<1> QED BY <1>1, <1>2, <1>3, <1>4, <1>5

-------------------------------------------------------------------------------
(* Answers to changes *)

LEMMA TakeTyped ==
    ASSUME ChangesOK, SentOK, NEW i \in Places, NEW stage, Take(i, stage)
    PROVE  /\ ChangesOK' /\ SentOK'
           /\ Flying(i) /\ changes[i].kind \in Kinds /\ changes[i].stage = stage
           /\ changes'[i] = NoChange
           /\ \A j \in Places : j # i => changes'[j] = changes[j]
<1>1. changes' = [changes EXCEPT ![i] = NoChange] /\ sent' = sent BY DEF Take
<1>2. ChangesOK' BY <1>1, NothingTyped DEF ChangesOK, Flying, Kinds
<1> QED BY <1>1, <1>2 DEF Take, ChangesOK, SentOK, Flying, Change

\* The change that is answered was the only one of its kind, so no other loses its place.
LEMMA AnswerAwaited ==
    ASSUME Types, Awaited, NEW i \in Places, NEW stage, Take(i, stage),
           \A k \in Kinds : k # changes[i].kind => doing'[k] = doing[k],
           ~missed' => ~missed \/ \A j \in Places : changes'[j] = NoChange
    PROVE  Awaited'
<1>1. /\ ChangesOK' /\ changes[i].kind \in Kinds /\ Flying(i) /\ changes'[i] = NoChange
      /\ \A j \in Places : j # i => changes'[j] = changes[j]
  BY TakeTyped DEF Types
<1>2. CASE ~missed
  <2>1. ASSUME NEW j \in Places, Flying(j)'
        PROVE  j # i /\ changes'[j] = changes[j] /\ changes[j].kind # changes[i].kind
               /\ changes[j].kind \in Kinds /\ Flying(j)
    <3>1. j # i BY <1>1, <2>1, NothingTyped DEF Flying
    <3>2. changes'[j] = changes[j] /\ Flying(j) BY <1>1, <2>1, <3>1 DEF Flying
    <3> QED BY <1>1, <1>2, <3>1, <3>2 DEF Awaited, Types, ChangesOK, Change, Flying
  <2>2. \A j \in Places : Flying(j)' => doing'[changes'[j].kind]
    BY <1>2, <2>1 DEF Awaited
  <2>3. ASSUME NEW j \in Places, NEW k \in Places, Flying(j)',
               changes'[j].kind = changes'[k].kind
        PROVE  j = k
    <3>1. Flying(k)' BY <2>3 DEF Flying
    <3> QED BY <1>2, <2>1, <2>3, <3>1 DEF Awaited
  <2> QED BY <2>2, <2>3 DEF Awaited, Flying
<1>3. CASE missed BY <1>3, NothingTyped DEF Awaited, Flying
<1>4. missed \in BOOLEAN BY DEF Types, GroupsOK
<1> QED BY <1>2, <1>3, <1>4

\* The page asks again when a change was made, unless it has not noticed the one before.
LEMMA MadePreserves ==
    ASSUME Types, Awaited, OldIsAwaited, NEW i \in Places, Take(i, "ok"),
           Made(changes[i].kind),
           IF open /\ ~done[changes[i].kind] THEN GetGroups ELSE UNCHANGED <<getGroups, missed>>,
           UNCHANGED <<server, groups, open>>
    PROVE  /\ ServerOK' /\ ChangesOK' /\ SentOK' /\ GroupsOK' /\ FlagsOK'
           /\ Awaited' /\ OldIsAwaited'
<1> DEFINE k == changes[i].kind
<1>1. /\ ChangesOK' /\ SentOK' /\ k \in Kinds /\ Flying(i) /\ changes'[i] = NoChange
      /\ \A j \in Places : j # i => changes'[j] = changes[j]
  BY TakeTyped DEF Types
<1>2. /\ doing' = [doing EXCEPT ![k] = FALSE] /\ done' = [done EXCEPT ![k] = TRUE]
  BY DEF Made
<1>3. ServerOK' /\ FlagsOK' BY <1>1, <1>2 DEF Types, ServerOK, FlagsOK
<1>4. \A l \in Kinds : l # k => doing'[l] = doing[l] BY <1>1, <1>2 DEF Types, FlagsOK
<1>5. CASE open /\ ~done[k]
  <2>1. /\ GroupsOK' /\ OldIsAwaited'
        /\ ~missed' => ~missed \/ \A j \in Places : changes'[j] = NoChange
    BY <1>5, AskGroups DEF Types
  <2> QED BY <1>1, <1>3, <1>4, <2>1, AnswerAwaited
<1>6. CASE ~(open /\ ~done[k])
  <2>1. GroupsOK' /\ missed' = missed BY <1>6 DEF Types, GroupsOK
  <2>2. Awaited' BY <1>4, <2>1, AnswerAwaited
  <2>3. OldIsAwaited'
    <3>1. open /\ ~missed => FALSE
      BY <1>1, <1>6 DEF Types, FlagsOK, Awaited
    <3> QED BY <2>1, <3>1 DEF OldIsAwaited
  <2> QED BY <1>1, <1>3, <2>1, <2>2, <2>3
<1> QED BY <1>5, <1>6

LEMMA UpdatedPreserves == ASSUME IInv, NEW i \in Places, Updated(i) PROVE IInv'
<1> USE DEF Updated, IInv, Types
<1>1. /\ ServerOK' /\ ChangesOK' /\ SentOK' /\ GroupsOK' /\ FlagsOK'
      /\ Awaited' /\ OldIsAwaited'
  BY MadePreserves
<1>2. PeopleOK' /\ AnswerNoticed' /\ users' = users /\ (~crossed' => ~crossed)
  BY AskUsers DEF PeopleOK, AnswerNoticed
<1>3. PageOK' /\ Drawn' BY DEF PageOK, Drawn
<1>4. ClosedSelectsNothing' /\ SelectionIsListed'
  BY <1>2 DEF ClosedSelectsNothing, SelectionIsListed
<1> QED BY <1>1, <1>2, <1>3, <1>4

LEMMA CreatedPreserves == ASSUME IInv, NEW i \in Places, Created(i) PROVE IInv'
<1> USE DEF Created, IInv, Types
<1>1. /\ ServerOK' /\ ChangesOK' /\ SentOK' /\ GroupsOK' /\ FlagsOK'
      /\ Awaited' /\ OldIsAwaited'
  BY MadePreserves
<1>2. PeopleOK' /\ AnswerNoticed' /\ users' = users /\ (~crossed' => ~crossed)
  BY AskUsers DEF PeopleOK, AnswerNoticed
<1>3. PageOK' /\ Drawn' BY DEF PageOK, Drawn
<1>4. ClosedSelectsNothing' /\ SelectionIsListed'
  BY <1>2 DEF ClosedSelectsNothing, SelectionIsListed
<1> QED BY <1>1, <1>2, <1>3, <1>4

LEMMA DeletedPreserves == ASSUME IInv, NEW i \in Places, Deleted(i) PROVE IInv'
<1> USE DEF Deleted, IInv, Types
<1>1. /\ ServerOK' /\ ChangesOK' /\ SentOK' /\ GroupsOK' /\ FlagsOK'
      /\ Awaited' /\ OldIsAwaited'
  BY MadePreserves
<1>2. PeopleOK' /\ AnswerNoticed' /\ users' = users /\ (~crossed' => ~crossed)
  BY AskUsers DEF PeopleOK, AnswerNoticed
<1>3. PageOK' /\ Drawn' BY DEF PageOK, Drawn
<1>4. ClosedSelectsNothing' /\ SelectionIsListed'
  BY <1>2 DEF ClosedSelectsNothing, SelectionIsListed
<1> QED BY <1>1, <1>2, <1>3, <1>4

\* A change that failed, or was not answered: whatever made a list old has been dealt
\* with by the server, and is still waited for.
LEMMA UnmadePreserves ==
    ASSUME IInv, NEW i \in Places, ChangeFails(i) \/ ChangeUnanswered(i)
    PROVE  IInv'
<1> USE DEF IInv, Types
<1>1. PICK stage \in {"asked", "ok", "bad"} : Take(i, stage)
  BY DEF ChangeFails, ChangeUnanswered
<1>2. /\ ChangesOK' /\ SentOK' /\ changes[i].kind \in Kinds /\ changes'[i] = NoChange
      /\ \A j \in Places : j # i => changes'[j] = changes[j]
  BY <1>1, TakeTyped
<1>3. UNCHANGED <<server, groups, getGroups, people, page>> /\ (~missed' => ~missed)
      /\ missed' \in BOOLEAN
  BY DEF ChangeFails, ChangeUnanswered, GroupsOK
<1>4. FlagsOK' /\ \A k \in Kinds : k # changes[i].kind => doing'[k] = doing[k]
  BY <1>2 DEF ChangeFails, ChangeUnanswered, FlagsOK
<1>5. ServerOK' /\ GroupsOK' /\ PeopleOK' /\ PageOK' /\ Drawn'
  BY <1>3 DEF ServerOK, GroupsOK, PeopleOK, PageOK, Drawn
<1>6. Awaited' BY <1>1, <1>3, <1>4, AnswerAwaited
<1>7. ASSUME NEW k \in Kinds, Owed(k), ~missed' PROVE Owed(k)'
  <2>1. doing'[k] = doing[k]
    BY <1>4, <1>7, <1>2 DEF ChangeFails, ChangeUnanswered, Take, Owed
  <2>2. \A j \in Places : changes'[j].kind = k => j # i BY <1>2, NothingTyped
  <2> QED BY <1>2, <1>7, <2>1, <2>2 DEF Owed
<1>8. OldIsAwaited' BY <1>3, <1>7 DEF OldIsAwaited
<1>9. AnswerNoticed' /\ ClosedSelectsNothing' /\ SelectionIsListed'
  BY <1>3 DEF AnswerNoticed, ClosedSelectsNothing, SelectionIsListed
<1> QED BY <1>2, <1>4, <1>5, <1>6, <1>8, <1>9

-------------------------------------------------------------------------------
(* Answers with lists *)

\* The list is as old as what was read for it.
LEMMA GroupsAnswered ==
    ASSUME IInv, GroupsReceived \/ GroupsError
    PROVE  IInv'
<1> USE DEF IInv, Types
<1>1. NoGet \in [stage : {"none", "asked", "served", "lost"}, list : Lists, fresh : BOOLEAN]
  BY NothingTyped DEF NoGet
<1>2. /\ getGroups' = NoGet
      /\ groups' = [is |-> "list", list |-> getGroups.list, fresh |-> getGroups.fresh]
         \/ groups' = [is |-> "none", list |-> NoList, fresh |-> TRUE]
      /\ Draw /\ UNCHANGED <<data, missed, people, status, open, selected, selection>>
      /\ UNCHANGED <<menu, showCreate, createUsers>>
  BY DEF GroupsReceived, GroupsError
<1>3. GroupsOK'
  <2>1. getGroups.list \in Lists /\ getGroups.fresh \in BOOLEAN /\ NoList \in Lists
    BY NothingTyped DEF GroupsOK
  <2>2. groups' \in [is : {"none", "list"}, list : Lists, fresh : BOOLEAN]
    <3>1. CASE groups' = [is |-> "list", list |-> getGroups.list, fresh |-> getGroups.fresh]
      BY ONLY <2>1, <3>1
    <3>2. CASE groups' = [is |-> "none", list |-> NoList, fresh |-> TRUE] BY ONLY <2>1, <3>2
    <3> QED BY ONLY <1>2, <3>1, <3>2
  <2> QED BY <1>1, <1>2, <2>2 DEF GroupsOK
<1>4. PageOK' BY <1>2 DEF PageOK, Draw
<1>5. Drawn' BY <1>2, <1>3, <1>4, DrawPreserves
<1>6. ServerOK' /\ ChangesOK' /\ SentOK' /\ FlagsOK' /\ PeopleOK'
  BY <1>2 DEF ServerOK, ChangesOK, Flying, SentOK, FlagsOK, PeopleOK
<1>7. Awaited' BY <1>2 DEF Awaited, Flying
<1>8. OldIsAwaited'
  <2>1. getGroups'.fresh = TRUE BY <1>2 DEF NoGet
  <2>2. groups'.fresh = getGroups.fresh \/ groups'.fresh = TRUE BY <1>2
  <2>3. \A k \in Kinds : Owed(k) => Owed(k)' BY <1>2 DEF Owed
  <2> QED BY <1>2, <2>1, <2>2, <2>3 DEF OldIsAwaited
<1>9. AnswerNoticed' /\ ClosedSelectsNothing' /\ SelectionIsListed'
  BY <1>2 DEF AnswerNoticed, ClosedSelectsNothing, SelectionIsListed
<1> QED BY <1>3, <1>4, <1>5, <1>6, <1>7, <1>8, <1>9

LEMMA GroupsLost == ASSUME IInv, GroupsUnanswered PROVE IInv'
<1> USE DEF GroupsUnanswered, IInv, Types
<1>1. getGroups'.stage = "lost" /\ getGroups'.fresh = TRUE BY DEF NoGet
<1>2. GroupsOK' BY NothingTyped DEF GroupsOK, NoGet
<1>3. ServerOK' /\ ChangesOK' /\ SentOK' /\ FlagsOK' /\ PeopleOK' /\ PageOK' /\ Drawn'
  BY DEF ServerOK, ChangesOK, Flying, SentOK, FlagsOK, PeopleOK, PageOK, Drawn
<1>4. Awaited' BY DEF Awaited, Flying
<1>5. OldIsAwaited' BY <1>1 DEF OldIsAwaited
<1>6. AnswerNoticed' /\ ClosedSelectsNothing' /\ SelectionIsListed'
  BY DEF AnswerNoticed, ClosedSelectsNothing, SelectionIsListed
<1> QED BY <1>2, <1>3, <1>4, <1>5, <1>6

\* Of several requests for the users only the first answer is noticed, but then the
\* page knows that they crossed.
LEMMA UsersAnswered ==
    ASSUME IInv, UsersReceived \/ UsersError \/ UsersUnanswered
    PROVE  IInv'
<1> USE DEF IInv, Types
<1>1. /\ getUsers > 0 /\ getUsers' = getUsers - 1
      /\ UNCHANGED <<data, lists, status, open, broken, selection, showCreate, createUsers>>
  BY DEF UsersReceived, UsersError, UsersUnanswered
<1>2. getUsers \in 0..MaxUsers /\ getUsers \in Nat /\ getUsers' \in 0..MaxUsers
  BY <1>1, BoundsAssumption DEF PeopleOK
<1>3. getUsers <= 1 => getUsers = 1 /\ getUsers' = 0 BY <1>1, <1>2
<1>4. getUsers' <= 1 /\ ~(getUsers' = 1) <=> getUsers <= 1 BY <1>1, <1>2
<1>5. ServerOK' /\ ChangesOK' /\ SentOK' /\ GroupsOK' /\ FlagsOK' /\ Drawn'
  BY <1>1 DEF ServerOK, ChangesOK, Flying, SentOK, GroupsOK, FlagsOK, Drawn
<1>6. PeopleOK' /\ PageOK'
  BY <1>1, <1>2 DEF UsersReceived, UsersError, UsersUnanswered, PeopleOK, PageOK
<1>7. Awaited' /\ OldIsAwaited' BY <1>1, Untouched
<1>8. CASE UsersReceived
  <2>1. ~crossed' => ~fetched /\ getUsers <= 1
    <3>1. ~(getUsers > 1) => getUsers <= 1 BY <1>2
    <3>2. ~crossed' => ~crossed \/ (~fetched /\ ~(getUsers > 1)) BY <1>8 DEF UsersReceived
    <3>3. ~crossed => ~fetched /\ getUsers <= 1 BY <1>3 DEF AnswerNoticed
    <3> QED BY <3>1, <3>2, <3>3
  <2>2. AnswerNoticed' BY <1>3, <2>1 DEF AnswerNoticed
  <2>3. ClosedSelectsNothing' /\ SelectionIsListed'
    BY <1>8, <2>1 DEF UsersReceived, ClosedSelectsNothing, SelectionIsListed
  <2> QED BY <1>5, <1>6, <1>7, <2>2, <2>3
<1>9. CASE UsersError \/ UsersUnanswered
  <2>1. UNCHANGED <<users, crossed, selected>> BY <1>9 DEF UsersError, UsersUnanswered
  <2>2. AnswerNoticed' BY <1>3, <2>1 DEF AnswerNoticed
  <2>3. ClosedSelectsNothing' /\ SelectionIsListed'
    BY <1>1, <2>1 DEF ClosedSelectsNothing, SelectionIsListed
  <2> QED BY <1>5, <1>6, <1>7, <2>2, <2>3
<1> QED BY <1>8, <1>9

-------------------------------------------------------------------------------
(* The theorems *)

LEMMA InitIInv == ASSUME Init PROVE IInv
<1> USE DEF Init
<1>1. ServerOK BY DEF ServerOK, Group
<1>2. ChangesOK BY NothingTyped DEF ChangesOK
<1>3. SentOK BY BoundsAssumption DEF SentOK
<1>4. GroupsOK /\ FlagsOK BY NothingTyped DEF GroupsOK, NoGet, FlagsOK
<1>0. 0 \in 0..MaxUsers BY BoundsAssumption
<1>5. PeopleOK BY <1>0 DEF PeopleOK
<1>6. PageOK /\ Drawn BY DEF PageOK, Drawn
<1>7. Awaited BY NothingTyped DEF Awaited, Flying
<1>8. OldIsAwaited /\ ClosedSelectsNothing /\ SelectionIsListed
  BY DEF OldIsAwaited, ClosedSelectsNothing, SelectionIsListed
<1>9. AnswerNoticed BY DEF AnswerNoticed
<1> QED BY <1>1, <1>2, <1>3, <1>4, <1>5, <1>6, <1>7, <1>8, <1>9 DEF IInv, Types

LEMMA StutterPreserves == ASSUME IInv, UNCHANGED vars PROVE IInv'
<1> USE DEF vars, IInv, Types
<1>1. /\ ServerOK' /\ ChangesOK' /\ SentOK' /\ GroupsOK' /\ FlagsOK' /\ PeopleOK'
      /\ PageOK' /\ Drawn'
  BY DEF ServerOK, ChangesOK, Flying, SentOK, GroupsOK, FlagsOK, PeopleOK, PageOK, Drawn
<1>2. Awaited' /\ OldIsAwaited' BY Untouched
<1>3. AnswerNoticed' /\ ClosedSelectsNothing' /\ SelectionIsListed'
  BY DEF AnswerNoticed, ClosedSelectsNothing, SelectionIsListed
<1> QED BY <1>1, <1>2, <1>3

LEMMA StepIInv == ASSUME IInv, [Next]_vars PROVE IInv'
<1>1. CASE Mount BY <1>1, MountPreserves
<1>2. CASE Unmount BY <1>2, UnmountPreserves
<1>3. CASE AskAgain BY <1>3, AskAgainPreserves
<1>4. CASE \E s \in Groups \cup {None} : HandleDrawerSelectionChange(s)
  BY <1>4, DrawerPreserves
<1>5. CASE \/ \E us \in SUBSET Others : Select(us)
           \/ \E u \in Others : HandleOpen(u)
           \/ OpenHeaderMenu \/ HandleClose \/ HandleNewGroupClick \/ HandleCreateOpen \/ CancelCreate
  BY <1>5, PageStepsPreserve
<1>6. CASE \E u \in Others : HandleMakeAdmin(u) \/ HandleDemoteAdmin(u)
  BY <1>6, AdminsPreserve
<1>7. CASE \E u \in Others : OtherChange(u) BY <1>7, OtherPreserves
<1>8. CASE HandleCreateSave BY <1>8, CreatePreserves
<1>9. CASE \E g \in Groups : \/ HandleSingleUserChange(g) \/ HandleMultiUserChange(g)
                             \/ HandleRenameSave(g) \/ HandleLeaveClick(g)
  BY <1>9, RowChangesPreserve
<1>10. CASE \E g \in Groups : HandleDeleteClick(g) BY <1>10, DeleteClickPreserves
<1>11. CASE \E i \in Places : ServeUpdate(i) \/ ServeCreate(i) \/ ServeDelete(i)
  BY <1>11, ServesPreserve
<1>12. CASE \E i \in Places : Updated(i) BY <1>12, UpdatedPreserves
<1>13. CASE \E i \in Places : Created(i) BY <1>13, CreatedPreserves
<1>14. CASE \E i \in Places : Deleted(i) BY <1>14, DeletedPreserves
<1>15. CASE \E i \in Places : ChangeFails(i) \/ ChangeUnanswered(i)
  BY <1>15, UnmadePreserves
<1>16. CASE ServeGroups BY <1>16, ServeGroupsPreserves
<1>17. CASE GroupsReceived \/ GroupsError BY <1>17, GroupsAnswered
<1>18. CASE GroupsUnanswered BY <1>18, GroupsLost
<1>19. CASE UsersReceived \/ UsersError \/ UsersUnanswered BY <1>19, UsersAnswered
<1>20. CASE UNCHANGED vars BY <1>20, StutterPreserves
<1> QED BY <1>1, <1>2, <1>3, <1>4, <1>5, <1>6, <1>7, <1>8, <1>9, <1>10, <1>11, <1>12, <1>13,
           <1>14, <1>15, <1>16, <1>17, <1>18, <1>19, <1>20 DEF Next

LEMMA Inductive == Spec => []IInv
BY InitIInv, StepIInv, PTL DEF Spec

\* Groups, lists, changes and what the page shows keep their types; no kind of change is
\* done and under way, and what is drawn is a group in the list.
THEOREM TypeCorrect == Spec => []TypeOK
<1>1. IInv => TypeOK
  <2> SUFFICES ASSUME IInv PROVE TypeOK OBVIOUS
  <2> USE DEF IInv, Types
  <2>1. /\ server \in [Groups -> Group] /\ groups.is \in {"none", "list"}
        /\ groups.list \in [Groups -> Group] /\ groups.fresh \in BOOLEAN
        /\ getGroups.stage \in {"none", "asked", "served", "lost"}
        /\ getGroups.list \in [Groups -> Group]
    BY DEF ServerOK, GroupsOK, Lists
  <2>2. \A i \in Places : changes[i].kind \in Kinds \cup {"none"} /\ changes[i].members \subseteq Users
    BY DEF ChangesOK, Change
  <2>3. open /\ ~broken /\ selection # None => groups.list[selection].is = "there"
    BY DEF Drawn, GroupsOK, Lists, PageOK
  <2> QED BY <2>1, <2>2, <2>3 DEF TypeOK, FlagsOK, PeopleOK, PageOK, SentOK, GroupsOK
<1> QED BY <1>1, Inductive, PTL

\* Whatever is answered late, fails or is lost, and however often the page is left, a
\* page that waits for nothing shows the changes its user has made.
THEOREM OwnShown == Spec => []OwnChangesShown
<1>1. IInv => OwnChangesShown
  BY DEF IInv, Types, OldIsAwaited, OwnChangesShown, Overlay, Owed
<1> QED BY <1>1, Inductive, PTL

\* Users are selected only if they are listed, in whatever order lists are answered, but
\* for those that were asked for together.
THEOREM SelectedListed == Spec => []SelectionIsListed
<1>1. IInv => SelectionIsListed BY DEF IInv
<1> QED BY <1>1, Inductive, PTL
===============================================================================
