------------------------------ MODULE GroupsPage -------------------------------
(***************************************************************************)
(* The page of members and groups of one user, and the groups on the       *)
(* server, which other administrators change meanwhile.  The page sends    *)
(* whole lists of members and administrators, made from the groups it last *)
(* received, and asks for the groups and the users again after a change.   *)
(***************************************************************************)
EXTENDS Naturals, FiniteSets

CONSTANTS Me, Others, Groups,
          MaxFlying,   \* bound: changes in flight
          MaxChanges,  \* bound: changes in all
          MaxOthers,   \* bound: changes by other users in all
          MaxUsers,    \* bound: requests for the users in flight
          Header, None

ASSUME UsersAssumption == Me \notin Others /\ Header \notin Others \cup {None} /\ None \notin Others \cup Groups
ASSUME BoundsAssumption == {MaxFlying, MaxChanges, MaxOthers, MaxUsers} \subseteq Nat

Users == Others \cup {Me}

\* The permissions of a group; "unborn" and "gone" have none.
Group == [is : {"unborn", "there", "gone"}, members : SUBSET Users, admins : SUBSET Users]
Gone == [is |-> "gone", members |-> {}, admins |-> {}]

\* What GET /api/groups answers; groups that are not there are not in it.
Listing(s) == [g \in Groups |-> IF s[g].is = "there" THEN s[g] ELSE Gone]
NoList == [g \in Groups |-> Gone]

VARIABLES
    server,     \* the groups
    changes,    \* requests that change a group, in their places
    sent,       \* bounded: how many changes this user and the others have made
    groups,     \* store: the groups last received; fresh: none of this user's changes
                \* has been made since they were read
    getGroups,  \* the request for the groups
    doing,      \* store: updating, creating, deleting
    done,       \* store: updated, created, deleted
    users,      \* store: the users last received
    fetching, fetched,  \* store: of the users
    getUsers,   \* requests for the users in flight
    open, broken,       \* the page is mounted, and has thrown
    selection,  \* drawerSelection: a group, or None for all, new or ungrouped users
    selected,   \* selectedUsers
    menu,       \* whose menu of groups is open: a user's, that of the Header of the list,
                \* or None's
    showCreate, \* the dialog to name a new group is shown; the dialogs that confirm a
                \* change of a group, or show an error, keep no state and are left out
    createUsers,
    missed,     \* history: a change was sent while one of its kind was not done, or was
                \* made and answered with an error, and the groups have not been asked for
                \* since without a change in flight
    crossed     \* history: two requests for the users have been in flight together, and
                \* none has been answered alone since

data == <<server, changes, sent>>
lists == <<groups, getGroups, missed>>
people == <<users, fetching, fetched, getUsers, crossed>>
status == <<doing, done>>
page == <<open, broken, selection, selected, menu, showCreate, createUsers>>
vars == <<data, lists, people, status, page>>

Kinds == {"update", "create", "delete"}
Places == 1..MaxFlying
NoChange == [kind |-> "none", group |-> None, what |-> "nothing", stage |-> "asked",
             members |-> {}, admins |-> {}]
NoGet == [stage |-> "none", list |-> NoList, fresh |-> TRUE]

Overlay == getGroups.stage # "none" \/ fetching \/ \E k \in Kinds : doing[k]
Usable == open /\ ~broken /\ ~Overlay /\ ~showCreate /\ menu = None

\* The groups the user administers, and those shared with the user.
Owned == {g \in Groups : Me \in groups.list[g].admins}
Shared == {g \in Groups : Me \in groups.list[g].members} \ Owned

\* What the drawer lets select: not the groups shared with the user.
Selectable == Owned \cup {None}

\* A menu of groups is above the overlay, which may come while it is open.
RowMenu == open /\ ~broken /\ menu \in Others
HeaderMenu == open /\ ~broken /\ menu = Header

-------------------------------------------------------------------------------
(* Requests *)

\* getGroups: an earlier request is cancelled.
GetGroups ==
    /\ getGroups' = [NoGet EXCEPT !.stage = "asked"]
    /\ missed' = (missed /\ \E i \in Places : changes'[i] # NoChange)

\* Mutant: fetched is not reset.
GetUsersOnly ==
    /\ getUsers < MaxUsers /\ getUsers' = getUsers + 1
    /\ fetching' = TRUE /\ UNCHANGED <<fetched, users>>
    /\ crossed' = (crossed \/ getUsers > 0)

\* getUsers: earlier requests are not cancelled.
MakeUserRequest ==
    /\ getUsers < MaxUsers /\ getUsers' = getUsers + 1
    /\ fetching' = TRUE /\ fetched' = FALSE /\ UNCHANGED users
    /\ crossed' = (crossed \/ getUsers > 0)

\* Mutant: a change does not forget that the one before was made.
SendKeepingDone(c) ==
    /\ \E i \in Places : changes[i] = NoChange /\ changes' = [changes EXCEPT ![i] = c]
    /\ sent.mine < MaxChanges /\ sent' = [sent EXCEPT !.mine = @ + 1]
    /\ doing' = [doing EXCEPT ![c.kind] = TRUE] /\ UNCHANGED done
    /\ missed' = (missed \/ doing[c.kind])
    /\ UNCHANGED <<server, groups, getGroups, people>>

\* UPDATING_GROUP, CREATING_GROUP, DELETING_GROUP
Send(c) ==
    /\ \E i \in Places : changes[i] = NoChange /\ changes' = [changes EXCEPT ![i] = c]
    /\ sent.mine < MaxChanges /\ sent' = [sent EXCEPT !.mine = @ + 1]
    /\ doing' = [doing EXCEPT ![c.kind] = TRUE] /\ done' = [done EXCEPT ![c.kind] = FALSE]
    /\ missed' = (missed \/ doing[c.kind])
    /\ UNCHANGED <<server, groups, getGroups, people>>

UpdateGroup(g, what, members, admins) ==
    Send([NoChange EXCEPT !.kind = "update", !.group = g, !.what = what,
                          !.members = members, !.admins = admins])

\* getUpdatedGroupMembers: all of us become members, unless all of us are.
ChangeMembers(g, us) ==
    LET group == groups.list[g]
    IN IF us \subseteq group.members
       THEN UpdateGroup(g, "members", group.members \ us, group.admins \ us)
       ELSE UpdateGroup(g, "members", group.members \cup us, group.admins)

\* getHeaderTitle throws when the selected group is not in the list.
Draw == broken' = (broken \/ (selection' # None /\ groups'.list[selection'] = Gone))

-------------------------------------------------------------------------------
(* The page *)

\* componentDidMount; the store is as earlier visits have left it.
Mount ==
    /\ ~open /\ open' = TRUE
    /\ UNCHANGED data /\ MakeUserRequest /\ GetGroups
    /\ UNCHANGED <<groups, status, broken, selection, selected, menu, showCreate, createUsers>>

\* The constructor's state
Unmount ==
    /\ open /\ open' = FALSE /\ broken' = FALSE
    /\ selection' = None /\ selected' = {} /\ menu' = None /\ showCreate' = FALSE
    /\ createUsers' = {}
    /\ UNCHANGED <<data, lists, people, status>>

HandleDrawerSelectionChange(s) ==
    /\ Usable /\ s \in Selectable
    /\ selection' = s /\ MakeUserRequest /\ UNCHANGED groups /\ Draw
    /\ UNCHANGED <<data, getGroups, missed, status, open, selected, menu, showCreate, createUsers>>

\* handleSearchKeyDown, handleSearchChange and handleSortChange
AskAgain ==
    /\ Usable /\ MakeUserRequest
    /\ UNCHANGED <<data, lists, status, page>>

\* handleSelectAll and handleIndividualSelect
Select(us) ==
    /\ Usable /\ us \subseteq users /\ selected' = us
    /\ UNCHANGED <<data, lists, people, status, open, broken, selection, menu, showCreate, createUsers>>

HandleOpen(u) ==
    /\ Usable /\ u \in users /\ menu' = u
    /\ UNCHANGED <<data, lists, people, status, open, broken, selection, selected, showCreate, createUsers>>

\* The menu for the selected users
OpenHeaderMenu ==
    /\ Usable /\ selected # {} /\ menu' = Header
    /\ UNCHANGED <<data, lists, people, status, open, broken, selection, selected, showCreate, createUsers>>

HandleClose ==
    /\ RowMenu \/ HeaderMenu
    /\ menu' = None
    /\ UNCHANGED <<data, lists, people, status, open, broken, selection, selected, showCreate, createUsers>>

\* The menu of a row stays open, that of the header closes.
HandleSingleUserChange(g) ==
    /\ RowMenu /\ g \in Owned
    /\ ChangeMembers(g, {menu})
    /\ UNCHANGED page

HandleMultiUserChange(g) ==
    /\ HeaderMenu /\ g \in Owned
    /\ ChangeMembers(g, selected)
    /\ menu' = None
    /\ UNCHANGED <<open, broken, selection, selected, showCreate, createUsers>>

\* Shown while the users of a group are.
ShowAdmin == selection # None /\ ~fetching

HandleMakeAdmin(u) ==
    /\ Usable /\ ShowAdmin /\ u \in users \ groups.list[selection].admins
    /\ UpdateGroup(selection, "admins", {}, groups.list[selection].admins \cup {u})
    /\ UNCHANGED page

HandleDemoteAdmin(u) ==
    /\ Usable /\ ShowAdmin /\ u \in users \cap groups.list[selection].admins
    /\ UpdateGroup(selection, "admins", {}, groups.list[selection].admins \ {u})
    /\ UNCHANGED page

\* From the menu of a row or of the header: with these users.
HandleNewGroupClick ==
    /\ \/ RowMenu /\ createUsers' = {menu}
       \/ HeaderMenu /\ createUsers' = selected
    /\ menu' = None /\ showCreate' = TRUE
    /\ UNCHANGED <<data, lists, people, status, open, broken, selection, selected>>

HandleCreateOpen ==
    /\ Usable /\ showCreate' = TRUE
    /\ UNCHANGED <<data, lists, people, status, open, broken, selection, selected, menu, createUsers>>

\* The users stay for the next time.
HandleCreateClose ==
    /\ open /\ ~broken /\ showCreate /\ showCreate' = FALSE
    /\ UNCHANGED <<open, broken, selection, selected, menu, createUsers>>

CancelCreate == HandleCreateClose /\ UNCHANGED <<data, lists, people, status>>

HandleCreateSave ==
    /\ HandleCreateClose
    /\ Send([NoChange EXCEPT !.kind = "create", !.members = createUsers])

HandleRenameSave(g) == Usable /\ g \in Owned /\ UpdateGroup(g, "name", {}, {}) /\ UNCHANGED page

HandleLeaveClick(g) == Usable /\ g \in Shared /\ UpdateGroup(g, "leave", {}, {}) /\ UNCHANGED page

HandleDeleteClick(g) ==
    /\ Usable /\ g \in Owned
    /\ Send([NoChange EXCEPT !.kind = "delete", !.group = g])
    /\ UNCHANGED page

-------------------------------------------------------------------------------
(* The server *)

\* The server answers the change in place i; a change that is made makes the lists
\* read before it old.
Serve(i, ok) ==
    /\ changes' = [changes EXCEPT ![i].stage = IF ok THEN "ok" ELSE "bad"]
    /\ groups' = [groups EXCEPT !.fresh = @ /\ ~ok]
    /\ getGroups' = [getGroups EXCEPT !.fresh = @ /\ ~(ok /\ getGroups.stage = "served")]
    /\ UNCHANGED <<sent, missed, people, status, page>>

\* partial_update: of anyone who does not administer the group it is a request to leave.
ServeUpdate(i) ==
    LET c == changes[i]
        group == server[c.group]
        to(members, admins) == server' = [server EXCEPT ![c.group].members = members, ![c.group].admins = admins]
    IN /\ c.kind = "update" /\ c.stage = "asked"
       /\ \/ /\ group.is = "there" /\ Me \notin group.admins /\ Me \in group.members
             /\ to(group.members \ {Me}, group.admins) /\ Serve(i, TRUE)
          \/ /\ Me \in group.admins /\ ~(c.what \in {"members", "admins"} /\ c.admins = {})
             /\ to(IF c.what = "members" THEN c.members ELSE group.members,
                   IF c.what \in {"members", "admins"} THEN c.admins ELSE group.admins)
             /\ Serve(i, TRUE)
          \/ /\ \/ Me \notin group.admins \cup group.members  \* or the group is gone
                \/ c.what \in {"members", "admins"} /\ c.admins = {}
                \/ c.what = "name"                            \* another group has it
             /\ UNCHANGED server /\ Serve(i, FALSE)

\* create: the user becomes a member and the administrator.  The name may be taken.
ServeCreate(i) ==
    /\ changes[i].kind = "create" /\ changes[i].stage = "asked"
    /\ \/ \E g \in Groups :
            /\ server[g].is = "unborn"
            /\ server' = [server EXCEPT ![g] = [is |-> "there", members |-> changes[i].members \cup {Me},
                                                admins |-> {Me}]]
            /\ Serve(i, TRUE)
       \/ UNCHANGED server /\ Serve(i, FALSE)

\* destroy
ServeDelete(i) ==
    LET g == changes[i].group
    IN /\ changes[i].kind = "delete" /\ changes[i].stage = "asked"
       /\ IF Me \in server[g].admins THEN server' = [server EXCEPT ![g] = Gone] /\ Serve(i, TRUE)
          ELSE UNCHANGED server /\ Serve(i, FALSE)

ServeGroups ==
    /\ getGroups.stage = "asked"
    /\ getGroups' = [stage |-> "served", list |-> Listing(server), fresh |-> TRUE]
    /\ UNCHANGED <<data, groups, missed, people, status, page>>

\* What another administrator's page may have the server do: it keeps that user one.
OtherChange(u) ==
    /\ sent.others < MaxOthers /\ sent' = [sent EXCEPT !.others = @ + 1]
    /\ \E g \in Groups :
         /\ u \in server[g].admins
         /\ \/ \E m, a \in SUBSET Users :
                 u \in m \cap a /\ server' = [server EXCEPT ![g].members = m, ![g].admins = a]
            \/ server' = [server EXCEPT ![g] = Gone]
    /\ UNCHANGED <<changes, lists, people, status, page>>

-------------------------------------------------------------------------------
(* Answers *)

Take(i, stage) ==
    /\ changes[i].stage = stage /\ changes[i] # NoChange
    /\ changes' = [changes EXCEPT ![i] = NoChange] /\ UNCHANGED sent

\* Mutant: the spinner goes on.
MadeStillDoing(k) == UNCHANGED doing /\ done' = [done EXCEPT ![k] = TRUE]

\* UPDATED_GROUP, CREATED_GROUP, DELETED_GROUP
Made(k) == doing' = [doing EXCEPT ![k] = FALSE] /\ done' = [done EXCEPT ![k] = TRUE]

\* UPDATED_GROUP: noticed only if the update before has not just been.
Updated(i) ==
    /\ changes[i].kind = "update" /\ Take(i, "ok") /\ Made("update")
    /\ IF open /\ ~done["update"] THEN MakeUserRequest /\ GetGroups
       ELSE UNCHANGED <<people, getGroups, missed>>
    /\ UNCHANGED <<server, groups, page>>

Created(i) ==
    /\ changes[i].kind = "create" /\ Take(i, "ok") /\ Made("create")
    /\ IF open /\ ~done["create"]
       THEN /\ GetGroups /\ createUsers' = {}
            /\ IF createUsers # {} THEN MakeUserRequest ELSE UNCHANGED people
       ELSE UNCHANGED <<people, getGroups, missed, createUsers>>
    /\ UNCHANGED <<server, groups, open, broken, selection, selected, menu, showCreate>>

Deleted(i) ==
    /\ changes[i].kind = "delete" /\ Take(i, "ok") /\ Made("delete")
    /\ IF open /\ ~done["delete"] THEN MakeUserRequest /\ GetGroups /\ selection' = None
       ELSE UNCHANGED <<people, getGroups, missed, selection>>
    /\ UNCHANGED <<server, groups, open, broken, selected, menu, showCreate, createUsers>>

\* An error of the server, or of the proxy for a change that was made.
ChangeFails(i) ==
    LET k == changes[i].kind
    IN /\ \E stage \in {"ok", "bad"} : Take(i, stage)
       /\ doing' = [doing EXCEPT ![k] = FALSE] /\ done' = [done EXCEPT ![k] = FALSE]
       /\ missed' = (missed \/ changes[i].stage = "ok")
       /\ UNCHANGED <<server, groups, getGroups, people, page>>

\* Without a response the handler throws: the overlay stays.
ChangeUnanswered(i) ==
    /\ \E stage \in {"asked", "ok", "bad"} : Take(i, stage)
    /\ UNCHANGED <<server, lists, people, status, page>>

GroupsReceived ==
    /\ getGroups.stage = "served" /\ getGroups' = NoGet
    /\ groups' = [is |-> "list", list |-> getGroups.list, fresh |-> getGroups.fresh]
    /\ UNCHANGED selection /\ Draw
    /\ UNCHANGED <<data, missed, people, status, open, selected, menu, showCreate, createUsers>>

\* FETCH_GROUPS_ERROR leaves no groups.
GroupsError ==
    /\ getGroups.stage # "none" /\ getGroups.stage # "lost" /\ getGroups' = NoGet
    /\ groups' = [is |-> "none", list |-> NoList, fresh |-> TRUE]
    /\ UNCHANGED selection /\ Draw
    /\ UNCHANGED <<data, missed, people, status, open, selected, menu, showCreate, createUsers>>

\* fetching stays true.
GroupsUnanswered ==
    /\ getGroups.stage \in {"asked", "served"} /\ getGroups' = [NoGet EXCEPT !.stage = "lost"]
    /\ UNCHANGED <<data, groups, missed, people, status, page>>

\* FETCHED_USERS: the selection is reduced to the users of the new list, if the page
\* notices it.  The users may be any: who is new, who is in a group changes meanwhile.
UsersReceived ==
    /\ getUsers > 0 /\ getUsers' = getUsers - 1
    /\ users' \in SUBSET Others
    /\ fetching' = FALSE /\ fetched' = TRUE
    /\ selected' = IF open /\ ~fetched THEN selected \cap users' ELSE selected
    /\ crossed' = (crossed /\ (fetched \/ getUsers > 1))
    /\ menu' = IF menu \in users' \cup {Header} THEN menu ELSE None
    /\ UNCHANGED <<data, lists, status, open, broken, selection, showCreate, createUsers>>

\* FETCH_USERS_ERROR keeps the users.
UsersError ==
    /\ getUsers > 0 /\ getUsers' = getUsers - 1
    /\ fetching' = FALSE /\ fetched' = FALSE
    /\ UNCHANGED <<data, lists, users, crossed, status, page>>

UsersUnanswered ==
    /\ getUsers > 0 /\ getUsers' = getUsers - 1
    /\ UNCHANGED <<data, lists, users, fetching, fetched, crossed, status, page>>

-------------------------------------------------------------------------------
Init ==
    /\ server \in [Groups -> {[is |-> "unborn", members |-> {}, admins |-> {}]}
                        \cup [is : {"there"}, members : {Users}, admins : (SUBSET Users) \ {{}}]]
    /\ changes = [i \in Places |-> NoChange] /\ sent = [mine |-> 0, others |-> 0]
    /\ groups = [is |-> "none", list |-> NoList, fresh |-> TRUE] /\ getGroups = NoGet
    /\ doing = [k \in Kinds |-> FALSE] /\ done = [k \in Kinds |-> FALSE]
    /\ users = {} /\ fetching = FALSE /\ fetched = FALSE /\ getUsers = 0
    /\ open = FALSE /\ broken = FALSE /\ selection = None /\ selected = {} /\ menu = None
    /\ showCreate = FALSE /\ createUsers = {}
    /\ missed = FALSE /\ crossed = FALSE

Next ==
    \/ Mount \/ Unmount \/ AskAgain
    \/ \E s \in Groups \cup {None} : HandleDrawerSelectionChange(s)
    \/ \E us \in SUBSET Others : Select(us)
    \/ \E u \in Others : HandleOpen(u) \/ HandleMakeAdmin(u) \/ HandleDemoteAdmin(u) \/ OtherChange(u)
    \/ OpenHeaderMenu \/ HandleClose \/ HandleNewGroupClick
    \/ HandleCreateOpen \/ CancelCreate \/ HandleCreateSave
    \/ \E g \in Groups : \/ HandleSingleUserChange(g) \/ HandleMultiUserChange(g) \/ HandleRenameSave(g)
                         \/ HandleLeaveClick(g) \/ HandleDeleteClick(g)
    \/ \E i \in Places : \/ ServeUpdate(i) \/ ServeCreate(i) \/ ServeDelete(i)
                         \/ Updated(i) \/ Created(i) \/ Deleted(i) \/ ChangeFails(i) \/ ChangeUnanswered(i)
    \/ ServeGroups \/ GroupsReceived \/ GroupsError \/ GroupsUnanswered
    \/ UsersReceived \/ UsersError \/ UsersUnanswered

Spec == Init /\ [][Next]_vars
-------------------------------------------------------------------------------
(* Properties *)

TypeOK ==
    /\ server \in [Groups -> Group]
    /\ groups.is \in {"none", "list"} /\ groups.list \in [Groups -> Group] /\ groups.fresh \in BOOLEAN
    /\ getGroups.stage \in {"none", "asked", "served", "lost"} /\ getGroups.list \in [Groups -> Group]
    /\ \A i \in Places : changes[i].kind \in Kinds \cup {"none"} /\ changes[i].members \subseteq Users
    /\ doing \in [Kinds -> BOOLEAN] /\ done \in [Kinds -> BOOLEAN]
    /\ {fetching, fetched, open, broken, showCreate, missed, crossed} \subseteq BOOLEAN
    /\ users \subseteq Others /\ selected \subseteq Others /\ createUsers \subseteq Others
    /\ getUsers \in 0..MaxUsers /\ sent \in [mine : 0..MaxChanges, others : 0..MaxOthers]
    /\ selection \in Groups \cup {None} /\ menu \in Others \cup {Header, None}
    /\ \A k \in Kinds : ~(doing[k] /\ done[k])
    /\ open /\ ~broken /\ selection # None => groups.list[selection].is = "there"

\* A page that waits for nothing shows every change its user has made, errors and earlier
\* visits included, unless two of a kind were made at once, or a change that was made was
\* answered with an error.
OwnChangesShown ==
    open /\ ~Overlay /\ ~missed /\ groups.is = "list" => groups.fresh

\* What is done to the selected users is done to users in the list, unless the list was
\* asked for twice at once.
SelectionIsListed == open /\ ~crossed => selected \subseteq users

\* "If a member wishes to remove themselves from a group they can make an patch request
\* with no body" (api/views.py): only such a request of theirs makes members leave.
LeavesOnlyIfAsked ==
    [][\A i \in Places, g \in Groups :
          changes[i].stage = "asked" /\ changes'[i].stage = "ok"
              /\ Me \in server[g].members /\ Me \notin server'[g].members
          => changes[i].what = "leave" \/ changes[i].kind = "delete"]_vars
===============================================================================
