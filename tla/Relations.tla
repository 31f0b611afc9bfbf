------------------------------ MODULE Relations ------------------------------
(***************************************************************************)
(* ChatServer: the handlers of friend requests and groups (LogicSystem.cpp)*)
(* and the operations of MySQLMgr.cpp they call.  The tables are shared by *)
(* all chat servers.  Every SQL statement is a transaction of its own, so  *)
(* handlers interleave between any two of their statements:                *)
(*   ID_ADD_FRIEND_REQ    addFriendRequest: friends already? pending       *)
(*                        already? insert the request                      *)
(*   ID_AUTH_FRIEND_REQ   updateFriendRequestStatus, then, if accepted,    *)
(*                        addFriendRelation: friends already? insert       *)
(*   ID_CREATE_GROUP_REQ  createGroup: insert the group, then its owner    *)
(*   ID_ADD_GROUP_MEMBER_REQ, ID_REMOVE_GROUP_MEMBER_REQ                   *)
(* A statement may fail, before or after the database executed it, and a   *)
(* server may crash between two statements.  Where replies and notices     *)
(* travel is Delivery; here is what they say.  A client answers requests   *)
(* it was shown and changes groups it knows, and asks nobody but others.   *)
(***************************************************************************)
EXTENDS Integers, Sequences, FiniteSets

CONSTANTS Users,        \* uids
          Handlers,     \* worker threads, each of a server of its own
          MemberLists,  \* the lists of uids clients ask to add to a group
          MaxRequests,  \* bound: rows of friend_requests
          MaxGroups,    \* bound: rows of groups
          Sizes         \* bound: numbers of rows the two tables have together

ASSUME RelationsAssumption ==
  /\ MaxRequests \in Nat /\ MaxGroups \in Nat
  /\ Sizes \subseteq (0 .. MaxRequests) \X (0 .. MaxGroups)
  /\ MemberLists \subseteq Seq(Users) /\ IsFiniteSet(Handlers)

VARIABLES friend_requests, \* the rows by id
          friendships,     \* the pairs of friends
          groups,          \* the owners of the groups by group_id
          group_members,   \* the rows <<group_id, uid>>
          stmt,            \* the statement each handler is about to execute
          task,            \* the message each handler works on
          agreed,          \* ghost: the pairs of which a request was ever accepted
          announced,       \* ghost: the pairs told that their request was accepted
          joined,          \* ghost: every row group_members ever had
          halfAccepted,    \* ghost: acceptances broken off before the relation
          halfCreated,     \* ghost: groups whose creation was broken off
          told            \* ghost: the group tasks whose sender was told SUCCESS

tables == <<friend_requests, friendships, groups, group_members>>
ghosts == <<agreed, announced, joined, halfAccepted, halfCreated, told>>
vars == <<tables, stmt, task, ghosts>>

Requests == 1 .. MaxRequests
Groups == 1 .. MaxGroups

AddFriend == [kind : {"addFriend"}, from : Users, to : Users]
AuthFriend == [kind : {"authFriend"}, id : Requests, accept : BOOLEAN]
CreateGroup == [kind : {"createGroup"}, owner : Users, group : 0 .. MaxGroups]
AddMembers == [kind : {"addMembers"}, group : Groups, uids : MemberLists, next : Nat]
RemoveMember == [kind : {"removeMember"}, group : Groups, uid : Users]
NoTask == [kind |-> "none"]
Tasks == AddFriend \cup AuthFriend \cup CreateGroup \cup AddMembers \cup RemoveMember

Steps == {"idle", "checkFriends", "checkPending", "insertRequest", "updateStatus",
          "checkRelation", "insertRelation", "insertGroup", "insertOwner",
          "insertMember", "deleteMember", "success", "failure"}

\* user1_id < user2_id: one row for the two.
Pair(a, b) == {a, b}

Rows == 1 .. Len(friend_requests)
PairOf(r) == Pair(friend_requests[r].from, friend_requests[r].to)

Pending(a, b) == {r \in Rows : friend_requests[r] = [from |-> a, to |-> b, status |-> "pending"]}

TypeOK ==
  /\ friend_requests \in Seq([from : Users, to : Users,
                              status : {"pending", "accepted", "rejected"}])
  /\ Len(friend_requests) <= MaxRequests
  /\ friendships \subseteq {{a, b} : a \in Users, b \in Users}
  /\ groups \in Seq(Users) /\ Len(groups) <= MaxGroups
  /\ group_members \subseteq (1 .. Len(groups)) \X Users
  /\ joined \subseteq (1 .. Len(groups)) \X Users
  /\ agreed \cup announced \subseteq {PairOf(r) : r \in Rows}
  /\ halfAccepted \subseteq Rows
  /\ halfCreated \subseteq 1 .. Len(groups)
  /\ stmt \in [Handlers -> Steps]
  /\ \A h \in Handlers : stmt[h] # "idle" => task[h] \in Tasks
  /\ told \subseteq CreateGroup \cup AddMembers

Init ==
  /\ friend_requests = <<>> /\ friendships = {} /\ groups = <<>> /\ group_members = {}
  /\ stmt = [h \in Handlers |-> "idle"]
  /\ task = [h \in Handlers |-> NoTask]
  /\ agreed = {} /\ announced = {} /\ joined = {} /\ halfAccepted = {} /\ halfCreated = {} /\ told = {}

Goto(h, step) == stmt' = [stmt EXCEPT ![h] = step]

Leave(h) == Goto(h, "idle") /\ task' = [task EXCEPT ![h] = NoTask]

\* How a statement that writes may end: executed and known to be, executed
\* though the handler sees an error (the connection broke), or not executed.
Outcomes == {"ok", "lost", "failed"}
-----------------------------------------------------------------------------
(* Messages *)

Handle(h, step, message) ==
  /\ stmt[h] = "idle"
  /\ Goto(h, step)
  /\ task' = [task EXCEPT ![h] = message]
  /\ UNCHANGED <<tables, ghosts>>

AddFriendReq(h, a, b) ==
  a # b /\ Handle(h, "checkFriends", [kind |-> "addFriend", from |-> a, to |-> b])

\* A client answers a request from the list that sendInitialData sent it while the
\* request was pending; it may do so late, twice and from two devices.
AuthFriendReq(h, r, accept) ==
  /\ r \in Rows
  /\ Handle(h, "updateStatus", [kind |-> "authFriend", id |-> r, accept |-> accept])

CreateGroupReq(h, u) ==
  Handle(h, "insertGroup", [kind |-> "createGroup", owner |-> u, group |-> 0])

\* A client knows a group from the answer to its creation or as a member.
Known(g) ==
  \/ \E t \in told : t.kind = "createGroup" /\ t.group = g
  \/ \E m \in joined : m[1] = g

AddGroupMemberReq(h, g, uids) ==
  /\ Known(g)
  /\ Handle(h, IF uids = <<>> THEN "success" ELSE "insertMember",
            [kind |-> "addMembers", group |-> g, uids |-> uids, next |-> 1])

RemoveGroupMemberReq(h, g, u) ==
  /\ Known(g)
  /\ Handle(h, "deleteMember", [kind |-> "removeMember", group |-> g, uid |-> u])

-----------------------------------------------------------------------------
(* addFriendRequest *)

CheckFriends(h) ==
  /\ stmt[h] = "checkFriends"
  /\ \/ /\ Pair(task[h].from, task[h].to) \notin friendships
        /\ Goto(h, "checkPending")
     \/ Goto(h, "failure")
  /\ UNCHANGED <<tables, task, ghosts>>

\* Mutant: the check for a pending request is dropped.
CheckPendingDropped(h) ==
  /\ stmt[h] = "checkPending"
  /\ Goto(h, "insertRequest")
  /\ UNCHANGED <<tables, task, ghosts>>

CheckPending(h) ==
  /\ stmt[h] = "checkPending"
  /\ \/ /\ Pending(task[h].from, task[h].to) = {}
        /\ Goto(h, "insertRequest")
     \/ Goto(h, "failure")
  /\ UNCHANGED <<tables, task, ghosts>>

InsertRequest(h, out) ==
  /\ stmt[h] = "insertRequest"
  /\ <<Len(friend_requests) + 1, Len(groups)>> \in Sizes
  /\ friend_requests' = IF out = "failed" THEN friend_requests ELSE
       Append(friend_requests, [from |-> task[h].from, to |-> task[h].to, status |-> "pending"])
  /\ Goto(h, IF out = "ok" THEN "success" ELSE "failure")
  /\ UNCHANGED <<friendships, groups, group_members, task, ghosts>>
-----------------------------------------------------------------------------
(* updateFriendRequestStatus, then addFriendRelation *)

\* Mutant: a rejected request is followed by the relation, too.
AfterUpdateAlways(h) == "checkRelation"

\* Mutant: the relation is left out.
AfterUpdateNever(h) == "success"

AfterUpdate(h) == IF task[h].accept THEN "checkRelation" ELSE "success"

\* Whatever the status was; response_time is left out.
UpdateStatus(h, out) ==
  /\ stmt[h] = "updateStatus"
  /\ LET r == task[h].id
         accepted == task[h].accept
     IN IF out = "failed" THEN UNCHANGED <<friend_requests, agreed, halfAccepted>> ELSE
        /\ friend_requests' = [friend_requests EXCEPT ![r].status =
                                 IF accepted THEN "accepted" ELSE "rejected"]
        /\ agreed' = IF accepted THEN agreed \cup {PairOf(r)} ELSE agreed
        /\ halfAccepted' = IF accepted /\ out = "lost" THEN halfAccepted \cup {r}
                                                       ELSE halfAccepted
  /\ Goto(h, IF out = "ok" THEN AfterUpdate(h) ELSE "failure")
  /\ UNCHANGED <<friendships, groups, group_members, task, announced, joined, halfCreated, told>>

CheckRelation(h) ==
  /\ stmt[h] = "checkRelation"
  /\ LET p == PairOf(task[h].id) IN
     \/ Goto(h, IF p \in friendships THEN "success" ELSE "insertRelation") /\ UNCHANGED halfAccepted
     \/ Goto(h, "failure") /\ halfAccepted' = halfAccepted \cup {task[h].id}
  /\ UNCHANGED <<tables, task, agreed, announced, joined, halfCreated, told>>

\* Mutant: an error of the insertion is not reported.
AfterInsertAnyway(out) == "success"

AfterInsert(out) == IF out = "ok" THEN "success" ELSE "failure"

\* The unique key refuses a second row for the pair.
InsertRelation(h, out) ==
  /\ stmt[h] = "insertRelation"
  /\ LET p == PairOf(task[h].id) IN
     /\ p \in friendships => out = "failed"
     /\ friendships' = IF out = "failed" THEN friendships ELSE friendships \cup {p}
     /\ halfAccepted' = IF out = "failed" /\ p \notin friendships
                         THEN halfAccepted \cup {task[h].id} ELSE halfAccepted
  /\ Goto(h, AfterInsert(out))
  /\ UNCHANGED <<friend_requests, groups, group_members, task, agreed, announced, joined,
                 halfCreated, told>>
-----------------------------------------------------------------------------
(* createGroup, addGroupMember, removeGroupMember *)

\* Mutant: the id is used without being read.
getAutoIncrementValueUnread == 0

getAutoIncrementValue == Len(groups) + 1

InsertGroup(h, out) ==
  /\ stmt[h] = "insertGroup"
  /\ <<Len(friend_requests), Len(groups) + 1>> \in Sizes
  /\ IF out = "failed" THEN UNCHANGED <<groups, task, halfCreated>> ELSE
     /\ groups' = Append(groups, task[h].owner)
     /\ IF out = "ok"
        THEN task' = [task EXCEPT ![h].group = getAutoIncrementValue] /\ UNCHANGED halfCreated
        ELSE halfCreated' = halfCreated \cup {Len(groups) + 1} /\ UNCHANGED task
  /\ Goto(h, IF out = "ok" THEN "insertOwner" ELSE "failure")
  /\ UNCHANGED <<friend_requests, friendships, group_members, agreed, announced, joined,
                 halfAccepted, told>>

\* INSERT INTO group_members: refused for a row that is there.
InsertRow(m, out) ==
  /\ m \in group_members => out = "failed"
  /\ group_members' = IF out = "failed" THEN group_members ELSE group_members \cup {m}
  /\ joined' = IF out = "failed" THEN joined ELSE joined \cup {m}

\* The result of addGroupMember is not looked at.
InsertOwner(h, out) ==
  /\ stmt[h] = "insertOwner"
  /\ InsertRow(<<task[h].group, task[h].owner>>, out)
  /\ halfCreated' = IF out = "failed" THEN halfCreated \cup {task[h].group} ELSE halfCreated
  /\ Goto(h, "success")
  /\ UNCHANGED <<friend_requests, friendships, groups, task, agreed, announced, halfAccepted, told>>

\* One turn of the handler's loop over uids; the first failure ends it.
InsertMember(h, out) ==
  /\ stmt[h] = "insertMember"
  /\ InsertRow(<<task[h].group, task[h].uids[task[h].next]>>, out)
  /\ task' = [task EXCEPT ![h].next = @ + 1]
  /\ Goto(h, IF out # "ok" THEN "failure" ELSE
             IF task[h].next = Len(task[h].uids) THEN "success" ELSE "insertMember")
  /\ UNCHANGED <<friend_requests, friendships, groups, agreed, announced, halfAccepted,
                 halfCreated, told>>

DeleteMember(h, out) ==
  /\ stmt[h] = "deleteMember"
  /\ group_members' = IF out = "failed" THEN group_members
                      ELSE group_members \ {<<task[h].group, task[h].uid>>}
  /\ Goto(h, IF out = "ok" THEN "success" ELSE "failure")
  /\ UNCHANGED <<friend_requests, friendships, groups, task, ghosts>>
-----------------------------------------------------------------------------
\* The notice to the other user, if any, and the answer to the sender.
Reply(h) ==
  /\ stmt[h] \in {"success", "failure"}
  /\ LET t == task[h]
         success == stmt[h] = "success"
     IN /\ announced' = IF success /\ t.kind = "authFriend" /\ t.accept
                        THEN announced \cup {PairOf(t.id)} ELSE announced
        /\ told' = IF success /\ t.kind \in {"createGroup", "addMembers"}
                   THEN told \cup {t} ELSE told
  /\ Leave(h)
  /\ UNCHANGED <<tables, agreed, joined, halfAccepted, halfCreated>>

\* The server stops between two statements.
Crash(h) ==
  /\ stmt[h] # "idle"
  /\ Leave(h)
  /\ halfAccepted' = IF stmt[h] \in {"checkRelation", "insertRelation"}
                     THEN halfAccepted \cup {task[h].id} ELSE halfAccepted
  /\ halfCreated' = IF stmt[h] = "insertOwner"
                    THEN halfCreated \cup {task[h].group} ELSE halfCreated
  /\ UNCHANGED <<tables, agreed, announced, joined, told>>

Message(h) ==
  \/ \E a, b \in Users : AddFriendReq(h, a, b)
  \/ \E r \in Requests, accept \in BOOLEAN : AuthFriendReq(h, r, accept)
  \/ \E u \in Users : CreateGroupReq(h, u)
  \/ \E g \in Groups, uids \in MemberLists : AddGroupMemberReq(h, g, uids)
  \/ \E g \in Groups, u \in Users : RemoveGroupMemberReq(h, g, u)

Execute(h) ==
  \/ CheckFriends(h) \/ CheckPending(h) \/ CheckRelation(h)
  \/ \E out \in Outcomes :
       \/ InsertRequest(h, out) \/ UpdateStatus(h, out) \/ InsertRelation(h, out)
       \/ InsertGroup(h, out) \/ InsertOwner(h, out)
       \/ InsertMember(h, out) \/ DeleteMember(h, out)

Next ==
  \E h \in Handlers : Message(h) \/ Execute(h) \/ Reply(h) \/ Crash(h)

Spec == Init /\ [][Next]_vars
-----------------------------------------------------------------------------
(* Properties *)

\* What a client was told to have succeeded is in the tables, whatever ran at the
\* same time and whatever failed: the two are friends, the group exists, and every
\* user on the list was made a member.
RepliesAreTrue ==
  /\ announced \subseteq friendships
  /\ \A t \in told :
    /\ t.kind = "createGroup" => t.group \in 1 .. Len(groups) /\ groups[t.group] = t.owner
    /\ t.kind = "addMembers" => \A i \in 1 .. Len(t.uids) : <<t.group, t.uids[i]>> \in joined

\* An accepted request without a friendship, and a group its owner never joined,
\* are left behind only by a failed statement or a crash: no interleaving of
\* handlers on several servers does it.
HalfDoneOnlyByFailure ==
  /\ \A r \in Rows : friend_requests[r].status = "accepted" =>
       \/ PairOf(r) \in friendships \/ r \in halfAccepted
       \/ \E h \in Handlers : /\ stmt[h] \in {"checkRelation", "insertRelation"}
                             /\ task[h].id = r
  /\ \A g \in 1 .. Len(groups) :
       \/ <<g, groups[g]>> \in joined \/ g \in halfCreated
       \/ \E h \in Handlers : stmt[h] = "insertOwner" /\ task[h].group = g

\* addFriendRequest checks and inserts in two statements, so one user may have
\* several pending requests to another, but no more than there are threads that
\* can handle them at once (worker threads give one per server).
RacesAreBounded ==
  \A a, b \in Users : Cardinality(Pending(a, b)) <= Cardinality(Handlers)

Book == INSTANCE FriendBook WITH
  Pairs <- {{a, b} : a \in Users, b \in Users},
  asked <- {PairOf(r) : r \in Rows},
  friends <- friendships

\* The tables implement the book of friends: asked, then accepted, then stored,
\* then announced, in this order for every pair, though each is a statement of
\* its own and answers come late, twice and contradict each other.
ImplementsFriendBook == Book!Spec
=============================================================================
