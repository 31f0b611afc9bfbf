--------------------------- MODULE DatabaseProofs ---------------------------
(***************************************************************************)
(* Proofs about what the ChatServer keeps in the database, and about the   *)
(* sessions it reaches the database through.                               *)
(*                                                                         *)
(* Relations, for any users, any finite set of handlers, any lists of      *)
(* members and tables of any size.  A handler knows something when it      *)
(* comes to a statement, from the statements before: that the request was  *)
(* accepted, which id the group has, who is a member already.  All of it   *)
(* is about rows no statement removes, so other handlers cannot spoil it;  *)
(* with it every answer, every half-done acceptance and every step of the  *)
(* book of friends can be accounted for.                                   *)
(*                                                                         *)
(* MySQLPool, for any number of operations, nested or not, and any pool    *)
(* size.  That no notification is lost is a count: each session that       *)
(* enters the pool sends one waiter to it, and each that is taken is taken *)
(* by a thread that was on its way.                                        *)
(***************************************************************************)
EXTENDS Relations, MySQLPool, FiniteSetTheorems, TLAPS
-----------------------------------------------------------------------------
(* Friends and groups *)

\* The group a task created is its sender's.
Made(t) == t.group \in 1 .. Len(groups) /\ groups[t.group] = t.owner

\* What a task that succeeded did is in the tables.
Done(t) ==
  /\ t \in AuthFriend /\ t.accept => PairOf(t.id) \in friendships
  /\ t \in CreateGroup => Made(t)
  /\ t \in AddMembers => \A i \in 1 .. Len(t.uids) : <<t.group, t.uids[i]>> \in joined

\* The message a handler works on is one the statement belongs to.
PlaceInv(h) ==
  /\ stmt[h] \in {"checkFriends", "checkPending", "insertRequest"} => task[h] \in AddFriend
  /\ stmt[h] \in {"updateStatus", "checkRelation", "insertRelation"} => task[h] \in AuthFriend
  /\ stmt[h] \in {"insertGroup", "insertOwner"} => task[h] \in CreateGroup
  /\ stmt[h] = "insertMember" => task[h] \in AddMembers
  /\ stmt[h] = "deleteMember" => task[h] \in RemoveMember
  /\ stmt[h] \in {"success", "failure"} => task[h] \in Tasks

\* What a handler knows when it comes to a statement, because of those before.
KnownInv(h) ==
  /\ task[h] \in AuthFriend => task[h].id \in Rows
  /\ stmt[h] \in {"checkRelation", "insertRelation"} =>
       task[h].accept /\ PairOf(task[h].id) \in agreed
  /\ stmt[h] = "insertOwner" => Made(task[h])
  /\ stmt[h] = "insertMember" =>
       /\ task[h].group \in 1 .. Len(groups)
       /\ task[h].next \in 1 .. Len(task[h].uids)
       /\ \A i \in 1 .. Len(task[h].uids) :
            i < task[h].next => <<task[h].group, task[h].uids[i]>> \in joined
  /\ stmt[h] = "success" => Done(task[h])

HandlerInv == \A h \in Handlers : PlaceInv(h) /\ KnownInv(h)

TaskInv == task \in [Handlers -> Tasks \cup {NoTask}]

\* The handlers that found no request pending and are about to insert one.
Inserters(a, b) ==
  {h \in Handlers : stmt[h] = "insertRequest" /\ task[h].from = a /\ task[h].to = b}

\* Every pending request, there or to come, takes a handler of its own.
RaceInv ==
  \A a, b \in Users :
    Cardinality(Pending(a, b)) + Cardinality(Inserters(a, b)) <= Cardinality(Handlers)

RelInv ==
  /\ TypeOK /\ TaskInv /\ HandlerInv /\ RaceInv /\ RepliesAreTrue /\ HalfDoneOnlyByFailure
-----------------------------------------------------------------------------
(* What the tables keep *)

\* What no statement takes back.
Grows ==
  /\ Len(friend_requests) <= Len(friend_requests')
  /\ \A r \in Rows : /\ friend_requests'[r].from = friend_requests[r].from
                     /\ friend_requests'[r].to = friend_requests[r].to
  /\ Len(groups) <= Len(groups') /\ \A g \in 1 .. Len(groups) : groups'[g] = groups[g]
  /\ agreed \subseteq agreed' /\ friendships \subseteq friendships' /\ joined \subseteq joined'
  /\ halfAccepted \subseteq halfAccepted' /\ halfCreated \subseteq halfCreated'

LEMMA TaskKinds ==
  /\ \A t \in AddFriend : t.kind = "addFriend" /\ t.from \in Users /\ t.to \in Users
  /\ \A t \in AuthFriend : t.kind = "authFriend" /\ t.id \in Requests /\ t.accept \in BOOLEAN
  /\ \A t \in CreateGroup :
       t.kind = "createGroup" /\ t.owner \in Users /\ t.group \in 0 .. MaxGroups
  /\ \A t \in AddMembers : /\ t.kind = "addMembers" /\ t.group \in Groups
                           /\ t.uids \in MemberLists /\ t.next \in Nat
  /\ \A t \in RemoveMember : t.kind = "removeMember" /\ t.group \in Groups /\ t.uid \in Users
  /\ NoTask.kind = "none"
  BY DEF AddFriend, AuthFriend, CreateGroup, AddMembers, RemoveMember, NoTask

\* A message keeps its kind: what is of one kind is of no other.
LEMMA OneKind ==
  ASSUME NEW t \in Tasks \cup {NoTask}
  PROVE  /\ t.kind = "addFriend" => t \in AddFriend
         /\ t.kind = "authFriend" => t \in AuthFriend
         /\ t.kind = "createGroup" => t \in CreateGroup
         /\ t.kind = "addMembers" => t \in AddMembers
         /\ t.kind = "removeMember" => t \in RemoveMember
  BY TaskKinds DEF Tasks

LEMMA TableTypes ==
  ASSUME TypeOK
  PROVE  /\ Len(friend_requests) \in 0 .. MaxRequests /\ Len(groups) \in 0 .. MaxGroups
         /\ \A r \in Rows : /\ friend_requests[r].from \in Users
                            /\ friend_requests[r].to \in Users
                            /\ friend_requests[r].status \in {"pending", "accepted", "rejected"}
                            /\ friend_requests[r] = [from |-> friend_requests[r].from,
                                 to |-> friend_requests[r].to,
                                 status |-> friend_requests[r].status]
         /\ \A g \in 1 .. Len(groups) : groups[g] \in Users
  <1>1. /\ friend_requests \in Seq([from : Users, to : Users,
                                    status : {"pending", "accepted", "rejected"}])
        /\ Len(friend_requests) <= MaxRequests /\ groups \in Seq(Users)
        /\ Len(groups) <= MaxGroups
    BY DEF TypeOK
  <1>2. \A r \in Rows : friend_requests[r] \in [from : Users, to : Users,
                                    status : {"pending", "accepted", "rejected"}]
    <2> DEFINE S == [from : Users, to : Users, status : {"pending", "accepted", "rejected"}]
    <2>1. friend_requests \in Seq(S)
      BY <1>1
    <2> HIDE DEF S
    <2>2. \A r \in Rows : friend_requests[r] \in S
      BY <2>1 DEF Rows
    <2> QED BY <2>2 DEF S
  <1> QED BY <1>1, <1>2, RelationsAssumption

\* A pair of which a request exists stays one.
LEMMA PairsKeep ==
  ASSUME TypeOK, Grows
  PROVE  /\ Rows \subseteq Rows' /\ \A r \in Rows : PairOf(r)' = PairOf(r)
         /\ {PairOf(r) : r \in Rows} \subseteq {PairOf(r) : r \in Rows}'
         /\ 1 .. Len(groups) \subseteq 1 .. Len(groups')
  <1>1. Rows \subseteq Rows'
    BY DEF Rows, Grows, TypeOK
  <1>2. \A r \in Rows : PairOf(r)' = PairOf(r)
    BY DEF Grows, PairOf
  <1>3. 1 .. Len(groups) \subseteq 1 .. Len(groups')
    BY DEF Grows, TypeOK
  <1> QED BY <1>1, <1>2, <1>3

\* What one handler knows is not spoilt by the others.
LEMMA OthersKeep ==
  ASSUME TypeOK, HandlerInv, Grows, NEW h \in Handlers, PlaceInv(h)', KnownInv(h)',
         \A j \in Handlers \ {h} : stmt'[j] = stmt[j] /\ task'[j] = task[j]
  PROVE  HandlerInv'
  <1> SUFFICES ASSUME NEW j \in Handlers \ {h} PROVE PlaceInv(j)' /\ KnownInv(j)'
    BY DEF HandlerInv
  <1>1. PlaceInv(j) /\ KnownInv(j) /\ stmt'[j] = stmt[j] /\ task'[j] = task[j]
    BY DEF HandlerInv
  <1>2. PlaceInv(j)'
    BY <1>1 DEF PlaceInv
  <1>3. task[j] \in AuthFriend => task[j].id \in Rows'
    BY <1>1, PairsKeep DEF KnownInv
  <1>4. stmt[j] \in {"checkRelation", "insertRelation"} =>
          task[j].accept /\ PairOf(task[j].id)' \in agreed'
    <2>1. ASSUME stmt[j] \in {"checkRelation", "insertRelation"}
          PROVE  task[j].accept /\ PairOf(task[j].id) \in agreed /\ task[j].id \in Rows
      BY <1>1, <2>1 DEF PlaceInv, KnownInv
    <2> QED BY <2>1, PairsKeep DEF Grows
  <1>5. stmt[j] = "insertOwner" => Made(task[j])'
    <2> SUFFICES ASSUME stmt[j] = "insertOwner" PROVE Made(task[j])'
      OBVIOUS
    <2>1. Made(task[j])
      BY <1>1 DEF KnownInv
    <2> QED BY <2>1, <1>1, PairsKeep DEF Made, Grows
  <1>6. stmt[j] = "insertMember" =>
          /\ task[j].group \in 1 .. Len(groups')
          /\ task[j].next \in 1 .. Len(task[j].uids)
          /\ \A i \in 1 .. Len(task[j].uids) :
               i < task[j].next => <<task[j].group, task[j].uids[i]>> \in joined'
    BY <1>1, PairsKeep DEF KnownInv, Grows
  <1>7. stmt[j] = "success" => Done(task[j])'
    <2> SUFFICES ASSUME stmt[j] = "success" PROVE Done(task[j])'
      OBVIOUS
    <2> DEFINE t == task[j]
    <2>1. Done(t) /\ (t \in AuthFriend => t.id \in Rows) /\ task'[j] = t
      BY <1>1 DEF KnownInv
    <2>2. /\ t \in CreateGroup => t.group \in 1 .. Len(groups') /\ groups'[t.group] = t.owner
          /\ t \in AuthFriend /\ t.accept => PairOf(t.id)' \in friendships'
          /\ t \in AddMembers => \A i \in 1 .. Len(t.uids) : <<t.group, t.uids[i]>> \in joined'
      BY <2>1, PairsKeep DEF Done, Made, Grows
    <2> QED BY <2>1, <2>2 DEF Done, Made, PairOf
  <1>8. KnownInv(j)'
    BY <1>1, <1>3, <1>4, <1>5, <1>6, <1>7 DEF KnownInv, PairOf
  <1> QED BY <1>2, <1>8

LEMMA RepliesKeep ==
  ASSUME TypeOK, RepliesAreTrue, Grows, announced' = announced, told' = told
  PROVE  RepliesAreTrue'
  BY PairsKeep DEF RepliesAreTrue, Grows

\* Acceptances and creations under way stay so, are completed, or are on record as
\* broken off.
LEMMA HalvesKeep ==
  ASSUME TypeOK, HalfDoneOnlyByFailure, Grows, groups' = groups, NEW h \in Handlers,
         \A r \in Rows' : friend_requests'[r].status = "accepted" =>
                            r \in Rows /\ friend_requests[r].status = "accepted",
         \A j \in Handlers \ {h} : stmt'[j] = stmt[j] /\ task'[j] = task[j],
         stmt[h] \in {"checkRelation", "insertRelation"} =>
           \/ PairOf(task[h].id) \in friendships' \/ task[h].id \in halfAccepted'
           \/ stmt'[h] \in {"checkRelation", "insertRelation"} /\ task'[h] = task[h],
         stmt[h] = "insertOwner" =>
           \/ <<task[h].group, groups[task[h].group]>> \in joined'
           \/ task[h].group \in halfCreated'
  PROVE  HalfDoneOnlyByFailure'
  <1>1. ASSUME NEW r \in Rows', friend_requests'[r].status = "accepted"
        PROVE  \/ PairOf(r)' \in friendships' \/ r \in halfAccepted'
               \/ \E j \in Handlers : /\ stmt'[j] \in {"checkRelation", "insertRelation"}
                                      /\ task'[j].id = r
    <2>1. r \in Rows /\ PairOf(r)' = PairOf(r)
      BY <1>1, PairsKeep
    <2>2. \/ PairOf(r) \in friendships \/ r \in halfAccepted
          \/ \E j \in Handlers : /\ stmt[j] \in {"checkRelation", "insertRelation"}
                                 /\ task[j].id = r
      BY <1>1, <2>1 DEF HalfDoneOnlyByFailure
    <2> QED BY <2>1, <2>2 DEF Grows
  <1>2. ASSUME NEW g \in 1 .. Len(groups)
        PROVE  \/ <<g, groups[g]>> \in joined' \/ g \in halfCreated'
               \/ \E j \in Handlers : stmt'[j] = "insertOwner" /\ task'[j].group = g
    <2>1. \/ <<g, groups[g]>> \in joined \/ g \in halfCreated
          \/ \E j \in Handlers : stmt[j] = "insertOwner" /\ task[j].group = g
      BY <1>2 DEF HalfDoneOnlyByFailure
    <2> QED BY <2>1 DEF Grows
  <1> QED BY <1>1, <1>2 DEF HalfDoneOnlyByFailure

LEMMA RaceTypes ==
  ASSUME TypeOK, NEW a, NEW b
  PROVE  /\ IsFiniteSet(Pending(a, b)) /\ IsFiniteSet(Inserters(a, b))
         /\ Cardinality(Pending(a, b)) \in Nat /\ Cardinality(Inserters(a, b)) \in Nat
         /\ Cardinality(Inserters(a, b)) <= Cardinality(Handlers)
         /\ Cardinality(Handlers) \in Nat
  <1>1. Len(friend_requests) \in Nat
    BY TableTypes
  <1>2. IsFiniteSet(Rows)
    BY <1>1, FS_Interval DEF Rows
  <1>3. IsFiniteSet(Pending(a, b)) /\ IsFiniteSet(Inserters(a, b))
    BY <1>2, RelationsAssumption, FS_Subset DEF Pending, Inserters
  <1>4. Cardinality(Inserters(a, b)) <= Cardinality(Handlers)
    BY RelationsAssumption, FS_Subset DEF Inserters
  <1> QED BY <1>3, <1>4, RelationsAssumption, FS_CardinalityType

LEMMA RaceKeeps ==
  ASSUME TypeOK, RaceInv,
         \A a, b \in Users : /\ Pending(a, b)' \subseteq Pending(a, b)
                             /\ Inserters(a, b)' \subseteq Inserters(a, b)
  PROVE  RaceInv'
  <1> SUFFICES ASSUME NEW a \in Users, NEW b \in Users
               PROVE  Cardinality(Pending(a, b)') + Cardinality(Inserters(a, b)')
                        <= Cardinality(Handlers)
    BY DEF RaceInv
  <1>1. /\ Cardinality(Pending(a, b)') \in Nat /\ Cardinality(Inserters(a, b)') \in Nat
        /\ Cardinality(Pending(a, b)') <= Cardinality(Pending(a, b))
        /\ Cardinality(Inserters(a, b)') <= Cardinality(Inserters(a, b))
    BY RaceTypes, FS_Subset, FS_CardinalityType
  <1> QED BY <1>1, RaceTypes DEF RaceInv
-----------------------------------------------------------------------------
(* The invariant *)

LEMMA RelationsInit == Init => RelInv
  <1> SUFFICES ASSUME Init PROVE RelInv
    OBVIOUS
  <1> USE DEF Init
  <1>1. Rows = {} /\ Len(groups) = 0 /\ Len(friend_requests) = 0 /\ 1 .. Len(groups) = {}
    BY DEF Rows
  <1>2. \A h \in Handlers : stmt[h] = "idle" /\ task[h] = NoTask
    OBVIOUS
  <1>3. TypeOK
    <2>1. <<>> \in Seq(Users) /\ <<>> \in Seq([from : Users, to : Users,
                                    status : {"pending", "accepted", "rejected"}])
      OBVIOUS
    <2> QED BY <1>1, <1>2, <2>1, RelationsAssumption DEF TypeOK, Steps
  <1>4. TaskInv
    BY DEF TaskInv
  <1>5. HandlerInv
    BY <1>2, TaskKinds DEF HandlerInv, PlaceInv, KnownInv
  <1>6. RaceInv
    <2> SUFFICES ASSUME NEW a \in Users, NEW b \in Users
                 PROVE  Cardinality(Pending(a, b)) + Cardinality(Inserters(a, b))
                          <= Cardinality(Handlers)
      BY DEF RaceInv
    <2>1. Pending(a, b) = {}
      BY <1>1 DEF Pending
    <2>2. Cardinality(Pending(a, b)) = 0
      BY <2>1, FS_EmptySet
    <2> QED BY <1>3, <2>2, RaceTypes
  <1>7. RepliesAreTrue /\ HalfDoneOnlyByFailure
    BY <1>1 DEF RepliesAreTrue, HalfDoneOnlyByFailure
  <1> QED BY <1>3, <1>4, <1>5, <1>6, <1>7 DEF RelInv

LEMMA GotoStep ==
  ASSUME TypeOK, NEW h \in Handlers, NEW step \in Steps, Goto(h, step)
  PROVE  /\ stmt' \in [Handlers -> Steps] /\ stmt'[h] = step
         /\ \A j \in Handlers \ {h} : stmt'[j] = stmt[j]
  BY DEF TypeOK, Goto

LEMMA PlacesTyped ==
  ASSUME stmt' \in [Handlers -> Steps], HandlerInv'
  PROVE  \A h \in Handlers : stmt'[h] # "idle" => task'[h] \in Tasks
  <1> SUFFICES ASSUME NEW h \in Handlers, stmt'[h] # "idle" PROVE task'[h] \in Tasks
    OBVIOUS
  <1>1. PlaceInv(h)' /\ stmt'[h] \in Steps
    BY DEF HandlerInv
  <1> QED BY <1>1 DEF PlaceInv, Steps, Tasks

LEMMA InsertersAfter ==
  ASSUME NEW a, NEW b
  PROVE  /\ IsFiniteSet(Inserters(a, b)') /\ Cardinality(Inserters(a, b)') \in Nat
         /\ Cardinality(Inserters(a, b)') <= Cardinality(Handlers)
         /\ Cardinality(Handlers) \in Nat
  <1>1. Inserters(a, b)' \subseteq Handlers
    BY DEF Inserters
  <1> QED BY <1>1, RelationsAssumption, FS_Subset, FS_CardinalityType

\* A step that changes no table, and what it has to show.
LEMMA QuietStep ==
  ASSUME RelInv, NEW h \in Handlers, NEW step \in Steps, Goto(h, step),
         TaskInv', \A j \in Handlers \ {h} : task'[j] = task[j],
         PlaceInv(h)', KnownInv(h)', UNCHANGED <<tables, agreed, joined>>,
         halfAccepted \subseteq halfAccepted', halfAccepted' \subseteq Rows,
         halfCreated \subseteq halfCreated', halfCreated' \subseteq 1 .. Len(groups),
         announced' \subseteq {PairOf(r) : r \in Rows}, announced' \subseteq friendships,
         told' \subseteq CreateGroup \cup AddMembers,
         \A t \in told' : t \in told \/ Done(t),
         step = "insertRequest" =>
           task'[h] = task[h] /\ Pending(task[h].from, task[h].to) = {},
         stmt[h] \in {"checkRelation", "insertRelation"} =>
           \/ PairOf(task[h].id) \in friendships \/ task[h].id \in halfAccepted'
           \/ step \in {"checkRelation", "insertRelation"} /\ task'[h] = task[h],
         stmt[h] = "insertOwner" => task[h].group \in halfCreated'
  PROVE  RelInv'
  <1>1. TypeOK /\ TaskInv /\ HandlerInv /\ RaceInv /\ RepliesAreTrue /\ HalfDoneOnlyByFailure
    BY DEF RelInv
  <1>2. /\ stmt' \in [Handlers -> Steps] /\ stmt'[h] = step
        /\ \A j \in Handlers \ {h} : stmt'[j] = stmt[j]
    BY <1>1, GotoStep
  <1>3. Grows
    BY <1>1, TableTypes DEF Grows, tables
  <1>4. HandlerInv'
    BY <1>1, <1>2, <1>3, OthersKeep
  <1>5. \A j \in Handlers : stmt'[j] # "idle" => task'[j] \in Tasks
    BY <1>2, <1>4, PlacesTyped
  <1>6. Rows' = Rows /\ \A r \in Rows : PairOf(r)' = PairOf(r)
    BY DEF Rows, PairOf, tables
  <1>7. {PairOf(r) : r \in Rows}' = {PairOf(r) : r \in Rows}
    BY <1>6
  <1>8. TypeOK'
    BY <1>1, <1>2, <1>5, <1>6, <1>7 DEF TypeOK, tables
  <1>9. RaceInv'
    <2>1. \A a, b : Pending(a, b)' = Pending(a, b)
      BY DEF Pending, Rows, tables
    <2> SUFFICES ASSUME NEW a \in Users, NEW b \in Users
                 PROVE  Cardinality(Pending(a, b)') + Cardinality(Inserters(a, b)')
                          <= Cardinality(Handlers)
      BY DEF RaceInv
    <2>2. CASE Inserters(a, b)' \subseteq Inserters(a, b)
      <3>1. Cardinality(Inserters(a, b)') <= Cardinality(Inserters(a, b))
        BY <1>1, <2>2, RaceTypes, FS_Subset
      <3>2. Cardinality(Inserters(a, b)') \in Nat
        BY InsertersAfter
      <3> QED BY <1>1, <2>1, <3>1, <3>2, RaceTypes DEF RaceInv
    <2>3. CASE ~(Inserters(a, b)' \subseteq Inserters(a, b))
      <3>1. PICK j \in Handlers : j \in Inserters(a, b)' /\ j \notin Inserters(a, b)
        BY <2>3 DEF Inserters
      <3>2. j = h
        BY <1>2, <3>1 DEF Inserters
      <3>3. step = "insertRequest" /\ task'[h].from = a /\ task'[h].to = b
        BY <1>2, <3>1, <3>2 DEF Inserters
      <3>4. Pending(a, b) = {}
        BY <3>3
      <3>5. Cardinality(Pending(a, b)') = 0
        BY <2>1, <3>4, FS_EmptySet
      <3> QED BY <3>5, InsertersAfter
    <2> QED BY <2>2, <2>3
  <1>10. RepliesAreTrue'
    <2>1. \A t \in told : /\ t.kind = "createGroup" =>
                               t.group \in 1 .. Len(groups) /\ groups[t.group] = t.owner
                          /\ t.kind = "addMembers" =>
                               \A i \in 1 .. Len(t.uids) : <<t.group, t.uids[i]>> \in joined
      BY <1>1 DEF RepliesAreTrue
    <2>2. ASSUME NEW t \in told', Done(t)
          PROVE  /\ t.kind = "createGroup" =>
                      t.group \in 1 .. Len(groups) /\ groups[t.group] = t.owner
                 /\ t.kind = "addMembers" =>
                      \A i \in 1 .. Len(t.uids) : <<t.group, t.uids[i]>> \in joined
      BY <2>2, OneKind DEF Done, Made, Tasks
    <2> QED BY <2>1, <2>2 DEF RepliesAreTrue, tables
  <1>11. HalfDoneOnlyByFailure'
    <2>1. \A r \in Rows' : friend_requests'[r].status = "accepted" =>
                             r \in Rows /\ friend_requests[r].status = "accepted"
      BY <1>6 DEF tables
    <2>2. groups' = groups /\ friendships' = friendships
      BY DEF tables
    <2> QED BY <1>1, <1>2, <1>3, <2>1, <2>2, HalvesKeep
  <1> QED BY <1>4, <1>8, <1>9, <1>10, <1>11 DEF RelInv

\* A step that leaves the ghosts alone, too.
LEMMA PlainStep ==
  ASSUME RelInv, NEW h \in Handlers, NEW step \in Steps, Goto(h, step),
         TaskInv', \A j \in Handlers \ {h} : task'[j] = task[j],
         PlaceInv(h)', KnownInv(h)', UNCHANGED <<tables, ghosts>>,
         step = "insertRequest" =>
           task'[h] = task[h] /\ Pending(task[h].from, task[h].to) = {},
         stmt[h] \notin {"checkRelation", "insertRelation", "insertOwner"}
  PROVE  RelInv'
  <1>1. TypeOK /\ RepliesAreTrue
    BY DEF RelInv
  <1>2. /\ halfAccepted \subseteq Rows /\ halfCreated \subseteq 1 .. Len(groups)
        /\ announced \subseteq {PairOf(r) : r \in Rows}
        /\ told \subseteq CreateGroup \cup AddMembers
    BY <1>1 DEF TypeOK
  <1>3. announced \subseteq friendships
    BY <1>1 DEF RepliesAreTrue
  <1>4. /\ UNCHANGED <<tables, agreed, joined>> /\ announced' = announced /\ told' = told
        /\ halfAccepted' = halfAccepted /\ halfCreated' = halfCreated
    BY DEF ghosts
  <1> QED BY <1>2, <1>3, <1>4, QuietStep

LEMMA HandleStep ==
  ASSUME RelInv, NEW h \in Handlers, NEW step \in Steps, NEW m \in Tasks,
         Handle(h, step, m), step # "insertRequest", PlaceInv(h)', KnownInv(h)'
  PROVE  RelInv'
  <1>1. /\ TaskInv' /\ \A j \in Handlers \ {h} : task'[j] = task[j]
    BY DEF Handle, RelInv, TaskInv
  <1>2. stmt[h] = "idle" /\ Goto(h, step) /\ UNCHANGED <<tables, ghosts>>
    BY DEF Handle
  <1> QED BY <1>1, <1>2, PlainStep

\* Where a message starts, and what is known of it.
LEMMA HandleAfter ==
  ASSUME RelInv, NEW h \in Handlers, NEW step \in Steps, NEW m, Handle(h, step, m)
  PROVE  stmt'[h] = step /\ task'[h] = m
  BY GotoStep DEF Handle, RelInv, TypeOK, TaskInv

LEMMA MessageKeeps == ASSUME RelInv, NEW h \in Handlers, Message(h) PROVE RelInv'
  <1>0. TypeOK
    BY DEF RelInv
  <1>1. ASSUME NEW a \in Users, NEW b \in Users, AddFriendReq(h, a, b) PROVE RelInv'
    <2> DEFINE m == [kind |-> "addFriend", from |-> a, to |-> b]
    <2>1. m \in AddFriend /\ m \in Tasks /\ m.kind = "addFriend"
      BY DEF AddFriend, Tasks
    <2>2. Handle(h, "checkFriends", m) /\ "checkFriends" \in Steps
      BY <1>1 DEF AddFriendReq, Steps
    <2>3. stmt'[h] = "checkFriends" /\ task'[h] = m
      BY <2>2, HandleAfter
    <2> HIDE DEF m
    <2>4. PlaceInv(h)' /\ KnownInv(h)'
      BY <2>1, <2>3, TaskKinds DEF PlaceInv, KnownInv
    <2> QED BY <2>1, <2>2, <2>4, HandleStep
  <1>2. ASSUME NEW r \in Requests, NEW accept \in BOOLEAN, AuthFriendReq(h, r, accept)
        PROVE  RelInv'
    <2> DEFINE m == [kind |-> "authFriend", id |-> r, accept |-> accept]
    <2>1. m \in AuthFriend /\ m \in Tasks /\ m.kind = "authFriend" /\ m.id = r
      BY DEF AuthFriend, Tasks
    <2>2. Handle(h, "updateStatus", m) /\ "updateStatus" \in Steps /\ r \in Rows
      BY <1>2 DEF AuthFriendReq, Steps
    <2>3. stmt'[h] = "updateStatus" /\ task'[h] = m
      BY <2>2, HandleAfter
    <2> HIDE DEF m
    <2>5. Rows' = Rows
      BY <2>2 DEF Handle, tables, Rows
    <2>4. PlaceInv(h)' /\ KnownInv(h)'
      BY <2>1, <2>2, <2>3, <2>5, TaskKinds DEF PlaceInv, KnownInv
    <2> QED BY <2>1, <2>2, <2>4, HandleStep
  <1>3. ASSUME NEW u \in Users, CreateGroupReq(h, u) PROVE RelInv'
    <2> DEFINE m == [kind |-> "createGroup", owner |-> u, group |-> 0]
    <2>1. m \in CreateGroup /\ m \in Tasks /\ m.kind = "createGroup"
      BY RelationsAssumption DEF CreateGroup, Tasks
    <2>2. Handle(h, "insertGroup", m) /\ "insertGroup" \in Steps
      BY <1>3 DEF CreateGroupReq, Steps
    <2>3. stmt'[h] = "insertGroup" /\ task'[h] = m
      BY <2>2, HandleAfter
    <2> HIDE DEF m
    <2>4. PlaceInv(h)' /\ KnownInv(h)'
      BY <2>1, <2>3, TaskKinds DEF PlaceInv, KnownInv
    <2> QED BY <2>1, <2>2, <2>4, HandleStep
  <1>4. ASSUME NEW g \in Groups, NEW uids \in MemberLists, AddGroupMemberReq(h, g, uids)
        PROVE  RelInv'
    <2> DEFINE m == [kind |-> "addMembers", group |-> g, uids |-> uids, next |-> 1]
               step == IF uids = <<>> THEN "success" ELSE "insertMember"
    <2>1. /\ m \in AddMembers /\ m \in Tasks /\ m.kind = "addMembers"
          /\ m.group = g /\ m.uids = uids /\ m.next = 1
      BY DEF AddMembers, Tasks
    <2>2. Handle(h, step, m) /\ step \in Steps /\ Known(g)
      BY <1>4 DEF AddGroupMemberReq, Steps
    <2>3. stmt'[h] = step /\ task'[h] = m
      BY <2>2, HandleAfter
    <2>4. g \in 1 .. Len(groups)
      <3>1. \A t \in told : t.kind = "createGroup" => t.group \in 1 .. Len(groups)
        BY DEF RelInv, RepliesAreTrue
      <3>2. \A x \in joined : x[1] \in 1 .. Len(groups)
        BY <1>0 DEF TypeOK
      <3> QED BY <2>2, <3>1, <3>2 DEF Known
    <2>5. groups' = groups /\ Len(uids) \in Nat /\ (uids # <<>> => Len(uids) >= 1)
      BY <2>2, RelationsAssumption DEF Handle, tables
    <2>6. uids = <<>> => Len(uids) = 0
      OBVIOUS
    <2>7. step # "insertRequest" /\ step \in {"success", "insertMember"}
          /\ (step = "success" => uids = <<>>) /\ (step = "insertMember" => uids # <<>>)
      OBVIOUS
    <2> HIDE DEF m, step
    <2>8. PlaceInv(h)'
      BY <2>1, <2>3, <2>7 DEF PlaceInv
    <2>9. m \notin AuthFriend /\ m \notin CreateGroup
      BY <2>1, TaskKinds
    <2>10. KnownInv(h)'
      <3>1. step = "insertMember" =>
              /\ m.group \in 1 .. Len(groups') /\ m.next \in 1 .. Len(m.uids)
              /\ \A i \in 1 .. Len(m.uids) : ~(i < m.next)
        BY <2>1, <2>4, <2>5, <2>7
      <3>2. step = "success" => Done(task[h])'
        BY <2>3, <2>1, <2>6, <2>7, <2>9 DEF Done
      <3> QED BY <2>3, <2>7, <2>9, <3>1, <3>2 DEF KnownInv
    <2> QED BY <2>1, <2>2, <2>7, <2>8, <2>10, HandleStep
  <1>5. ASSUME NEW g \in Groups, NEW u \in Users, RemoveGroupMemberReq(h, g, u) PROVE RelInv'
    <2> DEFINE m == [kind |-> "removeMember", group |-> g, uid |-> u]
    <2>1. m \in RemoveMember /\ m \in Tasks /\ m.kind = "removeMember"
      BY DEF RemoveMember, Tasks
    <2>2. Handle(h, "deleteMember", m) /\ "deleteMember" \in Steps
      BY <1>5 DEF RemoveGroupMemberReq, Steps
    <2>3. stmt'[h] = "deleteMember" /\ task'[h] = m
      BY <2>2, HandleAfter
    <2> HIDE DEF m
    <2>4. PlaceInv(h)' /\ KnownInv(h)'
      BY <2>1, <2>3, TaskKinds DEF PlaceInv, KnownInv
    <2> QED BY <2>1, <2>2, <2>4, HandleStep
  <1> QED BY <1>1, <1>2, <1>3, <1>4, <1>5 DEF Message
-----------------------------------------------------------------------------
(* The statements that change no table, the answer, a crash *)

\* What the invariant says of one handler.
LEMMA HandlerFacts ==
  ASSUME RelInv, NEW h \in Handlers
  PROVE  /\ PlaceInv(h) /\ KnownInv(h) /\ TypeOK /\ task \in [Handlers -> Tasks \cup {NoTask}]
         /\ RepliesAreTrue /\ stmt \in [Handlers -> Steps]
  BY DEF RelInv, HandlerInv, TaskInv, TypeOK

LEMMA CheckFriendsKeeps == ASSUME RelInv, NEW h \in Handlers, CheckFriends(h) PROVE RelInv'
  <1>1. PICK step \in {"checkPending", "failure"} : Goto(h, step)
    BY DEF CheckFriends
  <1>2. /\ stmt[h] = "checkFriends" /\ task' = task /\ UNCHANGED <<tables, ghosts>>
        /\ task[h] \in AddFriend
    BY HandlerFacts DEF CheckFriends, PlaceInv
  <1>3. step \in Steps /\ stmt'[h] = step
    BY <1>1, HandlerFacts DEF Goto, Steps
  <1>4. task'[h] \in AddFriend /\ task'[h] \in Tasks /\ task'[h] \notin AuthFriend
    BY <1>2, TaskKinds DEF Tasks
  <1>5. PlaceInv(h)' /\ KnownInv(h)'
    BY <1>3, <1>4 DEF PlaceInv, KnownInv
  <1>6. TaskInv'
    BY <1>2 DEF RelInv, TaskInv
  <1> QED BY <1>1, <1>2, <1>3, <1>5, <1>6, PlainStep

LEMMA CheckPendingKeeps == ASSUME RelInv, NEW h \in Handlers, CheckPending(h) PROVE RelInv'
  <1>1. PICK step \in {"insertRequest", "failure"} :
          /\ Goto(h, step)
          /\ step = "insertRequest" => Pending(task[h].from, task[h].to) = {}
    BY DEF CheckPending
  <1>2. /\ stmt[h] = "checkPending" /\ task' = task /\ UNCHANGED <<tables, ghosts>>
        /\ task[h] \in AddFriend
    BY HandlerFacts DEF CheckPending, PlaceInv
  <1>3. step \in Steps /\ stmt'[h] = step
    BY <1>1, HandlerFacts DEF Goto, Steps
  <1>4. task'[h] \in AddFriend /\ task'[h] \in Tasks /\ task'[h] \notin AuthFriend
    BY <1>2, TaskKinds DEF Tasks
  <1>5. PlaceInv(h)' /\ KnownInv(h)'
    BY <1>3, <1>4 DEF PlaceInv, KnownInv
  <1>6. TaskInv'
    BY <1>2 DEF RelInv, TaskInv
  <1> QED BY <1>1, <1>2, <1>3, <1>5, <1>6, PlainStep

\* What holds in a typed state of the ghosts a quiet step leaves alone.
LEMMA GhostFacts ==
  ASSUME RelInv
  PROVE  /\ halfAccepted \subseteq Rows /\ halfCreated \subseteq 1 .. Len(groups)
         /\ announced \subseteq {PairOf(r) : r \in Rows} /\ announced \subseteq friendships
         /\ told \subseteq CreateGroup \cup AddMembers
  BY DEF RelInv, TypeOK, RepliesAreTrue

LEMMA CheckRelationKeeps == ASSUME RelInv, NEW h \in Handlers, CheckRelation(h) PROVE RelInv'
  <1>1. /\ stmt[h] = "checkRelation" /\ task' = task /\ UNCHANGED <<tables, agreed, joined>>
        /\ announced' = announced /\ halfCreated' = halfCreated /\ told' = told
        /\ task[h] \in AuthFriend
    BY HandlerFacts DEF CheckRelation, PlaceInv
  <1>2. PICK r \in Rows : r = task[h].id /\ task[h].accept /\ PairOf(r) \in agreed
    BY <1>1, HandlerFacts DEF KnownInv
  <1>3. PICK step \in {"success", "insertRelation", "failure"} :
          /\ Goto(h, step)
          /\ step = "success" => PairOf(r) \in friendships
          /\ step = "failure" => r \in halfAccepted'
          /\ halfAccepted' \in {halfAccepted, halfAccepted \cup {r}}
    BY <1>2 DEF CheckRelation
  <1>4. step \in Steps /\ stmt'[h] = step
    BY <1>3, HandlerFacts DEF Goto, Steps
  <1>5. /\ task'[h] \in AuthFriend /\ task'[h] \in Tasks /\ task'[h] \notin CreateGroup
        /\ task'[h] \notin AddMembers /\ task'[h] = task[h]
    BY <1>1, TaskKinds DEF Tasks
  <1>6. PairOf(r)' = PairOf(r) /\ Rows' = Rows /\ agreed' = agreed /\ friendships' = friendships
    BY <1>1 DEF PairOf, Rows, tables
  <1>7. PlaceInv(h)'
    BY <1>4, <1>5 DEF PlaceInv
  <1>8. KnownInv(h)'
    <2>1. task'[h].id = r /\ task'[h].accept
      BY <1>2, <1>5
    <2>2. PairOf(task[h].id)' = PairOf(r)
      BY <1>6, <2>1 DEF PairOf
    <2>3. step = "success" => Done(task[h])'
      BY <1>3, <1>5, <1>6, <2>2 DEF Done
    <2> QED BY <1>2, <1>3, <1>4, <1>5, <1>6, <2>1, <2>2, <2>3 DEF KnownInv
  <1>9. TaskInv'
    BY <1>1 DEF RelInv, TaskInv
  <1>10. /\ halfAccepted \subseteq halfAccepted' /\ halfAccepted' \subseteq Rows
         /\ halfCreated' \subseteq 1 .. Len(groups)
         /\ announced' \subseteq {PairOf(q) : q \in Rows} /\ announced' \subseteq friendships
         /\ told' \subseteq CreateGroup \cup AddMembers
    BY <1>1, <1>2, <1>3, GhostFacts
  <1>11. \/ PairOf(r) \in friendships \/ r \in halfAccepted'
         \/ step \in {"checkRelation", "insertRelation"} /\ task'[h] = task[h]
    BY <1>3, <1>5
  <1>12. step # "insertRequest" /\ stmt[h] # "insertOwner"
    BY <1>1, <1>3
  <1> QED BY <1>1, <1>2, <1>3, <1>4, <1>5, <1>7, <1>8, <1>9, <1>10, <1>11, <1>12, QuietStep

\* Where a handler is that has answered, and one whose server stopped.
LEMMA LeaveAfter ==
  ASSUME RelInv, NEW h \in Handlers, Leave(h)
  PROVE  /\ "idle" \in Steps /\ Goto(h, "idle") /\ TaskInv'
         /\ \A j \in Handlers \ {h} : task'[j] = task[j]
         /\ PlaceInv(h)' /\ KnownInv(h)'
  <1>1. stmt'[h] = "idle" /\ task'[h] = NoTask
    BY HandlerFacts DEF Leave, Goto
  <1>2. NoTask \notin AuthFriend
    BY TaskKinds
  <1>3. PlaceInv(h)' /\ KnownInv(h)'
    BY <1>1, <1>2 DEF PlaceInv, KnownInv
  <1>4. TaskInv' /\ \A j \in Handlers \ {h} : task'[j] = task[j]
    BY DEF Leave, RelInv, TaskInv
  <1> QED BY <1>3, <1>4 DEF Leave, Steps

LEMMA ReplyKeeps == ASSUME RelInv, NEW h \in Handlers, Reply(h) PROVE RelInv'
  <1> DEFINE t == task[h]
  <1>1. /\ stmt[h] \in {"success", "failure"} /\ Leave(h)
        /\ UNCHANGED <<tables, agreed, joined>> /\ halfAccepted' = halfAccepted
        /\ halfCreated' = halfCreated
    BY DEF Reply
  <1>2. t \in Tasks /\ (t \in AuthFriend => t.id \in Rows) /\ (stmt[h] = "success" => Done(t))
    BY <1>1, HandlerFacts DEF PlaceInv, KnownInv
  <1>3. announced' \subseteq {PairOf(r) : r \in Rows} /\ announced' \subseteq friendships
    <2>1. CASE stmt[h] = "success" /\ t.kind = "authFriend" /\ t.accept
      <3>1. announced' = announced \cup {PairOf(t.id)}
        BY <2>1 DEF Reply
      <3>2. t.id \in Rows /\ PairOf(t.id) \in friendships
        BY <1>2, <2>1, OneKind DEF Done
      <3> QED BY <3>1, <3>2, GhostFacts
    <2>2. CASE ~(stmt[h] = "success" /\ t.kind = "authFriend" /\ t.accept)
      <3>1. announced' = announced
        BY <2>2 DEF Reply
      <3> QED BY <3>1, GhostFacts
    <2> QED BY <2>1, <2>2
  <1>4. /\ told' \subseteq CreateGroup \cup AddMembers
        /\ \A x \in told' : x \in told \/ Done(x)
    <2>1. CASE stmt[h] = "success" /\ t.kind \in {"createGroup", "addMembers"}
      <3>1. told' = told \cup {t}
        BY <2>1 DEF Reply
      <3>2. t \in CreateGroup \cup AddMembers /\ Done(t)
        BY <1>2, <2>1, OneKind
      <3> QED BY <3>1, <3>2, GhostFacts
    <2>2. CASE ~(stmt[h] = "success" /\ t.kind \in {"createGroup", "addMembers"})
      <3>1. told' = told
        BY <2>2 DEF Reply
      <3> QED BY <3>1, GhostFacts
    <2> QED BY <2>1, <2>2
  <1> QED BY <1>1, <1>3, <1>4, LeaveAfter, GhostFacts, QuietStep

LEMMA CrashKeeps == ASSUME RelInv, NEW h \in Handlers, Crash(h) PROVE RelInv'
  <1>1. /\ Leave(h) /\ UNCHANGED <<tables, agreed, joined>>
        /\ announced' = announced /\ told' = told
    BY DEF Crash
  <1>2. /\ halfAccepted' = IF stmt[h] \in {"checkRelation", "insertRelation"}
                           THEN halfAccepted \cup {task[h].id} ELSE halfAccepted
        /\ halfCreated' = IF stmt[h] = "insertOwner"
                          THEN halfCreated \cup {task[h].group} ELSE halfCreated
    BY DEF Crash
  <1>3. /\ stmt[h] \in {"checkRelation", "insertRelation"} => task[h].id \in Rows
        /\ stmt[h] = "insertOwner" => task[h].group \in 1 .. Len(groups)
    BY HandlerFacts DEF PlaceInv, KnownInv, Made
  <1>4. /\ halfAccepted \subseteq halfAccepted' /\ halfAccepted' \subseteq Rows
        /\ halfCreated \subseteq halfCreated' /\ halfCreated' \subseteq 1 .. Len(groups)
    BY <1>2, <1>3, GhostFacts
  <1> QED BY <1>1, <1>2, <1>4, LeaveAfter, GhostFacts, QuietStep
-----------------------------------------------------------------------------
(* The statements that change a table *)

\* The types of the tables and of the ghosts that grow with them.
TablesOK ==
  /\ friend_requests \in Seq([from : Users, to : Users,
                              status : {"pending", "accepted", "rejected"}])
  /\ Len(friend_requests) <= MaxRequests
  /\ friendships \subseteq {{a, b} : a \in Users, b \in Users}
  /\ groups \in Seq(Users) /\ Len(groups) <= MaxGroups
  /\ group_members \subseteq (1 .. Len(groups)) \X Users
  /\ joined \subseteq (1 .. Len(groups)) \X Users
  /\ agreed \subseteq {PairOf(r) : r \in Rows}
  /\ halfAccepted \subseteq Rows
  /\ halfCreated \subseteq 1 .. Len(groups)

LEMMA TablesNow == ASSUME RelInv PROVE TablesOK
  BY DEF RelInv, TypeOK, TablesOK

\* What such a statement has to show.
LEMMA TableStep ==
  ASSUME RelInv, NEW h \in Handlers, NEW step \in Steps, Goto(h, step), TaskInv',
         \A j \in Handlers \ {h} : task'[j] = task[j], Grows, TablesOK',
         announced' = announced, told' = told, PlaceInv(h)', KnownInv(h)', RaceInv',
         HalfDoneOnlyByFailure'
  PROVE  RelInv'
  <1>1. TypeOK /\ TaskInv /\ HandlerInv /\ RepliesAreTrue
    BY DEF RelInv
  <1>2. /\ stmt' \in [Handlers -> Steps] /\ stmt'[h] = step
        /\ \A j \in Handlers \ {h} : stmt'[j] = stmt[j]
    BY <1>1, GotoStep
  <1>3. HandlerInv'
    BY <1>1, <1>2, OthersKeep
  <1>4. \A j \in Handlers : stmt'[j] # "idle" => task'[j] \in Tasks
    BY <1>2, <1>3, PlacesTyped
  <1>5. announced \subseteq {PairOf(r) : r \in Rows}'
    BY <1>1, PairsKeep, GhostFacts
  <1>6. TypeOK'
    <2>1. told' \subseteq CreateGroup \cup AddMembers
      BY GhostFacts
    <2>2. (agreed \cup announced)' \subseteq {PairOf(r) : r \in Rows}'
      BY <1>5 DEF TablesOK
    <2> QED BY <1>2, <1>4, <2>1, <2>2 DEF TypeOK, TablesOK
  <1>7. RepliesAreTrue'
    BY <1>1, RepliesKeep
  <1> QED BY <1>3, <1>6, <1>7 DEF RelInv

\* A handler that does not come to insert a request leaves the races alone.
LEMMA NoRace ==
  ASSUME RelInv, NEW h \in Handlers, NEW step \in Steps \ {"insertRequest"}, Goto(h, step),
         \A j \in Handlers \ {h} : task'[j] = task[j],
         \A a, b \in Users : Pending(a, b)' \subseteq Pending(a, b)
  PROVE  RaceInv'
  <1>1. TypeOK /\ RaceInv
    BY DEF RelInv
  <1>2. stmt'[h] = step /\ \A j \in Handlers \ {h} : stmt'[j] = stmt[j]
    BY <1>1, GotoStep
  <1>3. \A a, b \in Users : Inserters(a, b)' \subseteq Inserters(a, b)
    BY <1>2 DEF Inserters
  <1> QED BY <1>1, <1>3, RaceKeeps

\* Nor does one that leaves the requests alone.
LEMMA SameRequests ==
  ASSUME friend_requests' = friend_requests
  PROVE  Rows' = Rows /\ \A a, b : Pending(a, b)' = Pending(a, b)
  BY DEF Pending, Rows

LEMMA RequestAppended ==
  ASSUME TypeOK, NEW m \in [from : Users, to : Users,
                            status : {"pending", "accepted", "rejected"}],
         friend_requests' = Append(friend_requests, m)
  PROVE  /\ friend_requests' \in Seq([from : Users, to : Users,
                                      status : {"pending", "accepted", "rejected"}])
         /\ Len(friend_requests) \in Nat /\ Len(friend_requests') = Len(friend_requests) + 1
         /\ Rows' = Rows \cup {Len(friend_requests) + 1}
         /\ friend_requests'[Len(friend_requests) + 1] = m
         /\ \A r \in Rows : friend_requests'[r] = friend_requests[r]
  <1> DEFINE S == [from : Users, to : Users, status : {"pending", "accepted", "rejected"}]
  <1>1. friend_requests \in Seq(S) /\ m \in S
    BY DEF TypeOK
  <1> HIDE DEF S
  <1>2. /\ friend_requests' \in Seq(S)
        /\ Len(friend_requests) \in Nat /\ Len(friend_requests') = Len(friend_requests) + 1
        /\ friend_requests'[Len(friend_requests) + 1] = m
        /\ \A r \in 1 .. Len(friend_requests) : friend_requests'[r] = friend_requests[r]
    BY <1>1
  <1>3. Rows' = Rows \cup {Len(friend_requests) + 1}
    BY <1>2 DEF Rows
  <1> QED BY <1>2, <1>3 DEF S, Rows

LEMMA InsertRequestKeeps ==
  ASSUME RelInv, NEW h \in Handlers, NEW out \in Outcomes, InsertRequest(h, out)
  PROVE  RelInv'
  <1> DEFINE step == IF out = "ok" THEN "success" ELSE "failure"
             m == [from |-> task[h].from, to |-> task[h].to, status |-> "pending"]
  <1>1. /\ stmt[h] = "insertRequest" /\ Goto(h, step) /\ step \in Steps
        /\ step \in {"success", "failure"} /\ task' = task
        /\ UNCHANGED <<friendships, groups, group_members, ghosts>>
        /\ <<Len(friend_requests) + 1, Len(groups)>> \in Sizes
    BY DEF InsertRequest, Steps
  <1>2. /\ task[h] \in AddFriend /\ task[h] \notin AuthFriend /\ task[h] \notin CreateGroup
        /\ task[h] \notin AddMembers /\ task[h] \in Tasks
        /\ task[h].from \in Users /\ task[h].to \in Users
    BY <1>1, HandlerFacts, TaskKinds DEF PlaceInv, Tasks
  <1>3. friend_requests' \in {friend_requests, Append(friend_requests, m)}
    BY DEF InsertRequest
  <1> HIDE DEF step
  <1>4. TaskInv' /\ \A j \in Handlers \ {h} : task'[j] = task[j]
    BY <1>1 DEF RelInv, TaskInv
  <1>5. stmt'[h] = step /\ \A j \in Handlers \ {h} : stmt'[j] = stmt[j]
    BY <1>1, HandlerFacts, GotoStep
  <1>6. PlaceInv(h)' /\ KnownInv(h)'
    BY <1>1, <1>2, <1>5 DEF PlaceInv, KnownInv, Done
  <1>7. CASE friend_requests' = friend_requests
    BY <1>1, <1>4, <1>6, <1>7, PlainStep DEF tables
  <1>8. CASE friend_requests' = Append(friend_requests, m)
    <2>0. /\ m \in [from : Users, to : Users, status : {"pending", "accepted", "rejected"}]
          /\ m.from = task[h].from /\ m.to = task[h].to /\ m.status = "pending"
      BY <1>2
    <2> HIDE DEF m
    <2>1. TypeOK /\ HandlerInv /\ RaceInv /\ HalfDoneOnlyByFailure /\ TablesOK
      BY TablesNow DEF RelInv
    <2>2. /\ friend_requests' \in Seq([from : Users, to : Users,
                                       status : {"pending", "accepted", "rejected"}])
          /\ Len(friend_requests) \in Nat /\ Len(friend_requests') = Len(friend_requests) + 1
          /\ Rows' = Rows \cup {Len(friend_requests) + 1}
          /\ friend_requests'[Len(friend_requests) + 1] = m
          /\ \A r \in Rows : friend_requests'[r] = friend_requests[r]
      BY <1>8, <2>0, <2>1, RequestAppended
    <2>3. /\ friendships' = friendships /\ groups' = groups /\ group_members' = group_members
          /\ agreed' = agreed /\ joined' = joined /\ halfAccepted' = halfAccepted
          /\ halfCreated' = halfCreated /\ announced' = announced /\ told' = told
      BY <1>1 DEF ghosts
    <2>4. Grows
      <3>1. Len(groups) \in Nat
        BY <2>1, TableTypes
      <3> QED BY <2>2, <2>3, <3>1 DEF Grows
    <2>5. TablesOK'
      <3>1. Len(friend_requests') <= MaxRequests
        BY <1>1, <2>2, RelationsAssumption
      <3>2. agreed' \subseteq {PairOf(r) : r \in Rows}' /\ halfAccepted' \subseteq Rows'
        BY <2>1, <2>2, <2>3, <2>4, PairsKeep DEF TablesOK
      <3> QED BY <2>1, <2>2, <2>3, <3>1, <3>2 DEF TablesOK
    <2>6. HalfDoneOnlyByFailure'
      <3>1. \A r \in Rows' : friend_requests'[r].status = "accepted" =>
                               r \in Rows /\ friend_requests[r].status = "accepted"
        BY <2>0, <2>2
      <3> QED BY <1>1, <1>4, <1>5, <2>1, <2>3, <2>4, <3>1, HalvesKeep
    <2>7. RaceInv'
      <3> SUFFICES ASSUME NEW a \in Users, NEW b \in Users
                   PROVE  Cardinality(Pending(a, b)') + Cardinality(Inserters(a, b)')
                            <= Cardinality(Handlers)
        BY DEF RaceInv
      <3>1. Inserters(a, b)' = Inserters(a, b) \ {h}
        BY <1>1, <1>5 DEF Inserters
      <3>2. CASE a = task[h].from /\ b = task[h].to
        <4>1. h \in Inserters(a, b)
          BY <1>1, <3>2 DEF Inserters
        <4>2. Cardinality(Inserters(a, b)') = Cardinality(Inserters(a, b)) - 1
          BY <2>1, <3>1, <4>1, RaceTypes, FS_RemoveElement
        <4>3. Pending(a, b)' \subseteq Pending(a, b) \cup {Len(friend_requests) + 1}
          BY <2>2 DEF Pending
        <4>4. /\ IsFiniteSet(Pending(a, b) \cup {Len(friend_requests) + 1})
              /\ Cardinality(Pending(a, b) \cup {Len(friend_requests) + 1})
                   <= Cardinality(Pending(a, b)) + 1
          <5>1. IsFiniteSet(Pending(a, b)) /\ Cardinality(Pending(a, b)) \in Nat
            BY <2>1, RaceTypes
          <5>2. /\ IsFiniteSet(Pending(a, b) \cup {Len(friend_requests) + 1})
                /\ Cardinality(Pending(a, b) \cup {Len(friend_requests) + 1}) =
                     IF Len(friend_requests) + 1 \in Pending(a, b)
                     THEN Cardinality(Pending(a, b)) ELSE Cardinality(Pending(a, b)) + 1
            BY <5>1, FS_AddElement
          <5> QED BY <5>1, <5>2
        <4>5. /\ Cardinality(Pending(a, b)') <= Cardinality(Pending(a, b)) + 1
              /\ Cardinality(Pending(a, b)') \in Nat
          <5>1. /\ Cardinality(Pending(a, b)')
                     <= Cardinality(Pending(a, b) \cup {Len(friend_requests) + 1})
                /\ IsFiniteSet(Pending(a, b)')
            BY <4>3, <4>4, FS_Subset
          <5>2. /\ Cardinality(Pending(a, b)') \in Nat
                /\ Cardinality(Pending(a, b) \cup {Len(friend_requests) + 1}) \in Nat
            BY <4>4, <5>1, FS_CardinalityType
          <5>3. Cardinality(Pending(a, b)) \in Nat
            BY <2>1, RaceTypes
          <5> QED BY <4>4, <5>1, <5>2, <5>3
        <4> QED BY <2>1, <4>2, <4>5, RaceTypes DEF RaceInv
      <3>3. CASE ~(a = task[h].from /\ b = task[h].to)
        <4>1. Pending(a, b)' \subseteq Pending(a, b)
          BY <2>0, <2>2, <3>3 DEF Pending
        <4>2. /\ Cardinality(Pending(a, b)') \in Nat /\ Cardinality(Inserters(a, b)') \in Nat
              /\ Cardinality(Pending(a, b)') <= Cardinality(Pending(a, b))
              /\ Cardinality(Inserters(a, b)') <= Cardinality(Inserters(a, b))
          BY <2>1, <3>1, <4>1, RaceTypes, FS_Subset, FS_CardinalityType
        <4> QED BY <2>1, <4>2, RaceTypes DEF RaceInv
      <3> QED BY <3>2, <3>3
    <2> QED BY <1>1, <1>4, <1>6, <2>3, <2>4, <2>5, <2>6, <2>7, TableStep
  <1> QED BY <1>3, <1>7, <1>8

LEMMA UpdateStatusKeeps ==
  ASSUME RelInv, NEW h \in Handlers, NEW out \in Outcomes, UpdateStatus(h, out)
  PROVE  RelInv'
  <1>0. /\ TypeOK /\ HandlerInv /\ HalfDoneOnlyByFailure /\ TablesOK
        /\ Len(friend_requests) \in Nat /\ Len(groups) \in Nat
    BY TablesNow, TableTypes DEF RelInv
  <1>1. /\ stmt[h] = "updateStatus" /\ task[h] \in AuthFriend /\ task[h] \in Tasks
        /\ task[h] \notin CreateGroup /\ task[h] \notin AddMembers /\ task' = task
    BY HandlerFacts, TaskKinds DEF UpdateStatus, PlaceInv, Tasks
  <1>2. PICK r \in Rows : r = task[h].id
    BY <1>1, HandlerFacts DEF KnownInv
  <1>3. PICK accepted \in BOOLEAN : accepted = task[h].accept
    BY <1>1, TaskKinds
  <1>4. /\ friendships' = friendships /\ groups' = groups /\ group_members' = group_members
        /\ joined' = joined /\ halfCreated' = halfCreated
        /\ announced' = announced /\ told' = told
    BY DEF UpdateStatus
  <1>5. TaskInv' /\ \A j \in Handlers \ {h} : task'[j] = task[j]
    BY <1>1 DEF RelInv, TaskInv
  <1>6. CASE out = "failed"
    <2>1. /\ Goto(h, "failure") /\ "failure" \in Steps
          /\ UNCHANGED <<friend_requests, agreed, halfAccepted>>
      BY <1>6 DEF UpdateStatus, Steps
    <2>2. stmt'[h] = "failure"
      BY <2>1, HandlerFacts, GotoStep
    <2>3. Rows' = Rows
      BY <2>1 DEF Rows
    <2>4. PlaceInv(h)' /\ KnownInv(h)'
      BY <1>1, <1>2, <2>2, <2>3 DEF PlaceInv, KnownInv
    <2> QED BY <1>1, <1>4, <1>5, <2>1, <2>4, PlainStep DEF tables, ghosts
  <1>7. CASE out # "failed"
    <2> DEFINE step == IF out = "lost" THEN "failure"
                       ELSE IF accepted THEN "checkRelation" ELSE "success"
               s == IF accepted THEN "accepted" ELSE "rejected"
    <2>1. /\ Goto(h, step)
          /\ friend_requests' = [friend_requests EXCEPT ![r].status = s]
          /\ agreed' = IF accepted THEN agreed \cup {PairOf(r)} ELSE agreed
          /\ halfAccepted' = IF accepted /\ out = "lost" THEN halfAccepted \cup {r}
                                                         ELSE halfAccepted
      BY <1>2, <1>3, <1>7 DEF UpdateStatus, AfterUpdate, Outcomes
    <2>2. /\ step \in Steps /\ step \in {"failure", "checkRelation", "success"}
          /\ step = "checkRelation" => accepted
          /\ step = "success" => ~accepted
          /\ accepted => step = "checkRelation" \/ out = "lost"
          /\ s \in {"accepted", "rejected"} /\ (s = "accepted" => accepted)
      BY DEF Steps
    <2> HIDE DEF step, s
    <2>3. stmt'[h] = step /\ \A j \in Handlers \ {h} : stmt'[j] = stmt[j]
      BY <2>1, <2>2, HandlerFacts, GotoStep
    <2>4. \A q \in Rows :
            /\ friend_requests[q].from \in Users /\ friend_requests[q].to \in Users
            /\ friend_requests[q].status \in {"pending", "accepted", "rejected"}
            /\ friend_requests[q] = [from |-> friend_requests[q].from,
                 to |-> friend_requests[q].to, status |-> friend_requests[q].status]
      BY <1>0, TableTypes
    <2>5. /\ friend_requests' \in Seq([from : Users, to : Users,
                                       status : {"pending", "accepted", "rejected"}])
          /\ Len(friend_requests') = Len(friend_requests) /\ Rows' = Rows
          /\ \A q \in Rows \ {r} : friend_requests'[q] = friend_requests[q]
          /\ friend_requests'[r].status = s
          /\ friend_requests'[r].from = friend_requests[r].from
          /\ friend_requests'[r].to = friend_requests[r].to
      <3> DEFINE S == [from : Users, to : Users, status : {"pending", "accepted", "rejected"}]
                 x == [friend_requests[r] EXCEPT !.status = s]
      <3>1. friend_requests \in Seq(S)
        BY <1>0 DEF TypeOK
      <3>2. /\ x = [from |-> friend_requests[r].from, to |-> friend_requests[r].to,
                    status |-> s]
        <4>1. PICK y : y = friend_requests[r]
          OBVIOUS
        <4>2. PICK f, t, u : y = [from |-> f, to |-> t, status |-> u]
          BY <2>4, <4>1
        <4>3. x = [y EXCEPT !.status = s]
          BY <4>1
        <4> QED BY <4>1, <4>2, <4>3
      <3>3. /\ x \in S /\ x.status = s /\ x.from = friend_requests[r].from
            /\ x.to = friend_requests[r].to
        BY <2>2, <2>4, <3>2
      <3>4. friend_requests' = [friend_requests EXCEPT ![r] = x]
        BY <2>1
      <3> HIDE DEF S, x
      <3>5. r \in 1 .. Len(friend_requests)
        BY DEF Rows
      <3>6. /\ friend_requests' \in Seq(S) /\ Len(friend_requests') = Len(friend_requests)
            /\ friend_requests'[r] = x
            /\ \A q \in 1 .. Len(friend_requests) :
                 q # r => friend_requests'[q] = friend_requests[q]
        BY <3>1, <3>3, <3>4, <3>5
      <3> QED BY <3>3, <3>6 DEF S, Rows
    <2>6. Grows
      BY <1>0, <1>4, <2>1, <2>5 DEF Grows
    <2>7. /\ Rows \subseteq Rows' /\ PairOf(r)' = PairOf(r)
          /\ {PairOf(q) : q \in Rows} \subseteq {PairOf(q) : q \in Rows}'
      BY <1>0, <2>6, PairsKeep
    <2>8. TablesOK'
      <3>1. agreed' \subseteq {PairOf(q) : q \in Rows}'
        BY <1>0, <2>1, <2>7 DEF TablesOK
      <3>2. halfAccepted' \subseteq Rows'
        BY <1>0, <2>1, <2>7 DEF TablesOK
      <3> QED BY <1>0, <1>4, <2>5, <3>1, <3>2 DEF TablesOK
    <2>9. PlaceInv(h)'
      BY <1>1, <2>2, <2>3 DEF PlaceInv
    <2>10. KnownInv(h)'
      <3>1. step = "checkRelation" => PairOf(task[h].id)' \in agreed'
        <4>1. PairOf(task[h].id)' = PairOf(r)'
          BY <1>1, <1>2 DEF PairOf
        <4> QED BY <2>1, <2>2, <2>7, <4>1
      <3>2. step = "success" => Done(task[h])'
        BY <1>1, <1>3, <2>2 DEF Done
      <3> QED BY <1>1, <1>2, <1>3, <2>2, <2>3, <2>7, <3>1, <3>2 DEF KnownInv
    <2>11. RaceInv'
      <3>1. \A a, b \in Users : Pending(a, b)' \subseteq Pending(a, b)
        BY <2>2, <2>5 DEF Pending
      <3>2. step \in Steps \ {"insertRequest"}
        BY <2>2
      <3> QED BY <1>5, <2>1, <3>1, <3>2, NoRace
    <2>12. HalfDoneOnlyByFailure'
      <3>1. ASSUME NEW q \in Rows', friend_requests'[q].status = "accepted"
            PROVE  \/ PairOf(q)' \in friendships' \/ q \in halfAccepted'
                   \/ \E j \in Handlers : /\ stmt'[j] \in {"checkRelation", "insertRelation"}
                                          /\ task'[j].id = q
        <4>1. CASE q = r
          <5>1. accepted
            BY <2>2, <2>5, <3>1, <4>1
          <5>2. CASE out = "lost"
            BY <2>1, <4>1, <5>1, <5>2
          <5>3. CASE step = "checkRelation"
            BY <1>1, <1>2, <2>3, <4>1, <5>3
          <5> QED BY <2>2, <5>1, <5>2, <5>3
        <4>2. CASE q # r
          <5>1. q \in Rows /\ friend_requests[q].status = "accepted" /\ PairOf(q)' = PairOf(q)
            BY <2>5, <3>1, <4>2 DEF PairOf
          <5>2. \/ PairOf(q) \in friendships \/ q \in halfAccepted
                \/ \E j \in Handlers : /\ stmt[j] \in {"checkRelation", "insertRelation"}
                                       /\ task[j].id = q
            BY <1>0, <5>1 DEF HalfDoneOnlyByFailure
          <5> QED BY <1>1, <1>4, <2>3, <2>6, <5>1, <5>2 DEF Grows
        <4> QED BY <4>1, <4>2
      <3>2. ASSUME NEW g \in 1 .. Len(groups)
            PROVE  \/ <<g, groups[g]>> \in joined \/ g \in halfCreated
                   \/ \E j \in Handlers : stmt'[j] = "insertOwner" /\ task'[j].group = g
        BY <1>0, <1>1, <2>3 DEF HalfDoneOnlyByFailure
      <3> QED BY <1>4, <3>1, <3>2 DEF HalfDoneOnlyByFailure
    <2> QED BY <1>4, <1>5, <2>1, <2>2, <2>6, <2>8, <2>9, <2>10, <2>11, <2>12, TableStep
  <1> QED BY <1>6, <1>7

LEMMA InsertRelationKeeps ==
  ASSUME RelInv, NEW h \in Handlers, NEW out \in Outcomes, InsertRelation(h, out)
  PROVE  RelInv'
  <1>0. /\ TypeOK /\ HandlerInv /\ HalfDoneOnlyByFailure /\ TablesOK
        /\ Len(friend_requests) \in Nat /\ Len(groups) \in Nat
    BY TablesNow, TableTypes DEF RelInv
  <1>1. /\ stmt[h] = "insertRelation" /\ task[h] \in AuthFriend /\ task[h] \in Tasks
        /\ task[h] \notin CreateGroup /\ task[h] \notin AddMembers /\ task' = task
    BY HandlerFacts, TaskKinds DEF InsertRelation, PlaceInv, Tasks
  <1>2. PICK r \in Rows : r = task[h].id
    BY <1>1, HandlerFacts DEF KnownInv
  <1> DEFINE step == IF out = "ok" THEN "success" ELSE "failure"
  <1>3. /\ friend_requests' = friend_requests /\ groups' = groups
        /\ group_members' = group_members /\ agreed' = agreed
        /\ joined' = joined /\ halfCreated' = halfCreated
        /\ announced' = announced /\ told' = told
    BY DEF InsertRelation
  <1>4. /\ Goto(h, step)
        /\ PairOf(r) \in friendships => out = "failed"
        /\ friendships' = IF out = "failed" THEN friendships ELSE friendships \cup {PairOf(r)}
        /\ halfAccepted' = IF out = "failed" /\ PairOf(r) \notin friendships
                           THEN halfAccepted \cup {r} ELSE halfAccepted
    BY <1>2 DEF InsertRelation, AfterInsert
  <1>5. /\ step \in Steps \ {"insertRequest"} /\ step \in {"success", "failure"}
        /\ step = "success" => out = "ok"
    BY DEF Steps
  <1> HIDE DEF step
  <1>6. TaskInv' /\ \A j \in Handlers \ {h} : task'[j] = task[j]
    BY <1>1 DEF RelInv, TaskInv
  <1>7. stmt'[h] = step /\ \A j \in Handlers \ {h} : stmt'[j] = stmt[j]
    BY <1>4, <1>5, HandlerFacts, GotoStep
  <1>8. Grows
    BY <1>0, <1>3, <1>4 DEF Grows
  <1>9. /\ Rows' = Rows /\ PairOf(r)' = PairOf(r) /\ PairOf(task[h].id)' = PairOf(r)
        /\ {PairOf(q) : q \in Rows}' = {PairOf(q) : q \in Rows}
    BY <1>1, <1>2, <1>3 DEF Rows, PairOf
  <1>10. PairOf(r) \in friendships' \/ r \in halfAccepted'
    BY <1>4
  <1>11. TablesOK'
    <2>1. PairOf(r) \in {{a, b} : a \in Users, b \in Users}
      <3>1. PICK a \in Users, b \in Users :
              a = friend_requests[r].from /\ b = friend_requests[r].to
        BY <1>0, TableTypes
      <3>2. PairOf(r) = {a, b}
        BY <3>1 DEF PairOf, Pair
      <3> QED BY <3>2
    <2> QED BY <1>0, <1>3, <1>4, <1>9, <2>1 DEF TablesOK
  <1>12. PlaceInv(h)'
    BY <1>1, <1>5, <1>7 DEF PlaceInv
  <1>13. KnownInv(h)'
    <2>1. step = "success" => Done(task[h])'
      BY <1>1, <1>4, <1>5, <1>9 DEF Done
    <2> QED BY <1>1, <1>2, <1>5, <1>7, <1>9, <2>1 DEF KnownInv
  <1>14. RaceInv'
    BY <1>3, <1>4, <1>5, <1>6, SameRequests, NoRace
  <1>15. HalfDoneOnlyByFailure'
    <2>1. \A q \in Rows' : friend_requests'[q].status = "accepted" =>
                             q \in Rows /\ friend_requests[q].status = "accepted"
      BY <1>3, <1>9
    <2> QED BY <1>0, <1>1, <1>2, <1>3, <1>6, <1>7, <1>8, <1>10, <2>1, HalvesKeep
  <1> QED BY <1>3, <1>4, <1>5, <1>6, <1>8, <1>11, <1>12, <1>13, <1>14, <1>15, TableStep

LEMMA InsertGroupKeeps ==
  ASSUME RelInv, NEW h \in Handlers, NEW out \in Outcomes, InsertGroup(h, out)
  PROVE  RelInv'
  <1>0. /\ TypeOK /\ HandlerInv /\ HalfDoneOnlyByFailure /\ TablesOK
        /\ Len(friend_requests) \in Nat /\ Len(groups) \in Nat
    BY TablesNow, TableTypes DEF RelInv
  <1>1. /\ stmt[h] = "insertGroup" /\ task[h] \in CreateGroup /\ task[h] \in Tasks
        /\ task[h] \notin AuthFriend /\ task[h] \notin AddMembers
    BY HandlerFacts, TaskKinds DEF InsertGroup, PlaceInv, Tasks
  <1>2. /\ friend_requests' = friend_requests /\ friendships' = friendships
        /\ group_members' = group_members /\ agreed' = agreed /\ joined' = joined
        /\ halfAccepted' = halfAccepted /\ announced' = announced /\ told' = told
    BY DEF InsertGroup
  <1>3. Rows' = Rows /\ {PairOf(q) : q \in Rows}' = {PairOf(q) : q \in Rows}
    BY <1>2 DEF Rows, PairOf
  <1>4. CASE out = "failed"
    <2>1. /\ Goto(h, "failure") /\ "failure" \in Steps
          /\ UNCHANGED <<groups, task, halfCreated>>
      BY <1>4 DEF InsertGroup, Steps
    <2>2. stmt'[h] = "failure"
      BY <2>1, HandlerFacts, GotoStep
    <2>3. PlaceInv(h)' /\ KnownInv(h)'
      BY <1>1, <2>1, <2>2 DEF PlaceInv, KnownInv
    <2>4. TaskInv' /\ \A j \in Handlers \ {h} : task'[j] = task[j]
      BY <2>1 DEF RelInv, TaskInv
    <2> QED BY <1>1, <1>2, <2>1, <2>3, <2>4, PlainStep DEF tables, ghosts
  <1>5. CASE out # "failed"
    <2> DEFINE step == IF out = "ok" THEN "insertOwner" ELSE "failure"
    <2>0. PICK n : n = Len(groups) + 1
      OBVIOUS
    <2>1. /\ Goto(h, step) /\ groups' = Append(groups, task[h].owner)
          /\ out = "ok" => task' = [task EXCEPT ![h].group = n] /\ halfCreated' = halfCreated
          /\ out # "ok" => halfCreated' = halfCreated \cup {n} /\ task' = task
          /\ <<Len(friend_requests), n>> \in Sizes
      BY <1>5, <2>0 DEF InsertGroup, getAutoIncrementValue
    <2>2. /\ step \in Steps \ {"insertRequest"} /\ step \in {"insertOwner", "failure"}
          /\ step = "insertOwner" <=> out = "ok"
      BY DEF Steps
    <2> HIDE DEF step
    <2>3. task[h].owner \in Users
      BY <1>1, TaskKinds
    <2>4. /\ groups' \in Seq(Users) /\ Len(groups') = n /\ groups'[n] = task[h].owner
          /\ \A g \in 1 .. Len(groups) : groups'[g] = groups[g]
          /\ 1 .. Len(groups') = 1 .. Len(groups) \cup {n} /\ n \in 1 .. Len(groups')
      <3>1. groups \in Seq(Users)
        BY <1>0 DEF TablesOK
      <3>2. /\ groups' \in Seq(Users) /\ Len(groups') = n /\ groups'[n] = task[h].owner
            /\ \A g \in 1 .. Len(groups) : groups'[g] = groups[g]
        BY <2>0, <2>1, <2>3, <3>1
      <3> QED BY <1>0, <2>0, <3>2
    <2>5. n \in 0 .. MaxGroups
      BY <1>0, <2>0, <2>1, RelationsAssumption
    <2>6. Grows
      BY <1>0, <1>2, <2>0, <2>1, <2>4 DEF Grows
    <2>7. out = "ok" => /\ task'[h] \in CreateGroup /\ task'[h].group = n
                        /\ task'[h].owner = task[h].owner
                        /\ task' \in [Handlers -> Tasks \cup {NoTask}]
                        /\ \A j \in Handlers \ {h} : task'[j] = task[j]
      <3> SUFFICES ASSUME out = "ok"
                   PROVE  /\ task'[h] \in CreateGroup /\ task'[h].group = n
                          /\ task'[h].owner = task[h].owner
                          /\ task' \in [Handlers -> Tasks \cup {NoTask}]
                          /\ \A j \in Handlers \ {h} : task'[j] = task[j]
        OBVIOUS
      <3> DEFINE x == [task[h] EXCEPT !.group = n]
      <3>1. /\ x \in CreateGroup /\ x.group = n /\ x.owner = task[h].owner
        <4>1. PICK y : y = task[h]
          OBVIOUS
        <4>2. PICK u \in Users, g \in 0 .. MaxGroups :
                y = [kind |-> "createGroup", owner |-> u, group |-> g]
          BY <1>1, <4>1 DEF CreateGroup
        <4>3. x = [kind |-> "createGroup", owner |-> u, group |-> n] /\ y.owner = u
          BY <4>1, <4>2
        <4> QED BY <2>5, <4>1, <4>3 DEF CreateGroup
      <3>2. task' = [task EXCEPT ![h] = x]
        BY <2>1
      <3> HIDE DEF x
      <3>3. x \in Tasks \cup {NoTask}
        BY <3>1 DEF Tasks
      <3> QED BY <3>1, <3>2, <3>3, HandlerFacts
    <2>8. /\ task'[h] \in CreateGroup /\ task'[h] \in Tasks /\ task'[h] \notin AuthFriend
          /\ task'[h] \notin AddMembers /\ TaskInv'
          /\ \A j \in Handlers \ {h} : task'[j] = task[j]
      <3>1. task'[h] \in CreateGroup
        BY <1>1, <2>1, <2>7
      <3>2. TaskInv' /\ \A j \in Handlers \ {h} : task'[j] = task[j]
        BY <2>1, <2>7, HandlerFacts DEF TaskInv
      <3> QED BY <3>1, <3>2, TaskKinds DEF Tasks
    <2>9. stmt'[h] = step /\ \A j \in Handlers \ {h} : stmt'[j] = stmt[j]
      BY <2>1, <2>2, HandlerFacts, GotoStep
    <2>10. PlaceInv(h)'
      BY <2>2, <2>8, <2>9 DEF PlaceInv
    <2>11. KnownInv(h)'
      <3>1. step = "insertOwner" => Made(task[h])'
        BY <2>2, <2>4, <2>7 DEF Made
      <3> QED BY <2>2, <2>8, <2>9, <3>1 DEF KnownInv
    <2>12. TablesOK'
      <3>1. Len(groups') <= MaxGroups
        BY <2>4, <2>5
      <3>2. halfCreated' \subseteq 1 .. Len(groups')
        BY <1>0, <2>1, <2>4 DEF TablesOK
      <3>3. /\ group_members' \subseteq (1 .. Len(groups')) \X Users
            /\ joined' \subseteq (1 .. Len(groups')) \X Users
        BY <1>0, <1>2, <2>4 DEF TablesOK
      <3> QED BY <1>0, <1>2, <1>3, <2>4, <3>1, <3>2, <3>3 DEF TablesOK
    <2>13. RaceInv'
      BY <1>2, <2>1, <2>2, <2>8, SameRequests, NoRace
    <2>14. HalfDoneOnlyByFailure'
      <3>1. ASSUME NEW q \in Rows', friend_requests'[q].status = "accepted"
            PROVE  \/ PairOf(q)' \in friendships' \/ q \in halfAccepted'
                   \/ \E j \in Handlers : /\ stmt'[j] \in {"checkRelation", "insertRelation"}
                                          /\ task'[j].id = q
        <4>1. q \in Rows /\ friend_requests[q].status = "accepted" /\ PairOf(q)' = PairOf(q)
          BY <1>2, <1>3, <3>1 DEF PairOf
        <4>2. \/ PairOf(q) \in friendships \/ q \in halfAccepted
              \/ \E j \in Handlers : /\ stmt[j] \in {"checkRelation", "insertRelation"}
                                     /\ task[j].id = q
          BY <1>0, <4>1 DEF HalfDoneOnlyByFailure
        <4> QED BY <1>1, <1>2, <2>8, <2>9, <4>1, <4>2
      <3>2. ASSUME NEW g \in 1 .. Len(groups')
            PROVE  \/ <<g, groups'[g]>> \in joined' \/ g \in halfCreated'
                   \/ \E j \in Handlers : stmt'[j] = "insertOwner" /\ task'[j].group = g
        <4>1. CASE g = n
          BY <2>1, <2>2, <2>7, <2>9, <4>1
        <4>2. CASE g \in 1 .. Len(groups)
          <5>1. \/ <<g, groups[g]>> \in joined \/ g \in halfCreated
                \/ \E j \in Handlers : stmt[j] = "insertOwner" /\ task[j].group = g
            BY <1>0, <4>2 DEF HalfDoneOnlyByFailure
          <5> QED BY <1>1, <2>4, <2>6, <2>8, <2>9, <4>2, <5>1 DEF Grows
        <4> QED BY <2>4, <4>1, <4>2
      <3> QED BY <3>1, <3>2 DEF HalfDoneOnlyByFailure
    <2> QED BY <1>2, <2>1, <2>2, <2>6, <2>8, <2>10, <2>11, <2>12, <2>13, <2>14, TableStep
  <1> QED BY <1>4, <1>5

\* A row of group_members that is inserted.
LEMMA RowInserted ==
  ASSUME NEW m, NEW out, InsertRow(m, out), TablesOK, m \in (1 .. Len(groups)) \X Users
  PROVE  /\ joined \subseteq joined' /\ joined' \subseteq (1 .. Len(groups)) \X Users
         /\ group_members' \subseteq (1 .. Len(groups)) \X Users
         /\ out # "failed" => m \in joined'
  BY DEF InsertRow, TablesOK

LEMMA InsertOwnerKeeps ==
  ASSUME RelInv, NEW h \in Handlers, NEW out \in Outcomes, InsertOwner(h, out)
  PROVE  RelInv'
  <1>0. /\ TypeOK /\ HandlerInv /\ HalfDoneOnlyByFailure /\ TablesOK
        /\ Len(friend_requests) \in Nat /\ Len(groups) \in Nat
    BY TablesNow, TableTypes DEF RelInv
  <1>1. /\ stmt[h] = "insertOwner" /\ task[h] \in CreateGroup /\ task[h] \in Tasks
        /\ task[h] \notin AuthFriend /\ task[h] \notin AddMembers /\ task' = task
    BY HandlerFacts, TaskKinds DEF InsertOwner, PlaceInv, Tasks
  <1>2. /\ friend_requests' = friend_requests /\ friendships' = friendships
        /\ groups' = groups /\ agreed' = agreed /\ halfAccepted' = halfAccepted
        /\ announced' = announced /\ told' = told
        /\ Goto(h, "success") /\ "success" \in Steps \ {"insertRequest"}
    BY DEF InsertOwner, Steps
  <1>3. Made(task[h]) /\ task[h].owner \in Users
    BY <1>1, HandlerFacts, TaskKinds DEF KnownInv
  <1>4. /\ InsertRow(<<task[h].group, task[h].owner>>, out)
        /\ halfCreated' = IF out = "failed" THEN halfCreated \cup {task[h].group} ELSE halfCreated
    BY DEF InsertOwner
  <1>5. /\ joined \subseteq joined' /\ joined' \subseteq (1 .. Len(groups)) \X Users
        /\ group_members' \subseteq (1 .. Len(groups)) \X Users
        /\ out # "failed" => <<task[h].group, task[h].owner>> \in joined'
    BY <1>0, <1>3, <1>4, RowInserted DEF Made
  <1>6. TaskInv' /\ \A j \in Handlers \ {h} : task'[j] = task[j]
    BY <1>1 DEF RelInv, TaskInv
  <1>7. stmt'[h] = "success" /\ \A j \in Handlers \ {h} : stmt'[j] = stmt[j]
    BY <1>2, HandlerFacts, GotoStep
  <1>8. Grows
    BY <1>0, <1>2, <1>4, <1>5 DEF Grows
  <1>9. Rows' = Rows /\ {PairOf(q) : q \in Rows}' = {PairOf(q) : q \in Rows}
    BY <1>2 DEF Rows, PairOf
  <1>10. TablesOK'
    <2>1. halfCreated' \subseteq 1 .. Len(groups')
      <3>1. halfCreated \subseteq 1 .. Len(groups)
        BY <1>0 DEF TablesOK
      <3>2. task[h].group \in 1 .. Len(groups)
        BY <1>3 DEF Made
      <3> QED BY <1>2, <1>4, <3>1, <3>2
    <2> QED BY <1>0, <1>2, <1>5, <1>9, <2>1 DEF TablesOK
  <1>11. PlaceInv(h)'
    BY <1>1, <1>7 DEF PlaceInv
  <1>12. KnownInv(h)'
    <2>1. Done(task[h])'
      BY <1>1, <1>2, <1>3 DEF Done, Made
    <2> QED BY <1>1, <1>7, <2>1 DEF KnownInv
  <1>13. RaceInv'
    BY <1>2, <1>6, SameRequests, NoRace
  <1>14. HalfDoneOnlyByFailure'
    <2>1. \A q \in Rows' : friend_requests'[q].status = "accepted" =>
                             q \in Rows /\ friend_requests[q].status = "accepted"
      BY <1>2, <1>9
    <2>2. \/ <<task[h].group, groups[task[h].group]>> \in joined'
          \/ task[h].group \in halfCreated'
      BY <1>3, <1>4, <1>5 DEF Made
    <2> QED BY <1>0, <1>1, <1>2, <1>6, <1>7, <1>8, <2>1, <2>2, HalvesKeep
  <1> QED BY <1>2, <1>6, <1>8, <1>10, <1>11, <1>12, <1>13, <1>14, TableStep

LEMMA InsertMemberKeeps ==
  ASSUME RelInv, NEW h \in Handlers, NEW out \in Outcomes, InsertMember(h, out)
  PROVE  RelInv'
  <1>0. /\ TypeOK /\ HandlerInv /\ HalfDoneOnlyByFailure /\ TablesOK
        /\ Len(friend_requests) \in Nat /\ Len(groups) \in Nat
    BY TablesNow, TableTypes DEF RelInv
  <1>1. stmt[h] = "insertMember" /\ task[h] \in AddMembers
    BY HandlerFacts DEF InsertMember, PlaceInv
  <1>2. PICK g \in Groups, uids \in MemberLists, next \in Nat :
          task[h] = [kind |-> "addMembers", group |-> g, uids |-> uids, next |-> next]
    BY <1>1 DEF AddMembers
  <1> DEFINE t == [kind |-> "addMembers", group |-> g, uids |-> uids, next |-> next + 1]
             step == IF out # "ok" THEN "failure" ELSE
                     IF next = Len(uids) THEN "success" ELSE "insertMember"
  <1>3. /\ friend_requests' = friend_requests /\ friendships' = friendships
        /\ groups' = groups /\ agreed' = agreed /\ halfAccepted' = halfAccepted
        /\ halfCreated' = halfCreated /\ announced' = announced /\ told' = told
    BY DEF InsertMember
  <1>4. /\ task[h].group = g /\ task[h].uids = uids /\ task[h].next = next
    BY <1>2
  <1>5. /\ g \in 1 .. Len(groups) /\ next \in 1 .. Len(uids)
        /\ \A i \in 1 .. Len(uids) : i < next => <<g, uids[i]>> \in joined
    BY <1>1, <1>4, HandlerFacts DEF KnownInv
  <1>6. Len(uids) \in Nat /\ uids[next] \in Users
    BY <1>5, RelationsAssumption
  <1>7. InsertRow(<<g, uids[next]>>, out) /\ Goto(h, step)
    BY <1>4 DEF InsertMember
  <1>8. task' = [task EXCEPT ![h] = t]
    <2>1. task' = [task EXCEPT ![h].next = @ + 1]
      BY DEF InsertMember
    <2>2. PICK y : y = task[h]
      OBVIOUS
    <2>3. [y EXCEPT !.next = @ + 1] = t
      BY <1>2, <2>2
    <2>4. task' = [task EXCEPT ![h] = [y EXCEPT !.next = @ + 1]]
      BY <2>1, <2>2
    <2> QED BY <2>3, <2>4
  <1>9. /\ step \in Steps \ {"insertRequest"} /\ step \in {"success", "failure", "insertMember"}
        /\ step # "failure" => out = "ok"
        /\ step = "success" => next = Len(uids)
        /\ step = "insertMember" => next # Len(uids)
    BY DEF Steps
  <1>10. /\ t \in AddMembers /\ t \in Tasks /\ t \notin AuthFriend /\ t \notin CreateGroup
         /\ t.group = g /\ t.uids = uids /\ t.next = next + 1
    <2>1. t \in AddMembers /\ t.kind = "addMembers"
      BY DEF AddMembers
    <2> QED BY <2>1, TaskKinds DEF Tasks
  <1> HIDE DEF t, step
  <1>11. /\ task'[h] = t /\ TaskInv' /\ \A j \in Handlers \ {h} : task'[j] = task[j]
    BY <1>8, <1>10, HandlerFacts DEF TaskInv
  <1>12. stmt'[h] = step /\ \A j \in Handlers \ {h} : stmt'[j] = stmt[j]
    BY <1>7, <1>9, HandlerFacts, GotoStep
  <1>13. /\ joined \subseteq joined' /\ joined' \subseteq (1 .. Len(groups)) \X Users
         /\ group_members' \subseteq (1 .. Len(groups)) \X Users
         /\ out # "failed" => <<g, uids[next]>> \in joined'
    BY <1>0, <1>5, <1>6, <1>7, RowInserted
  <1>14. Grows
    BY <1>0, <1>3, <1>13 DEF Grows
  <1>15. Rows' = Rows /\ {PairOf(q) : q \in Rows}' = {PairOf(q) : q \in Rows}
    BY <1>3 DEF Rows, PairOf
  <1>16. TablesOK'
    <2>1. /\ group_members' \subseteq (1 .. Len(groups')) \X Users
          /\ joined' \subseteq (1 .. Len(groups')) \X Users
      BY <1>3, <1>13
    <2>2. agreed' \subseteq {PairOf(q) : q \in Rows}' /\ halfAccepted' \subseteq Rows'
      BY <1>0, <1>3, <1>15 DEF TablesOK
    <2> QED BY <1>0, <1>3, <2>1, <2>2 DEF TablesOK
  <1>17. step # "failure" => \A i \in 1 .. Len(uids) : i < next + 1 => <<g, uids[i]>> \in joined'
    BY <1>5, <1>6, <1>9, <1>13
  <1>18. PlaceInv(h)'
    BY <1>9, <1>10, <1>11, <1>12 DEF PlaceInv
  <1>19. KnownInv(h)'
    <2>1. step = "insertMember" =>
            /\ t.group \in 1 .. Len(groups') /\ t.next \in 1 .. Len(t.uids)
            /\ \A i \in 1 .. Len(t.uids) : i < t.next => <<t.group, t.uids[i]>> \in joined'
      BY <1>3, <1>5, <1>6, <1>9, <1>10, <1>17
    <2>2. step = "success" => \A i \in 1 .. Len(t.uids) : <<t.group, t.uids[i]>> \in joined'
      BY <1>5, <1>6, <1>9, <1>10, <1>17
    <2>3. step = "success" => Done(task[h])'
      BY <1>10, <1>11, <2>2 DEF Done
    <2> QED BY <1>9, <1>10, <1>11, <1>12, <2>1, <2>3 DEF KnownInv
  <1>20. RaceInv'
    BY <1>3, <1>7, <1>9, <1>11, SameRequests, NoRace
  <1>21. HalfDoneOnlyByFailure'
    <2>1. \A q \in Rows' : friend_requests'[q].status = "accepted" =>
                             q \in Rows /\ friend_requests[q].status = "accepted"
      BY <1>3, <1>15
    <2> QED BY <1>0, <1>1, <1>3, <1>11, <1>12, <1>14, <2>1, HalvesKeep
  <1> QED BY <1>3, <1>7, <1>9, <1>11, <1>14, <1>16, <1>18, <1>19, <1>20, <1>21, TableStep

LEMMA DeleteMemberKeeps ==
  ASSUME RelInv, NEW h \in Handlers, NEW out \in Outcomes, DeleteMember(h, out)
  PROVE  RelInv'
  <1>0. /\ TypeOK /\ HandlerInv /\ HalfDoneOnlyByFailure /\ TablesOK
        /\ Len(friend_requests) \in Nat /\ Len(groups) \in Nat
    BY TablesNow, TableTypes DEF RelInv
  <1> DEFINE step == IF out = "ok" THEN "success" ELSE "failure"
  <1>1. /\ stmt[h] = "deleteMember" /\ task[h] \in RemoveMember /\ task[h] \in Tasks
        /\ task[h] \notin AuthFriend /\ task[h] \notin AddMembers /\ task[h] \notin CreateGroup
        /\ task' = task
    BY HandlerFacts, TaskKinds DEF DeleteMember, PlaceInv, Tasks
  <1>2. /\ friend_requests' = friend_requests /\ friendships' = friendships
        /\ groups' = groups /\ agreed' = agreed /\ joined' = joined
        /\ halfAccepted' = halfAccepted /\ halfCreated' = halfCreated
        /\ announced' = announced /\ told' = told /\ group_members' \subseteq group_members
    BY DEF DeleteMember, ghosts
  <1>3. Goto(h, step) /\ step \in Steps \ {"insertRequest"} /\ step \in {"success", "failure"}
    BY DEF DeleteMember, Steps
  <1> HIDE DEF step
  <1>4. TaskInv' /\ \A j \in Handlers \ {h} : task'[j] = task[j]
    BY <1>1 DEF RelInv, TaskInv
  <1>5. stmt'[h] = step /\ \A j \in Handlers \ {h} : stmt'[j] = stmt[j]
    BY <1>3, HandlerFacts, GotoStep
  <1>6. Grows
    BY <1>0, <1>2 DEF Grows
  <1>7. Rows' = Rows /\ {PairOf(q) : q \in Rows}' = {PairOf(q) : q \in Rows}
    BY <1>2 DEF Rows, PairOf
  <1>8. TablesOK'
    BY <1>0, <1>2, <1>7 DEF TablesOK
  <1>9. PlaceInv(h)' /\ KnownInv(h)'
    BY <1>1, <1>3, <1>5 DEF PlaceInv, KnownInv, Done
  <1>10. RaceInv'
    BY <1>2, <1>3, <1>4, SameRequests, NoRace
  <1>11. HalfDoneOnlyByFailure'
    <2>1. \A q \in Rows' : friend_requests'[q].status = "accepted" =>
                             q \in Rows /\ friend_requests[q].status = "accepted"
      BY <1>2, <1>7
    <2> QED BY <1>0, <1>1, <1>2, <1>4, <1>5, <1>6, <2>1, HalvesKeep
  <1> QED BY <1>2, <1>3, <1>4, <1>6, <1>8, <1>9, <1>10, <1>11, TableStep
-----------------------------------------------------------------------------
LEMMA RelationsNext == ASSUME RelInv, [Next]_vars PROVE RelInv'
  <1>1. CASE UNCHANGED vars
    <2> USE <1>1 DEF vars, tables, ghosts
    <2>1. Rows' = Rows /\ {PairOf(r) : r \in Rows}' = {PairOf(r) : r \in Rows}
      BY DEF Rows, PairOf
    <2>2. TypeOK' /\ TaskInv'
      <3>1. TypeOK /\ TaskInv
        BY DEF RelInv
      <3>2. (agreed \cup announced)' \subseteq {PairOf(r) : r \in Rows}'
        <4>1. (agreed \cup announced) \subseteq {PairOf(r) : r \in Rows}
          BY <3>1 DEF TypeOK
        <4>2. (agreed \cup announced)' = agreed \cup announced
          OBVIOUS
        <4> QED BY <2>1, <4>1, <4>2
      <3>3. halfAccepted' \subseteq Rows'
        BY <2>1, <3>1 DEF TypeOK
      <3>4. \A h \in Handlers : stmt'[h] # "idle" => task'[h] \in Tasks
        BY <3>1 DEF TypeOK
      <3> QED BY <3>1, <3>2, <3>3, <3>4 DEF TypeOK, TaskInv
    <2>3. HandlerInv'
      BY <2>1 DEF RelInv, HandlerInv, PlaceInv, KnownInv, Done, Made, PairOf
    <2>4. \A a, b : Pending(a, b)' = Pending(a, b) /\ Inserters(a, b)' = Inserters(a, b)
      BY <2>1 DEF Pending, Inserters
    <2>5. RaceInv'
      BY <2>4 DEF RelInv, RaceInv
    <2>6. RepliesAreTrue' /\ HalfDoneOnlyByFailure'
      BY <2>1 DEF RelInv, RepliesAreTrue, HalfDoneOnlyByFailure, PairOf
    <2> QED BY <2>2, <2>3, <2>5, <2>6 DEF RelInv
  <1>2. CASE Next
    <2>1. PICK h \in Handlers : Message(h) \/ Execute(h) \/ Reply(h) \/ Crash(h)
      BY <1>2 DEF Next
    <2>2. CASE Execute(h)
      BY <2>2, CheckFriendsKeeps, CheckPendingKeeps, CheckRelationKeeps, InsertRequestKeeps,
         UpdateStatusKeeps, InsertRelationKeeps, InsertGroupKeeps, InsertOwnerKeeps,
         InsertMemberKeeps, DeleteMemberKeeps DEF Execute
    <2> QED BY <2>1, <2>2, MessageKeeps, ReplyKeeps, CrashKeeps
  <1> QED BY <1>1, <1>2
-----------------------------------------------------------------------------
\* In every reachable state, for any users, handlers and lists of members, every
\* handler stands at a statement its message has, and what the statements before
\* it established - the acceptance, the group's id, the members inserted so far -
\* still holds, whatever other servers' handlers did to the same tables in between
\* (LogicSystem.cpp, MySQLMgr.cpp).
THEOREM RelationsInvariance == Spec => []RelInv
  BY RelationsInit, RelationsNext, PTL DEF Spec

\* The type invariant: no statement reads or writes a row that is not there.
THEOREM RelationsTypes == Spec => []TypeOK
  <1>1. RelInv => TypeOK
    BY DEF RelInv
  <1> QED BY <1>1, RelationsInvariance, PTL

\* What the answers to ID_AUTH_FRIEND_REQ, ID_CREATE_GROUP_REQ and
\* ID_ADD_GROUP_MEMBER_REQ report as done is in the tables, although an answer is
\* put together from what several statements returned, between which other
\* handlers, lost connections and crashes come.
THEOREM RepliesHold == Spec => []RepliesAreTrue
  <1>1. RelInv => RepliesAreTrue
    BY DEF RelInv
  <1> QED BY <1>1, RelationsInvariance, PTL

\* AuthFriendHandler and createGroup are never left half done by concurrency alone:
\* an accepted request without friendship, or a group without its owner, is one a
\* handler is working on or one whose statement failed or whose server stopped.
THEOREM HalvesNeedFailure == Spec => []HalfDoneOnlyByFailure
  <1>1. RelInv => HalfDoneOnlyByFailure
    BY DEF RelInv
  <1> QED BY <1>1, RelationsInvariance, PTL

\* addFriendRequest looks for a pending request and inserts one in two statements:
\* a pair can get several pending requests, but never more than there are handlers.
THEOREM RacesBounded == Spec => []RacesAreBounded
  <1>1. RelInv => RacesAreBounded
    <2> SUFFICES ASSUME RelInv, NEW a \in Users, NEW b \in Users
                 PROVE  Cardinality(Pending(a, b)) <= Cardinality(Handlers)
      BY DEF RacesAreBounded
    <2>1. TypeOK /\ Cardinality(Pending(a, b)) + Cardinality(Inserters(a, b))
                      <= Cardinality(Handlers)
      BY DEF RelInv, RaceInv
    <2> QED BY <2>1, RaceTypes
  <1> QED BY <1>1, RelationsInvariance, PTL
-----------------------------------------------------------------------------
(* The book of friends *)

LEMMA BookInit == Init => Book!Init
  BY DEF Init, Book!Init, Rows

\* The tables of the book a step leaves alone.
LEMMA BookStutter ==
  ASSUME UNCHANGED <<friend_requests, friendships, agreed, announced>>
  PROVE  UNCHANGED Book!vars
  <1>1. {PairOf(r) : r \in Rows}' = {PairOf(r) : r \in Rows}
    BY DEF Rows, PairOf
  <1> QED BY <1>1 DEF Book!vars

\* The statements and messages that concern groups, and those that only look.
LEMMA BookQuiet ==
  ASSUME NEW h \in Handlers,
         \/ Message(h) \/ Crash(h) \/ CheckFriends(h) \/ CheckPending(h) \/ CheckRelation(h)
         \/ \E out \in Outcomes : \/ InsertGroup(h, out) \/ InsertOwner(h, out)
                                  \/ InsertMember(h, out) \/ DeleteMember(h, out)
  PROVE  UNCHANGED <<friend_requests, friendships, agreed, announced>>
  <1>1. CASE Message(h)
    <2>1. PICK step, m : Handle(h, step, m)
      BY <1>1 DEF Message, AddFriendReq, AuthFriendReq, CreateGroupReq, AddGroupMemberReq,
                  RemoveGroupMemberReq
    <2> QED BY <2>1 DEF Handle, tables, ghosts
  <1>2. CASE Crash(h) \/ CheckFriends(h) \/ CheckPending(h) \/ CheckRelation(h)
    BY <1>2 DEF Crash, CheckFriends, CheckPending, CheckRelation, tables, ghosts
  <1>3. CASE \E out \in Outcomes : \/ InsertGroup(h, out) \/ InsertOwner(h, out)
                                   \/ InsertMember(h, out) \/ DeleteMember(h, out)
    BY <1>3 DEF InsertGroup, InsertOwner, InsertMember, DeleteMember, ghosts
  <1> QED BY <1>1, <1>2, <1>3

\* The pair of a row is a pair of users.
LEMMA RowPairs ==
  ASSUME RelInv, NEW r \in Rows
  PROVE  PairOf(r) \in {{a, b} : a \in Users, b \in Users}
  <1>1. PICK a \in Users, b \in Users :
          a = friend_requests[r].from /\ b = friend_requests[r].to
    BY TableTypes DEF RelInv
  <1>2. PairOf(r) = {a, b}
    BY <1>1 DEF PairOf, Pair
  <1> QED BY <1>2

LEMMA BookAsk ==
  ASSUME RelInv, NEW h \in Handlers, NEW out \in Outcomes, InsertRequest(h, out)
  PROVE  [Book!Next]_(Book!vars)
  <1> DEFINE m == [from |-> task[h].from, to |-> task[h].to, status |-> "pending"]
  <1>1. /\ friend_requests' \in {friend_requests, Append(friend_requests, m)}
        /\ friendships' = friendships /\ agreed' = agreed /\ announced' = announced
        /\ stmt[h] = "insertRequest"
    BY DEF InsertRequest, ghosts
  <1>2. CASE friend_requests' = friend_requests
    BY <1>1, <1>2, BookStutter
  <1>3. CASE friend_requests' = Append(friend_requests, m)
    <2>1. PICK a \in Users, b \in Users : a = task[h].from /\ b = task[h].to
      BY <1>1, HandlerFacts, TaskKinds DEF PlaceInv
    <2>2. /\ m \in [from : Users, to : Users, status : {"pending", "accepted", "rejected"}]
          /\ m.from = a /\ m.to = b
      BY <2>1
    <2> HIDE DEF m
    <2>3. PICK n : n = Len(friend_requests) + 1
      OBVIOUS
    <2>4. /\ Rows' = Rows \cup {n} /\ friend_requests'[n] = m
          /\ \A r \in Rows : friend_requests'[r] = friend_requests[r]
      BY <1>3, <2>2, <2>3, HandlerFacts, RequestAppended
    <2>5. \A r \in Rows' :
            Pair(friend_requests'[r].from, friend_requests'[r].to) =
              IF r \in Rows THEN PairOf(r) ELSE {a, b}
      BY <2>2, <2>4 DEF PairOf, Pair
    <2>6. n \in Rows => PairOf(n) = {a, b}
      BY <2>2, <2>4 DEF PairOf, Pair
    <2>7. {Pair(friend_requests'[r].from, friend_requests'[r].to) : r \in Rows'} =
            {PairOf(r) : r \in Rows} \cup {{a, b}}
      BY <2>4, <2>5, <2>6
    <2>8. {PairOf(r) : r \in Rows}' = {PairOf(r) : r \in Rows} \cup {{a, b}}
      BY <2>7 DEF PairOf
    <2>9. Book!Ask({a, b})
      BY <1>1, <2>8 DEF Book!Ask
    <2> QED BY <2>9 DEF Book!Next
  <1> QED BY <1>1, <1>2, <1>3

LEMMA BookAgree ==
  ASSUME RelInv, NEW h \in Handlers, NEW out \in Outcomes, UpdateStatus(h, out)
  PROVE  [Book!Next]_(Book!vars)
  <1>1. stmt[h] = "updateStatus" /\ task[h] \in AuthFriend
    BY HandlerFacts DEF UpdateStatus, PlaceInv
  <1>2. PICK r \in Rows : r = task[h].id
    BY <1>1, HandlerFacts DEF KnownInv
  <1>3. friendships' = friendships /\ announced' = announced
    BY DEF UpdateStatus
  <1>4. CASE out = "failed"
    <2>1. friend_requests' = friend_requests /\ agreed' = agreed
      BY <1>4 DEF UpdateStatus
    <2> QED BY <1>3, <2>1, BookStutter
  <1>5. CASE out # "failed"
    <2>1. PICK s : friend_requests' = [friend_requests EXCEPT ![r].status = s]
      BY <1>2, <1>5 DEF UpdateStatus
    <2>2. agreed' = agreed \cup {PairOf(r)} \/ agreed' = agreed
      BY <1>2, <1>5 DEF UpdateStatus
    <2>3. Rows' = Rows /\ \A q \in Rows : PairOf(q)' = PairOf(q)
      <3>1. TypeOK
        BY HandlerFacts
      <3>2. PICK y : y = friend_requests[r]
        OBVIOUS
      <3>3. y = [from |-> y.from, to |-> y.to, status |-> y.status]
        BY <3>1, <3>2, TableTypes
      <3>4. PICK x : x = [y EXCEPT !.status = s]
        OBVIOUS
      <3>5. friend_requests' = [friend_requests EXCEPT ![r] = x]
        BY <2>1, <3>2, <3>4
      <3>6. friend_requests \in Seq([from : Users, to : Users,
                                     status : {"pending", "accepted", "rejected"}])
        BY <3>1 DEF TypeOK
      <3>7. /\ DOMAIN friend_requests = Rows /\ Len(friend_requests) \in Nat
        BY <3>6 DEF Rows
      <3>8. /\ DOMAIN friend_requests' = Rows /\ friend_requests'[r] = x
            /\ \A q \in Rows \ {r} : friend_requests'[q] = friend_requests[q]
        BY <3>5, <3>6, <3>7
      <3>9. Len(friend_requests') = Len(friend_requests)
        BY <3>5, <3>6, <3>7
      <3>10. x.from = y.from /\ x.to = y.to
        BY <3>3, <3>4
      <3>11. \A q \in Rows : /\ friend_requests'[q].from = friend_requests[q].from
                             /\ friend_requests'[q].to = friend_requests[q].to
        BY <3>2, <3>8, <3>10
      <3> QED BY <3>9, <3>11 DEF Rows, PairOf
    <2>4. {PairOf(q) : q \in Rows}' = {PairOf(q) : q \in Rows}
      BY <2>3
    <2>5. CASE agreed' = agreed
      BY <1>3, <2>4, <2>5 DEF Book!vars
    <2>6. CASE agreed' = agreed \cup {PairOf(r)}
      <3>1. Book!Agree(PairOf(r))
        BY <1>3, <2>4, <2>6 DEF Book!Agree
      <3> QED BY <3>1, RowPairs DEF Book!Next
    <2> QED BY <2>2, <2>5, <2>6
  <1> QED BY <1>4, <1>5

LEMMA BookBefriend ==
  ASSUME RelInv, NEW h \in Handlers, NEW out \in Outcomes, InsertRelation(h, out)
  PROVE  [Book!Next]_(Book!vars)
  <1>1. stmt[h] = "insertRelation" /\ task[h] \in AuthFriend
    BY HandlerFacts DEF InsertRelation, PlaceInv
  <1>2. PICK r \in Rows : r = task[h].id /\ PairOf(r) \in agreed
    BY <1>1, HandlerFacts DEF KnownInv
  <1>3. /\ friend_requests' = friend_requests /\ agreed' = agreed /\ announced' = announced
        /\ friendships' = friendships \/ friendships' = friendships \cup {PairOf(r)}
    BY <1>2 DEF InsertRelation
  <1>4. {PairOf(q) : q \in Rows}' = {PairOf(q) : q \in Rows}
    BY <1>3 DEF Rows, PairOf
  <1>5. CASE friendships' = friendships
    BY <1>3, <1>5, BookStutter
  <1>6. CASE friendships' = friendships \cup {PairOf(r)}
    <2>1. Book!Befriend(PairOf(r))
      BY <1>2, <1>3, <1>4, <1>6 DEF Book!Befriend
    <2> QED BY <2>1, RowPairs DEF Book!Next
  <1> QED BY <1>3, <1>5, <1>6

LEMMA BookAnnounce == ASSUME RelInv, NEW h \in Handlers, Reply(h) PROVE [Book!Next]_(Book!vars)
  <1> DEFINE t == task[h]
  <1>1. friend_requests' = friend_requests /\ friendships' = friendships /\ agreed' = agreed
    BY DEF Reply, tables
  <1>2. {PairOf(q) : q \in Rows}' = {PairOf(q) : q \in Rows}
    BY <1>1 DEF Rows, PairOf
  <1>3. CASE stmt[h] = "success" /\ t.kind = "authFriend" /\ t.accept
    <2>1. announced' = announced \cup {PairOf(t.id)}
      BY <1>3 DEF Reply
    <2>2. t \in AuthFriend
      BY <1>3, HandlerFacts, OneKind DEF PlaceInv
    <2>3. t.id \in Rows /\ PairOf(t.id) \in friendships
      BY <1>3, <2>2, HandlerFacts DEF KnownInv, Done
    <2>4. Book!Announce(PairOf(t.id))
      BY <1>1, <1>2, <2>1, <2>3 DEF Book!Announce
    <2> QED BY <2>3, <2>4, RowPairs DEF Book!Next
  <1>4. CASE ~(stmt[h] = "success" /\ t.kind = "authFriend" /\ t.accept)
    <2>1. announced' = announced
      BY <1>4 DEF Reply
    <2> QED BY <1>1, <2>1, BookStutter
  <1> QED BY <1>3, <1>4

\* The tables implement the book of friends: an inserted request asks, an update of
\* a status agrees, an inserted relation befriends, an answer announces, and every
\* other statement is a stutter - for every number of servers and of races.
THEOREM FriendBookImplemented == Spec => ImplementsFriendBook
  <1>1. ASSUME RelInv, [Next]_vars PROVE [Book!Next]_(Book!vars)
    <2>1. CASE UNCHANGED vars
      BY <2>1, BookStutter DEF vars, tables, ghosts
    <2>2. CASE Next
      <3>1. PICK h \in Handlers : Message(h) \/ Execute(h) \/ Reply(h) \/ Crash(h)
        BY <2>2 DEF Next
      <3>2. CASE Message(h) \/ Crash(h)
        BY <3>2, BookQuiet, BookStutter
      <3>3. CASE Execute(h)
        BY <3>3, <1>1, BookQuiet, BookStutter, BookAsk, BookAgree, BookBefriend DEF Execute
      <3> QED BY <1>1, <3>1, <3>2, <3>3, BookAnnounce
    <2> QED BY <1>1, <2>1, <2>2
  <1> QED BY <1>1, BookInit, RelationsInvariance, PTL DEF Spec, ImplementsFriendBook, Book!Spec
LEMMA BookInOrder ==
  ASSUME Book!InOrder, [Book!Next]_(Book!vars)
  PROVE  Book!InOrder'
  <1> USE DEF Book!InOrder
  <1>1. CASE UNCHANGED Book!vars
    BY <1>1 DEF Book!vars
  <1>2. ASSUME NEW p, Book!Ask(p) PROVE Book!InOrder'
    BY <1>2 DEF Book!Ask
  <1>3. ASSUME NEW p, Book!Agree(p) PROVE Book!InOrder'
    BY <1>3 DEF Book!Agree
  <1>4. ASSUME NEW p, Book!Befriend(p) PROVE Book!InOrder'
    BY <1>4 DEF Book!Befriend
  <1>5. ASSUME NEW p, Book!Announce(p) PROVE Book!InOrder'
    BY <1>5 DEF Book!Announce
  <1> QED BY <1>1, <1>2, <1>3, <1>4, <1>5 DEF Book!Next

\* Nobody is told of a friendship that is not in the tables, and none is there that was
\* not asked for and agreed to: what the book promises, of the server's own tables.
THEOREM FriendsInOrder == Spec => []Book!InOrder
  <1>1. Book!Init => Book!InOrder
    BY DEF Book!Init, Book!InOrder
  <1> QED BY <1>1, BookInOrder, FriendBookImplemented, PTL DEF ImplementsFriendBook, Book!Spec
-----------------------------------------------------------------------------
(* The pool of sessions *)

\* The threads that are about to enter getSession's critical section.
Getters == {o \in Ops : at[o] = "get"}

\* What a session given back is, and what an operation that asks has to do yet.
OpInv ==
  \A o \in Ops : /\ at[o] = "return" => ret[o] \in held[o]
                 /\ at[o] \in {"new", "get", "blocked"} => todo[o] > 0

\* Nothing is called, and nothing stopped, before the constructor ends.
CtorInv ==
  checker = "ctor" => ~stop /\ closing = "no" /\ \A o \in Ops : at[o] = "new"

StopInv == closing # "no" => stop

PoolBaseInv == PoolTypeOK /\ OpInv /\ CtorInv /\ StopInv

PoolInv == PoolBaseInv /\ Exclusive /\ NoSleepOverSession /\ NoWaiterAfterClose
-----------------------------------------------------------------------------
LEMMA PoolInitInv == PoolInit => PoolInv
  <1> SUFFICES ASSUME PoolInit PROVE PoolInv
    OBVIOUS
  <1>1. PoolTypeOK
    <2>1. /\ starting \in Nat /\ breaks \in 0 .. MaxBreaks
          /\ todo \in [Ops -> 0 .. 2] /\ adding \in [0 .. PoolSize -> Nat]
      BY PoolAssumption DEF PoolInit
    <2> QED BY <2>1 DEF PoolInit, PoolTypeOK
  <1>2. OpInv /\ CtorInv /\ StopInv
    BY DEF PoolInit, OpInv, CtorInv, StopInv
  <1>3. Exclusive /\ NoSleepOverSession /\ NoWaiterAfterClose
    BY DEF PoolInit, Exclusive, NoSleepOverSession, NoWaiterAfterClose, Blocked
  <1> QED BY <1>1, <1>2, <1>3 DEF PoolInv, PoolBaseInv

\* notify_one wakes one waiter, or there is none.
LEMMA Waking ==
  ASSUME NEW pc, NEW q \in Notified(pc)
  PROVE  \/ Blocked = {} /\ q = pc
         \/ \E o \in Blocked : q = [pc EXCEPT ![o] = "get"]
  BY DEF Notified

\* A refill thread goes one session further.
LEMMA RefillNextType ==
  ASSUME PoolTypeOK, NEW i \in 0 .. PoolSize, i < PoolSize, adding[i] > 0, RefillNext(i)
  PROVE  adding' \in [0 .. PoolSize -> Nat]
  <1>1. PoolSize \in Nat /\ i + 1 \in 0 .. PoolSize
    BY PoolAssumption
  <1>2. /\ adding \in [0 .. PoolSize -> Nat]
        /\ adding[i] - 1 \in Nat /\ adding[i + 1] + 1 \in Nat
    BY <1>1 DEF PoolTypeOK
  <1> QED BY <1>1, <1>2 DEF RefillNext

\* Every step keeps the types and what goes with them.
LEMMA PoolNextBase == ASSUME PoolBaseInv, [PoolNext]_poolVars PROVE PoolBaseInv'
  <1> USE DEF PoolBaseInv, PoolTypeOK, OpInv, CtorInv, StopInv, opvars, refill
  <1>1. ASSUME NEW o \in Ops, Call(o) \/ SpuriousWake(o) \/ CallInner(o) PROVE PoolBaseInv'
    BY <1>1 DEF Call, SpuriousWake, CallInner
  <1>2. ASSUME NEW o \in Ops, GetNothing(o) \/ GetBlocks(o) PROVE PoolBaseInv'
    BY <1>2 DEF GetNothing, GetBlocks
  <1>3. ASSUME NEW o \in Ops, GetSession(o) PROVE PoolBaseInv'
    <2>1. todo[o] - 1 \in 0 .. 2
      BY <1>3 DEF GetSession
    <2> QED BY <1>3, <2>1 DEF GetSession
  <1>4. ASSUME NEW o \in Ops, DropSession(o) PROVE PoolBaseInv'
    BY <1>4 DEF DropSession
  <1>5. ASSUME NEW o \in Ops, CheckReturn(o) \/ Finish(o) PROVE PoolBaseInv'
    BY <1>5 DEF CheckReturn, Finish
  <1>6. ASSUME NEW o \in Ops, ReturnSession(o) PROVE PoolBaseInv'
    <2>1. \/ at' = [at EXCEPT ![o] = "use"]
          \/ \E p \in Ops : /\ at[p] = "blocked"
                            /\ at' = [[at EXCEPT ![o] = "use"] EXCEPT ![p] = "get"]
      <3> DEFINE pc == [at EXCEPT ![o] = "use"]
      <3>1. at' \in Notified(pc)
        BY <1>6 DEF ReturnSession
      <3> HIDE DEF pc
      <3>2. \/ Blocked = {} /\ at' = pc
            \/ \E p \in Blocked : at' = [pc EXCEPT ![p] = "get"]
        BY <3>1, Waking
      <3> QED BY <3>2 DEF Blocked, pc
    <2>2. /\ ret[o] \in held[o] /\ at[o] = "return" /\ ret[o] \in Sessions
          /\ checker # "ctor" /\ o \in Ops
      BY <1>6 DEF ReturnSession
    <2>3. /\ at' \in [Ops -> {"new", "get", "blocked", "use", "return", "done"}]
          /\ \A p \in Ops : p # o /\ at'[p] # at[p] => at[p] = "blocked" /\ at'[p] = "get"
          /\ at'[o] \in {"use", "get"} /\ (at'[o] = "get" => at[o] = "blocked")
      BY <2>1
    <2>4. PoolTypeOK'
      BY <1>6, <2>2, <2>3 DEF ReturnSession
    <2>5. OpInv'
      BY <1>6, <2>2, <2>3 DEF ReturnSession
    <2> QED BY <1>6, <2>2, <2>4, <2>5 DEF ReturnSession
  <1>7. CASE CtorEnd
    BY <1>7 DEF CtorEnd
  <1>8. CASE CheckConnection
    <2>1. Cardinality(idle \cap broken) \in Nat
      BY PoolAssumption, FS_Subset, FS_CardinalityType
    <2> QED BY <1>8, <2>1 DEF CheckConnection
  <1>9. CASE RefillStart
    <2>1. PICK num \in SizeRead : adding' = [adding EXCEPT ![num] = @ + 1]
      BY <1>9 DEF RefillStart
    <2>2. PoolSize \in Nat /\ Cardinality(idle) \in Nat
      BY PoolAssumption, FS_Subset, FS_CardinalityType
    <2>3. num \in 0 .. PoolSize
      BY <2>2 DEF SizeRead
    <2> QED BY <1>9, <2>1, <2>3 DEF RefillStart
  <1>10. ASSUME NEW i \in 0 .. PoolSize, RefillAdd(i) PROVE PoolBaseInv'
    <2>1. adding' \in [0 .. PoolSize -> Nat]
      BY <1>10, RefillNextType DEF RefillAdd
    <2>2. \/ at' = at
          \/ \E p \in Ops : at[p] = "blocked" /\ at' = [at EXCEPT ![p] = "get"]
      BY <1>10, Waking DEF RefillAdd, Blocked
    <2> QED BY <1>10, <2>1, <2>2 DEF RefillAdd
  <1>11. ASSUME NEW i \in 0 .. PoolSize, RefillSkip(i) PROVE PoolBaseInv'
    <2>1. adding' \in [0 .. PoolSize -> Nat]
      BY <1>11, RefillNextType DEF RefillSkip
    <2> QED BY <1>11, <2>1 DEF RefillSkip
  <1>12. ASSUME NEW i \in 0 .. PoolSize, RefillEnd(i) PROVE PoolBaseInv'
    <2>1. adding[i] - 1 \in Nat
      BY <1>12 DEF RefillEnd
    <2> QED BY <1>12, <2>1 DEF RefillEnd
  <1>13. CASE CloseStop \/ Close
    BY <1>13 DEF CloseStop, Close, Blocked
  <1>14. ASSUME NEW s \in Sessions, Break(s) PROVE PoolBaseInv'
    BY <1>14, PoolAssumption DEF Break, Open
  <1>15. CASE UNCHANGED poolVars
    BY <1>15 DEF poolVars
  <1> QED BY <1>1, <1>2, <1>3, <1>4, <1>5, <1>6, <1>7, <1>8, <1>9, <1>10, <1>11, <1>12,
             <1>13, <1>14, <1>15 DEF PoolNext, OpStep, PoolStep

\* A session changes hands in one step: out of the pool into one guard, back
\* out of the guard that held it, or new into the pool.
LEMMA NextExclusive ==
  ASSUME PoolBaseInv, Exclusive, [PoolNext]_poolVars
  PROVE  Exclusive'
  <1> USE DEF PoolBaseInv, PoolTypeOK, OpInv, Exclusive, opvars, refill
  <1>1. ASSUME NEW o \in Ops, GetSession(o) PROVE Exclusive'
    BY <1>1 DEF GetSession
  <1>2. ASSUME NEW o \in Ops, DropSession(o) PROVE Exclusive'
    BY <1>2 DEF DropSession
  <1>3. ASSUME NEW o \in Ops, ReturnSession(o) PROVE Exclusive'
    <2>1. \A p \in Ops \ {o} : ret[o] \notin held[p]
      BY <1>3 DEF ReturnSession
    <2> QED BY <1>3, <2>1 DEF ReturnSession
  <1>4. ASSUME NEW i \in 0 .. PoolSize, RefillAdd(i) PROVE Exclusive'
    <2>1. PICK s \in Sessions \ Open : idle' = idle \cup {s}
      BY <1>4 DEF RefillAdd
    <2>2. \A p \in Ops : s \notin held[p]
      BY <2>1 DEF Open
    <2> QED BY <1>4, <2>1, <2>2 DEF RefillAdd
  <1>5. CASE CheckConnection \/ Close
    BY <1>5 DEF CheckConnection, Close
  <1>6. CASE UNCHANGED <<idle, held>>
    BY <1>6
  <1>7. CASE ~ \/ \E o \in Ops : GetSession(o) \/ DropSession(o) \/ ReturnSession(o)
               \/ \E i \in 0 .. PoolSize : RefillAdd(i)
               \/ CheckConnection \/ Close
    <2>1. UNCHANGED <<idle, held>>
      BY <1>7 DEF PoolNext, OpStep, PoolStep, Call, GetNothing, GetBlocks, SpuriousWake,
         CallInner, CheckReturn, Finish, CtorEnd, RefillStart, RefillSkip, RefillEnd,
         CloseStop, Break, poolVars
    <2> QED BY <2>1, <1>6
  <1> QED BY <1>1, <1>2, <1>3, <1>4, <1>5, <1>7
-----------------------------------------------------------------------------
(* The count. *)

\* The pool does not grow and nobody turns away from it.
LEMMA CountKept ==
  ASSUME PoolBaseInv, NoSleepOverSession, PoolBaseInv',
         idle' \subseteq idle, Getters \subseteq Getters',
         Blocked' \subseteq Blocked, stop' = stop
  PROVE  NoSleepOverSession'
  <1>1. IsFiniteSet(idle) /\ IsFiniteSet(Getters')
    BY PoolAssumption, FS_Subset DEF PoolBaseInv, PoolTypeOK, Getters
  <1>2. Cardinality(idle') <= Cardinality(idle) /\ Cardinality(Getters) <= Cardinality(Getters')
    BY <1>1, FS_Subset
  <1>3. IsFiniteSet(idle') /\ IsFiniteSet(Getters)
    BY <1>1, FS_Subset
  <1>4. /\ Cardinality(idle) \in Nat /\ Cardinality(idle') \in Nat
        /\ Cardinality(Getters) \in Nat /\ Cardinality(Getters') \in Nat
    BY <1>1, <1>3, FS_CardinalityType
  <1> QED BY <1>2, <1>4 DEF NoSleepOverSession, Getters

\* A session enters the pool and a waiter is sent to it.
LEMMA CountUp ==
  ASSUME PoolBaseInv, NoSleepOverSession, PoolBaseInv', stop' = stop,
         NEW s \in Sessions, idle' = idle \cup {s},
         NEW p \in Ops, p \notin Getters, Getters' = Getters \cup {p},
         Blocked # {}
  PROVE  NoSleepOverSession'
  <1>1. IsFiniteSet(idle) /\ IsFiniteSet(Getters)
    BY PoolAssumption, FS_Subset DEF PoolBaseInv, PoolTypeOK, Getters
  <1>2. Cardinality(idle) \in Nat /\ Cardinality(Getters) \in Nat
    BY <1>1, FS_CardinalityType
  <1>3. Cardinality(idle') = (IF s \in idle THEN Cardinality(idle) ELSE Cardinality(idle) + 1)
    BY <1>1, FS_AddElement
  <1>4. Cardinality(Getters') = Cardinality(Getters) + 1
    BY <1>1, FS_AddElement
  <1> QED BY <1>2, <1>3, <1>4 DEF NoSleepOverSession, Getters

\* A session leaves the pool with one of those on their way.
LEMMA CountDown ==
  ASSUME PoolBaseInv, NoSleepOverSession, PoolBaseInv', stop' = stop, Blocked' = Blocked,
         NEW s \in idle, idle' = idle \ {s},
         NEW o \in Getters, Getters' = Getters \ {o}
  PROVE  NoSleepOverSession'
  <1>1. IsFiniteSet(idle) /\ IsFiniteSet(Getters)
    BY PoolAssumption, FS_Subset DEF PoolBaseInv, PoolTypeOK, Getters
  <1>2. Cardinality(idle) \in Nat /\ Cardinality(Getters) \in Nat
    BY <1>1, FS_CardinalityType
  <1>3. /\ Cardinality(idle') = Cardinality(idle) - 1
        /\ Cardinality(Getters') = Cardinality(Getters) - 1
    BY <1>1, FS_RemoveElement
  <1> QED BY <1>2, <1>3 DEF NoSleepOverSession, Getters

LEMMA NextCount ==
  ASSUME PoolBaseInv, NoSleepOverSession, [PoolNext]_poolVars
  PROVE  NoSleepOverSession'
  <1>0. PoolBaseInv'
    BY PoolNextBase
  <1> USE DEF PoolBaseInv, PoolTypeOK, Getters, Blocked, opvars, refill
  <1>1. ASSUME NEW o \in Ops, Call(o) \/ SpuriousWake(o) \/ CallInner(o)
        PROVE  NoSleepOverSession'
    <2>1. /\ idle' \subseteq idle /\ stop' = stop
          /\ Getters \subseteq Getters' /\ Blocked' \subseteq Blocked
      BY <1>1 DEF Call, SpuriousWake, CallInner
    <2> QED BY <1>0, <2>1, CountKept
  <1>2. ASSUME NEW o \in Ops, GetNothing(o) PROVE NoSleepOverSession'
    BY <1>2 DEF GetNothing, NoSleepOverSession
  <1>3. ASSUME NEW o \in Ops, GetBlocks(o) PROVE NoSleepOverSession'
    <2>1. Cardinality(idle') = 0
      BY <1>3, FS_EmptySet DEF GetBlocks
    <2>2. IsFiniteSet(Getters')
      BY <1>0, PoolAssumption, FS_Subset
    <2>3. Cardinality(Getters') \in Nat
      BY <2>2, FS_CardinalityType
    <2> QED BY <2>1, <2>3 DEF NoSleepOverSession
  <1>4. ASSUME NEW o \in Ops, GetSession(o) PROVE NoSleepOverSession'
    <2>1. PICK s \in idle : idle' = idle \ {s}
      BY <1>4 DEF GetSession
    <2>2. /\ stop' = stop /\ Blocked' = Blocked
          /\ o \in Getters /\ Getters' = Getters \ {o}
      BY <1>4 DEF GetSession
    <2> QED BY <1>0, <2>1, <2>2, CountDown
  <1>5. ASSUME NEW o \in Ops, DropSession(o) \/ CheckReturn(o) \/ Finish(o)
        PROVE  NoSleepOverSession'
    <2>1. /\ idle' \subseteq idle /\ stop' = stop
          /\ Getters \subseteq Getters' /\ Blocked' \subseteq Blocked
      BY <1>5 DEF DropSession, CheckReturn, Finish
    <2> QED BY <1>0, <2>1, CountKept
  <1>6. ASSUME NEW o \in Ops, ReturnSession(o), OpInv PROVE NoSleepOverSession'
    <2>1. /\ ret[o] \in Sessions /\ idle' = idle \cup {ret[o]}
          /\ stop' = stop /\ at[o] = "return"
      BY <1>6 DEF ReturnSession, OpInv
    <2>2. CASE Blocked = {} /\ at' = [at EXCEPT ![o] = "use"]
      BY <2>2 DEF NoSleepOverSession
    <2>3. ASSUME NEW p \in Blocked, at' = [[at EXCEPT ![o] = "use"] EXCEPT ![p] = "get"]
          PROVE  NoSleepOverSession'
      <3>1. p \notin Getters /\ Getters' = Getters \cup {p}
        BY <2>1, <2>3
      <3> QED BY <1>0, <2>1, <2>3, <3>1, CountUp
    <2> QED BY <1>6, <2>2, <2>3, Waking DEF ReturnSession
  <1>7. ASSUME NEW i \in 0 .. PoolSize, RefillAdd(i) PROVE NoSleepOverSession'
    <2>1. PICK s \in Sessions : idle' = idle \cup {s}
      BY <1>7 DEF RefillAdd
    <2>2. CASE Blocked = {} /\ at' = at
      BY <2>2 DEF NoSleepOverSession
    <2>3. ASSUME NEW p \in Blocked, at' = [at EXCEPT ![p] = "get"]
          PROVE  NoSleepOverSession'
      <3>1. p \notin Getters /\ Getters' = Getters \cup {p}
        BY <2>3
      <3> QED BY <1>0, <1>7, <2>1, <2>3, <3>1, CountUp DEF RefillAdd
    <2> QED BY <1>7, <2>2, <2>3, Waking DEF RefillAdd
  <1>8. CASE CheckConnection
    <2>1. idle' \subseteq idle /\ stop' = stop /\ at' = at
      BY <1>8 DEF CheckConnection
    <2> QED BY <1>0, <2>1, CountKept
  <1>9. CASE CtorEnd
    BY <1>9 DEF CtorEnd, CtorInv, NoSleepOverSession
  <1>10. CASE CloseStop \/ Close
    BY <1>10 DEF CloseStop, Close, StopInv, NoSleepOverSession
  <1>11. CASE \/ RefillStart \/ \E i \in 0 .. PoolSize : RefillSkip(i) \/ RefillEnd(i)
              \/ \E s \in Sessions : Break(s)
              \/ UNCHANGED poolVars
    <2>1. UNCHANGED <<idle, stop, at>>
      BY <1>11 DEF RefillStart, RefillSkip, RefillEnd, Break, poolVars
    <2> QED BY <2>1 DEF NoSleepOverSession
  <1> QED BY <1>1, <1>2, <1>3, <1>4, <1>5, <1>6, <1>7, <1>8, <1>9, <1>10, <1>11
         DEF PoolNext, OpStep, PoolStep
-----------------------------------------------------------------------------
\* A closed pool lets nobody wait: close woke all, and _isStop keeps others out.
LEMMA NextWaiter ==
  ASSUME PoolBaseInv, NoWaiterAfterClose, [PoolNext]_poolVars
  PROVE  NoWaiterAfterClose'
  <1> USE DEF PoolBaseInv, PoolTypeOK, StopInv, NoWaiterAfterClose, Blocked, opvars, refill
  <1>1. CASE Close
    BY <1>1 DEF Close
  <1>2. ASSUME NEW o \in Ops, OpStep(o) \/ Call(o) \/ SpuriousWake(o)
        PROVE  NoWaiterAfterClose'
    BY <1>2, Waking DEF OpStep, Call, GetNothing, GetBlocks, GetSession, SpuriousWake,
       CallInner, DropSession, CheckReturn, ReturnSession, Finish
  <1>3. ASSUME NEW i \in 0 .. PoolSize, RefillAdd(i) PROVE NoWaiterAfterClose'
    BY <1>3, Waking DEF RefillAdd
  <1>4. CASE \/ CtorEnd \/ CheckConnection \/ RefillStart \/ CloseStop
             \/ \E i \in 0 .. PoolSize : RefillSkip(i) \/ RefillEnd(i)
             \/ \E s \in Sessions : Break(s)
             \/ UNCHANGED poolVars
    BY <1>4 DEF CtorEnd, CheckConnection, RefillStart, CloseStop, RefillSkip, RefillEnd,
       Break, poolVars
  <1> QED BY <1>1, <1>2, <1>3, <1>4 DEF PoolNext, PoolStep

THEOREM PoolInvariance == PoolSpec => []PoolInv
  <1>1. PoolInv /\ [PoolNext]_poolVars => PoolInv'
    BY PoolNextBase, NextExclusive, NextCount, NextWaiter DEF PoolInv
  <1> QED BY <1>1, PoolInitInv, PTL DEF PoolSpec

\* Every variable keeps its type, for every pool size and set of operations.
THEOREM PoolTypes == PoolSpec => []PoolTypeOK
  BY PoolInvariance, PTL DEF PoolInv, PoolBaseInv

\* No database session is ever used by two operations at a time, or by one
\* while it is in the pool (getSession, returnSession, reconnect).
THEOREM SessionsExclusive == PoolSpec => []Exclusive
  BY PoolInvariance, PTL DEF PoolInv

\* A thread never sleeps over a session nobody is coming for, however many
\* threads wait, return and refill (the notify_one of returnSession and reconnect).
THEOREM NoLostNotification == PoolSpec => []NoSleepOverSession
  BY PoolInvariance, PTL DEF PoolInv

\* A closed pool has no waiters: close cannot lose its notification.
THEOREM CloseWakesAll == PoolSpec => []NoWaiterAfterClose
  BY PoolInvariance, PTL DEF PoolInv

\* Nobody obtains a session from a closed pool (getSession after the wait).
THEOREM ClosedGivesNothing == PoolSpec => NoneAfterClose
  <1>1. PoolInv /\ [PoolNext]_poolVars =>
          [closing = "done" => \A o \in Ops : held'[o] \subseteq held[o]]_poolVars
    <2> SUFFICES ASSUME PoolInv, PoolNext, closing = "done", NEW p \in Ops
                 PROVE  held'[p] \subseteq held[p]
      OBVIOUS
    <2>1. stop
      BY DEF PoolInv, PoolBaseInv, StopInv
    <2>2. ASSUME NEW o \in Ops, DropSession(o) \/ ReturnSession(o)
          PROVE  held'[p] \subseteq held[p]
      BY <2>2 DEF PoolInv, PoolBaseInv, PoolTypeOK, DropSession, ReturnSession
    <2>3. CASE ~ \E o \in Ops : DropSession(o) \/ ReturnSession(o)
      <3>1. UNCHANGED held
        BY <2>1, <2>3 DEF PoolNext, OpStep, PoolStep, Call, GetNothing, GetBlocks, GetSession,
           SpuriousWake, CallInner, CheckReturn, Finish, CtorEnd, CheckConnection,
           RefillStart, RefillAdd, RefillSkip, RefillEnd, CloseStop, Close, Break, opvars
      <3> QED BY <3>1
    <2> QED BY <2>2, <2>3
  <1> QED BY <1>1, PoolInvariance, PTL DEF PoolSpec, NoneAfterClose
=============================================================================
