------------------------------- MODULE Group --------------------------------
(***************************************************************************)
(* Player groups, and the player directory they are resolved through.      *)
(*                                                                         *)
(* A group lists its members by avatar (GameID is the character id);       *)
(* m_PlayerLookup leads from the character id to a node of the player      *)
(* pool.  Nodes are handed out in a circle and reused, and the lookup is   *)
(* never erased.  A player's own node holds the id of the group it is in,  *)
(* or is invited to.  Each client packet is handled as one step.           *)
(***************************************************************************)
EXTENDS Naturals, FiniteSets

CONSTANTS
    Avatars,
    None,        \* no avatar: an empty seat, or an available node
    Pool,        \* nodes of the player pool (MAX_ONLINE_PLAYERS)
    Size,        \* seats of a group (6)
    MaxGroups,   \* bound: groups created
    MaxLogins,   \* bound: logins
    MaxDrops     \* bound: players dropped without a logoff

GroupBounds == Pool \in Nat \ {0} /\ Size \in Nat \ {0, 1} /\ MaxGroups \in Nat
NoneIsNoAvatar == None \notin Avatars

\* No node of the pool is handed out twice.
OneLap == MaxLogins \in Nat /\ MaxDrops \in Nat /\ MaxLogins <= Pool

Nodes == 1..Pool
NoNode == 0
Ids == 1..MaxGroups
NoGroup == 0     \* the code's -1
Seats == 1..Size

VARIABLES
    node,       \* the pool: [avatar, group, accepted, asked]
    lookup,     \* m_PlayerLookup: avatar -> node, never erased
    circle,     \* m_PlayerCircularIndex
    groups,     \* m_GroupList: [live, member, ok], ok is AcceptedInvite
    created,    \* groups made so far (m_NextGroup)
    invited,    \* history: <<avatar, group>> invited, or the creator
    logins, drops,
    led,        \* history: no live group has ever been without a leader
    packed      \* history: nor had an empty seat before a taken one

directory == <<lookup, circle, logins, drops>>
vars == <<node, directory, groups, created, invited, led, packed>>

Available == [avatar |-> None, group |-> NoGroup, accepted |-> FALSE, asked |-> FALSE]
NotMade == [live |-> FALSE, member |-> [i \in Seats |-> None],
            ok |-> [i \in Seats |-> FALSE]]

Init ==
    /\ node = [n \in Nodes |-> Available]
    /\ lookup = [a \in Avatars |-> NoNode]
    /\ circle = 1
    /\ groups = [g \in Ids |-> NotMade]
    /\ created = 0
    /\ invited = {}
    /\ logins = 0 /\ drops = 0
    /\ led = TRUE /\ packed = TRUE

(***************************************************************************)
(* The directory.                                                          *)
(***************************************************************************)
\* The node is checked to be in use, not to be in use by this avatar.
GetPlayer(a) ==
    IF a # None /\ lookup[a] # NoNode /\ node[lookup[a]].avatar # None
    THEN lookup[a] ELSE NoNode

Distance(n) == (n + Pool - circle) % Pool

\* The lowest available node.
FirstFreeLowest ==
    CHOOSE n \in Nodes :
        /\ node[n].avatar = None
        /\ \A k \in Nodes : node[k].avatar = None => n <= k

\* GetPlayerNode: the first available node from the circular index on.
FirstFree ==
    CHOOSE n \in Nodes :
        /\ node[n].avatar = None
        /\ \A k \in Nodes : node[k].avatar = None => Distance(n) <= Distance(k)

\* The index runs past the end of the pool.
NextIndexPast(n) == n + 1

NextIndex(n) == (n % Pool) + 1

\* What else is in a node is not read before the node is handed out again.
Release(nd, S) == [n \in Nodes |-> IF n \in S THEN Available ELSE nd[n]]

\* A character is selected: a node, the old session of the avatar dropped, the
\* lookup, and a player reset to belong to no group.
Login(a) ==
    /\ logins < MaxLogins /\ logins' = logins + 1
    /\ \E n \in Nodes : node[n].avatar = None
    /\ LET twins == {n \in Nodes : node[n].avatar = a}
       IN  /\ drops' = drops + Cardinality(twins) /\ drops' <= MaxDrops
           /\ node' = [Release(node, twins) EXCEPT
                         ![FirstFree] = [Available EXCEPT !.avatar = a]]
    /\ lookup' = [lookup EXCEPT ![a] = FirstFree]
    /\ circle' = NextIndex(FirstFree)
    /\ UNCHANGED <<groups, created, invited>>

\* A dead connection is reaped, a login times out: the group is not told.
DropPlayerFromGalaxy(n) ==
    /\ drops < MaxDrops /\ drops' = drops + 1
    /\ node[n].avatar # None
    /\ node' = Release(node, {n})
    /\ UNCHANGED <<lookup, circle, logins, groups, created, invited>>

(***************************************************************************)
(* What the handlers are made of, on a world w of nodes and groups.        *)
(***************************************************************************)
World == [node |-> node, groups |-> groups]

Becomes(w) == node' = w.node /\ groups' = w.groups

\* SetGroupID and SetAcceptedGroupInvite of every player in S.
Assign(w, S, g, ok) ==
    [w EXCEPT !.node = [n \in Nodes |->
        IF n \in S THEN [w.node[n] EXCEPT !.group = g, !.accepted = ok]
        ELSE w.node[n]]]

SendEmptyGroupAux(w, a) == Assign(w, {GetPlayer(a)}, NoGroup, FALSE)

GetMemberCount(w, g) ==
    Cardinality({i \in Seats : w.groups[g].member[i] # None})

Seated(w, g, seats) == {GetPlayer(w.groups[g].member[i]) : i \in seats}

RemoveGroup(w, g) == [w EXCEPT !.groups[g] = NotMade]

DisbanGroup(w, g) ==
    RemoveGroup(Assign(w, Seated(w, g, Seats), NoGroup, FALSE), g)

\* Goes through as many seats as there are members.
SendAuxToGroup(w, g) ==
    LET count == GetMemberCount(w, g)
    IN  IF count < 2 THEN DisbanGroup(w, g)
        ELSE Assign(w, Seated(w, g, 1..count), g, TRUE)

\* The later members move up, and the last one stays in its old seat too.
ShiftedNotCleared(member, i) ==
    [x \in Seats |-> IF x < i \/ x = Size THEN member[x] ELSE member[x + 1]]

\* The member list of a group without seat i: the later members move up.
Shifted(member, i) ==
    [x \in Seats |-> IF x < i THEN member[x]
                     ELSE IF x < Size THEN member[x + 1] ELSE None]

RemovePlayerFromGroup(w, g, i) ==
    LET a == w.groups[g].member[i]
        out == SendEmptyGroupAux(w, a)
        moved == [out EXCEPT !.groups[g].member = Shifted(@, i)]
    IN  IF GetMemberCount(w, g) = 2 THEN DisbanGroup(out, g)
        ELSE SendAuxToGroup(moved, g)

SeatsOf(a, g, from) == {i \in from..Size : groups[g].member[i] = a}
First(S) == CHOOSE i \in S : \A j \in S : i <= j
Last(S) == CHOOSE i \in S : \A j \in S : j <= i

MyGroup(n) == node[n].group

\* GetGroupFromID finds the group.
Found(g) == g # NoGroup /\ groups[g].live

(***************************************************************************)
(* The packets of the client whose player is node n.                       *)
(***************************************************************************)
Playing(n) == node[n].avatar # None

\* Every guard but the last two: they differ for a new and an old group.
MayInvite(n, t) ==
    /\ Playing(n) /\ t # node[n].avatar
    /\ GetPlayer(t) # NoNode
    /\ node[GetPlayer(t)].group = NoGroup

\* The invited player has a question open: it is taken to be stale.
InviteBusy(n, t) ==
    /\ MayInvite(n, t)
    /\ node[GetPlayer(t)].asked
    /\ node' = [node EXCEPT ![GetPlayer(t)].asked = FALSE]
    /\ UNCHANGED <<directory, groups, created, invited>>

Seat(w, g, i, a) ==
    [w EXCEPT !.groups[g].member[i] = a, !.groups[g].ok[i] = FALSE,
              !.groups[g].live = TRUE]

Ask(w, n) == [w EXCEPT !.node[n].asked = TRUE]

InviteToNew(n, t) ==
    /\ MayInvite(n, t) /\ ~node[GetPlayer(t)].asked
    /\ ~Found(MyGroup(n)) /\ created < MaxGroups
    /\ created' = created + 1
    /\ LET g == created'
           me == node[n].avatar
           both == Assign(World, {n, GetPlayer(t)}, g, FALSE)
       IN  /\ Becomes(Ask(Seat(Seat(both, g, 1, me), g, 2, t), GetPlayer(t)))
           /\ invited' = invited \cup {<<me, g>>, <<t, g>>}
    /\ UNCHANGED directory

\* The seat is taken by the number of members.
NewSeat(g) == GetMemberCount(World, g) + 1

InviteToGroup(n, t) ==
    LET g == MyGroup(n)
        p == GetPlayer(t)
    IN  /\ MayInvite(n, t) /\ ~node[p].asked
        /\ Found(g) /\ groups[g].member[1] = node[n].avatar
        /\ GetMemberCount(World, g) < Size
        /\ Becomes(Ask(Seat(Assign(World, {p}, g, FALSE), g, NewSeat(g), t), p))
        /\ invited' = invited \cup {<<t, g>>}
        /\ UNCHANGED <<directory, created>>

\* An answer is taken whether or not the question is still open.
Answered(w, n) == [w EXCEPT !.node[n].asked = FALSE]

AcceptGroupInvite(n) ==
    LET g == MyGroup(n)
        mine == SeatsOf(node[n].avatar, g, 2)
        in == [World EXCEPT !.groups[g].ok[Last(mine)] = TRUE, !.groups[g].ok[1] = TRUE]
    IN  /\ Playing(n)
        /\ Becomes(IF Found(g) /\ mine # {}
                   THEN Answered(SendAuxToGroup(Assign(in, {n}, g, TRUE), g), n)
                   ELSE Answered(World, n))
        /\ UNCHANGED <<directory, created, invited>>

\* The seat is emptied where it is; a group nobody accepted is removed.
RejectGroupInvite(n) ==
    LET g == MyGroup(n)
        mine == SeatsOf(node[n].avatar, g, 2)
        leader == GetPlayer(groups[g].member[1])
        out == Assign(Answered(World, n), {n}, NoGroup, FALSE)
        left == [out EXCEPT !.groups[g].member[Last(mine)] = None]
        gone == RemoveGroup(Assign(left, {leader}, NoGroup, FALSE), g)
    IN  /\ Playing(n)
        /\ Becomes(IF ~Found(g) \/ mine = {} THEN Answered(World, n)
                   ELSE IF leader = NoNode THEN out
                   ELSE IF groups[g].ok[1] THEN left ELSE gone)
        /\ UNCHANGED <<directory, created, invited>>

LeaveGroup(w, n) ==
    LET g == MyGroup(n)
        me == node[n].avatar
        mine == SeatsOf(me, g, 1)
    IN  IF Found(g) /\ mine # {} THEN RemovePlayerFromGroup(w, g, First(mine))
        ELSE SendEmptyGroupAux(w, me)

Leave(n) ==
    /\ Playing(n)
    /\ Becomes(LeaveGroup(World, n))
    /\ UNCHANGED <<directory, created, invited>>

HandleLogoffRequest(n) ==
    /\ Playing(n)
    /\ LET w == LeaveGroup(World, n)
       IN  node' = Release(w.node, {n}) /\ groups' = w.groups
    /\ UNCHANGED <<directory, created, invited>>

KickFromGroup(n, t) ==
    LET g == MyGroup(n)
    IN  /\ Playing(n)
        /\ Found(g) /\ groups[g].member[1] = node[n].avatar
        /\ SeatsOf(t, g, 2) # {}
        /\ Becomes(RemovePlayerFromGroup(World, g, First(SeatsOf(t, g, 2))))
        /\ UNCHANGED <<directory, created, invited>>

\* A player who is not the leader is told so, and the group is disbanded.
Disban(n) ==
    /\ Playing(n) /\ Found(MyGroup(n))
    /\ Becomes(DisbanGroup(World, MyGroup(n)))
    /\ UNCHANGED <<directory, created, invited>>

\* After a gate or a dock: a player who has not answered yet loses the seat.
RequestGroupAux(n) ==
    LET g == MyGroup(n)
        me == node[n].avatar
        mine == SeatsOf(me, g, 1)
        i == First(mine)
        lost == [World EXCEPT !.groups[g].member[i] = None]
    IN  /\ Playing(n)
        /\ Becomes(IF ~Found(g) \/ mine = {} THEN SendEmptyGroupAux(World, me)
                   ELSE IF groups[g].ok[i] THEN Assign(World, {GetPlayer(me)}, g, TRUE)
                   ELSE SendEmptyGroupAux(lost, me))
        /\ UNCHANGED <<directory, created, invited>>

Client(n) ==
    \/ \E t \in Avatars : InviteBusy(n, t) \/ InviteToNew(n, t) \/ InviteToGroup(n, t)
    \/ AcceptGroupInvite(n) \/ RejectGroupInvite(n)
    \/ Leave(n) \/ HandleLogoffRequest(n) \/ Disban(n)
    \/ \E t \in Avatars : KickFromGroup(n, t)
    \/ RequestGroupAux(n)

\* The live group g has a leader; and no empty seat before a taken one.
Headed(g) == groups[g].live => groups[g].member[1] # None
Packed(g) ==
    groups[g].live => \A i, j \in Seats :
        i < j /\ groups[g].member[j] # None => groups[g].member[i] # None

Next ==
    /\ \/ \E a \in Avatars : Login(a)
       \/ \E n \in Nodes : DropPlayerFromGalaxy(n) \/ Client(n)
    /\ led' = (led /\ \A g \in Ids : Headed(g)')
    /\ packed' = (packed /\ led' /\ \A g \in Ids : Packed(g)')

Spec == Init /\ [][Next]_vars

-----------------------------------------------------------------------------
(***************************************************************************)
(* Properties.                                                             *)
(***************************************************************************)
\* Every variable keeps its type.
WorldTyped ==
    /\ node \in [Nodes -> [avatar : Avatars \cup {None}, group : Ids \cup {NoGroup},
                           accepted : BOOLEAN, asked : BOOLEAN]]
    /\ lookup \in [Avatars -> Nodes \cup {NoNode}] /\ circle \in Nodes
    /\ groups \in [Ids -> [live : BOOLEAN, member : [Seats -> Avatars \cup {None}],
                           ok : [Seats -> BOOLEAN]]]
    /\ created \in 0..MaxGroups
    /\ invited \subseteq Avatars \X Ids
    /\ logins \in 0..MaxLogins /\ drops \in 0..MaxDrops

TypeOK == WorldTyped /\ led \in BOOLEAN /\ packed \in BOOLEAN

\* A seat of a group is held by a player of the game whose own group it is, as long
\* as no group has lost its leader: nobody is a member of two groups, sits in one
\* twice, or stays seated after leaving, being kicked, rejecting or logging off.
SeatsAgree ==
    led => \A g \in Ids : groups[g].live => \A i \in Seats :
        LET a == groups[g].member[i]
        IN  a # None =>
                /\ GetPlayer(a) # NoNode
                /\ node[GetPlayer(a)].avatar = a
                /\ node[GetPlayer(a)].group = g
                /\ \A j \in Seats \ {i} : groups[g].member[j] # a

\* The other way about: a player who has the id of a live group has a seat in it, as
\* long as no group has had an empty seat before a taken one ("You are not in the
\* group you were supposed to be in!" is never said until then).
HasSeat ==
    packed => \A n \in Nodes : (node[n].avatar # None /\ Found(node[n].group)) =>
        \E i \in Seats : groups[node[n].group].member[i] = node[n].avatar

\* A player is in a group, or invited to it, only if its leader invited this
\* player: never because of a seat, or a node, that was somebody else's.
InvitedOnly ==
    \A n \in Nodes : (node[n].avatar # None /\ node[n].group # NoGroup) =>
        <<node[n].avatar, node[n].group>> \in invited

\* A player who cannot be invited because "already grouped" is in a group
\* that exists.
GroupExists ==
    \A n \in Nodes : node[n].avatar # None => MyGroup(n) = NoGroup \/ Found(MyGroup(n))

\* A player told "You are not the leader!" has not changed anything.
RefusedNothingDone ==
    [][\A n \in Nodes : Disban(n) =>
          groups[MyGroup(n)].member[1] = node[n].avatar \/ groups' = groups]_vars
=============================================================================
