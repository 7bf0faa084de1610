---------------------------- MODULE Group_proofs ----------------------------
(***************************************************************************)
(* Groups, for any number of avatars, nodes, seats and groups, as long as  *)
(* no node of the pool is handed out a second time (OneLap).               *)
(*                                                                         *)
(* Every handler computes a world of nodes and groups.  The invariants are *)
(* therefore stated of worlds, and each operation a handler is made of is  *)
(* shown to keep them; who GetPlayer finds does not change meanwhile.      *)
(***************************************************************************)
EXTENDS Group, FiniteSetTheorems, WellFoundedInduction, TLAPS

Given == GroupBounds /\ NoneIsNoAvatar /\ OneLap

NodeRecords == [avatar : Avatars \cup {None}, group : Ids \cup {NoGroup},
                accepted : BOOLEAN, asked : BOOLEAN]
GroupRecords == [live : BOOLEAN, member : [Seats -> Avatars \cup {None}],
                 ok : [Seats -> BOOLEAN]]
Worlds == [node : [Nodes -> NodeRecords], groups : [Ids -> GroupRecords]]

-----------------------------------------------------------------------------
(***************************************************************************)
(* The directory.                                                          *)
(***************************************************************************)

\* Nodes are handed out one after the other; the lookup leads to the avatar's own
\* node, or to one that is available again.
DirInv ==
    /\ logins <= Pool /\ (logins < Pool => circle = logins + 1)
    /\ \A n \in Nodes : n > logins => node[n].avatar = None
    /\ \A a \in Avatars : lookup[a] <= logins
    /\ \A a \in Avatars : lookup[a] # NoNode => node[lookup[a]].avatar \in {a, None}
    /\ \A n \in Nodes : node[n].avatar # None => lookup[node[n].avatar] = n

\* GetPlayer finds the player it was asked for, and every player that is playing.
LEMMA Finds ==
    ASSUME Given, WorldTyped, DirInv
    PROVE  /\ \A a \in Avatars \cup {None} : GetPlayer(a) \in Nodes \cup {NoNode}
           /\ GetPlayer(None) = NoNode
           /\ \A a \in Avatars : GetPlayer(a) # NoNode =>
                 GetPlayer(a) \in Nodes /\ node[GetPlayer(a)].avatar = a
           /\ \A n \in Nodes : node[n].avatar # None => GetPlayer(node[n].avatar) = n
<1>0. None \notin Avatars /\ lookup \in [Avatars -> Nodes \cup {NoNode}]
  BY DEF Given, NoneIsNoAvatar, WorldTyped
<1>1. \A n \in Nodes : node[n].avatar \in Avatars \cup {None}
  BY DEF WorldTyped
<1>2. NoNode \notin Nodes
  BY DEF NoNode, Nodes
<1>3. GetPlayer(None) = NoNode
  BY DEF GetPlayer
<1>4. ASSUME NEW a \in Avatars
      PROVE  /\ GetPlayer(a) \in Nodes \cup {NoNode}
             /\ GetPlayer(a) # NoNode => GetPlayer(a) \in Nodes /\ node[GetPlayer(a)].avatar = a
  BY <1>0, <1>1, <1>2 DEF GetPlayer, DirInv
<1>5. ASSUME NEW n \in Nodes, node[n].avatar # None PROVE GetPlayer(node[n].avatar) = n
  BY <1>0, <1>1, <1>2, <1>5 DEF GetPlayer, DirInv
<1> QED
  BY <1>3, <1>4, <1>5

\* The next node is the one the circular index points to.
LEMMA NextNode ==
    ASSUME Given, WorldTyped, DirInv, logins < MaxLogins
    PROVE  FirstFree = logins + 1 /\ logins + 1 \in Nodes
<1>1. Pool \in Nat /\ Pool > 0 /\ logins \in Nat /\ logins < Pool /\ circle = logins + 1
  BY DEF Given, GroupBounds, OneLap, WorldTyped, DirInv
<1>2. circle \in Nodes /\ node[circle].avatar = None
  BY <1>1 DEF DirInv, Nodes
<1>3. \A n \in Nodes : Distance(n) \in Nat
  BY <1>1 DEF Distance, Nodes
<1>4. ASSUME NEW n \in Nodes PROVE Distance(n) = 0 <=> n = circle
  BY <1>1, <1>4 DEF Distance, Nodes
<1>5. \A k \in Nodes : Distance(circle) <= Distance(k)
  BY <1>2, <1>3, <1>4
<1>6. \A n \in Nodes : (\A k \in Nodes : node[k].avatar = None => Distance(n) <= Distance(k))
                          => n = circle
  BY <1>2, <1>3, <1>4
<1>7. FirstFree = circle
  BY <1>2, <1>5, <1>6 DEF FirstFree
<1> QED
  BY <1>1, <1>2, <1>7

-----------------------------------------------------------------------------
(***************************************************************************)
(* What the operations do to a world.                                      *)
(***************************************************************************)

LEMMA NotMadeType == NotMade \in GroupRecords
BY DEF NotMade, GroupRecords

\* World v is w with the players in S in group g.
Assigned(v, w, S, g) ==
    /\ v \in Worlds /\ v.groups = w.groups
    /\ \A n \in Nodes :
         /\ v.node[n].avatar = w.node[n].avatar
         /\ v.node[n].asked = w.node[n].asked
         /\ v.node[n].group = IF n \in S THEN g ELSE w.node[n].group

LEMMA AssignFields ==
    ASSUME NEW w \in Worlds, NEW S, NEW g \in Ids \cup {NoGroup}, NEW v,
           v = Assign(w, S, g, TRUE) \/ v = Assign(w, S, g, FALSE)
    PROVE  Assigned(v, w, S, g)
<1> DEFINE As(ok) == [n \in Nodes |->
                        IF n \in S THEN [w.node[n] EXCEPT !.group = g, !.accepted = ok]
                        ELSE w.node[n]]
           Facts(f) == \A n \in Nodes :
                        /\ f[n] \in NodeRecords
                        /\ f[n].avatar = w.node[n].avatar /\ f[n].asked = w.node[n].asked
                        /\ f[n].group = IF n \in S THEN g ELSE w.node[n].group
<1>1. \A n \in Nodes : w.node[n] \in NodeRecords
  BY DEF Worlds
<1>2. Facts(As(TRUE))
  BY <1>1 DEF NodeRecords
<1>3. Facts(As(FALSE))
  BY <1>1 DEF NodeRecords
<1>4. v = [w EXCEPT !.node = As(TRUE)] \/ v = [w EXCEPT !.node = As(FALSE)]
  BY DEF Assign
<1> HIDE DEF As, Facts
<1>5. PICK f : Facts(f) /\ v = [w EXCEPT !.node = f]
  BY <1>2, <1>3, <1>4
<1>6. v = [node |-> v.node, groups |-> w.groups]
  BY <1>5 DEF Worlds
<1>7. \A n \in Nodes :
        /\ v.node[n] \in NodeRecords
        /\ v.node[n].avatar = w.node[n].avatar /\ v.node[n].asked = w.node[n].asked
        /\ v.node[n].group = IF n \in S THEN g ELSE w.node[n].group
  BY <1>5 DEF Facts, Worlds
<1>8. v.node \in [Nodes -> NodeRecords]
  BY <1>7, <1>4 DEF As, Worlds
<1> QED
  BY <1>6, <1>7, <1>8 DEF Worlds, Assigned

LEMMA RemoveFields ==
    ASSUME NEW w \in Worlds, NEW g \in Ids, NEW v, v = RemoveGroup(w, g)
    PROVE  /\ v \in Worlds /\ v.node = w.node
           /\ v.groups[g] = NotMade /\ \A h \in Ids \ {g} : v.groups[h] = w.groups[h]
BY NotMadeType DEF RemoveGroup, Worlds

\* World v is w with the members of g in no group, and g gone.
Disbanded(v, w, g) ==
    /\ v \in Worlds
    /\ v.groups[g] = NotMade /\ \A h \in Ids \ {g} : v.groups[h] = w.groups[h]
    /\ \A n \in Nodes :
         /\ v.node[n].avatar = w.node[n].avatar
         /\ v.node[n].asked = w.node[n].asked
         /\ v.node[n].group = IF n \in Seated(w, g, Seats) THEN NoGroup ELSE w.node[n].group

LEMMA DisbanFields ==
    ASSUME NEW w \in Worlds, NEW g \in Ids, NEW v, v = DisbanGroup(w, g)
    PROVE  Disbanded(v, w, g)
<1> DEFINE S == Seated(w, g, Seats)
           u == Assign(w, S, NoGroup, FALSE)
<1>1. Assigned(u, w, S, NoGroup)
  BY AssignFields, Zenon
<1>2. v = RemoveGroup(u, g)
  BY DEF DisbanGroup
<1> HIDE DEF u, S
<1>3. /\ v \in Worlds /\ v.node = u.node /\ v.groups[g] = NotMade
      /\ \A h \in Ids \ {g} : v.groups[h] = u.groups[h]
  BY <1>1, <1>2, RemoveFields DEF Assigned
<1> QED
  BY <1>1, <1>3 DEF S, Assigned, Disbanded

LEMMA CountRange ==
    ASSUME Given, NEW w \in Worlds, NEW g \in Ids
    PROVE  GetMemberCount(w, g) \in 0..Size
<1> DEFINE T == {i \in Seats : w.groups[g].member[i] # None}
<1>1. Size \in Nat
  BY DEF Given, GroupBounds
<1>2. IsFiniteSet(Seats) /\ Cardinality(Seats) = Size
  BY <1>1, FS_Interval DEF Seats
<1>3. IsFiniteSet(T)
  BY <1>2, FS_Subset
<1>4. Cardinality(T) <= Cardinality(Seats)
  BY <1>2, FS_Subset
<1>5. Cardinality(T) \in Nat
  BY <1>3, FS_CardinalityType
<1> QED
  BY <1>1, <1>2, <1>4, <1>5 DEF GetMemberCount

\* SendAuxToGroup disbands the group or tells its members what they know.
LEMMA SendAuxCases ==
    ASSUME Given, NEW w \in Worlds, NEW g \in Ids
    PROVE  \/ SendAuxToGroup(w, g) = DisbanGroup(w, g)
           \/ \E c \in 2..Size : SendAuxToGroup(w, g) = Assign(w, Seated(w, g, 1..c), g, TRUE)
<1> DEFINE c == GetMemberCount(w, g)
<1>1. c \in 0..Size /\ Size \in Nat
  BY CountRange DEF Given, GroupBounds
<1>2. SendAuxToGroup(w, g) =
        IF c < 2 THEN DisbanGroup(w, g) ELSE Assign(w, Seated(w, g, 1..c), g, TRUE)
  BY DEF SendAuxToGroup
<1> HIDE DEF c
<1>3. CASE c < 2
  BY <1>2, <1>3
<1>4. CASE ~(c < 2)
  <2>1. c \in 2..Size
    BY <1>1, <1>4
  <2> QED
    BY <1>2, <1>4, <2>1
<1> QED
  BY <1>3, <1>4

\* Somebody else takes each seat of the list without seat i, or nobody.
LEMMA ShiftedFields ==
    ASSUME Given, NEW member \in [Seats -> Avatars \cup {None}], NEW i \in Seats
    PROVE  /\ Shifted(member, i) \in [Seats -> Avatars \cup {None}]
           /\ \A x \in Seats : Shifted(member, i)[x] # None =>
                 \E y \in Seats \ {i} : /\ Shifted(member, i)[x] = member[y]
                                        /\ y = (IF x < i THEN x ELSE x + 1)
BY DEF Shifted, Seats, Given, GroupBounds

\* The other operations, field by field.
Marked(v, w, n, b) ==
    /\ v \in Worlds /\ v.groups = w.groups
    /\ \A m \in Nodes :
         /\ v.node[m].avatar = w.node[m].avatar /\ v.node[m].group = w.node[m].group
         /\ v.node[m].asked <=> IF m = n THEN b ELSE w.node[m].asked

Reseated(v, w, g, member) ==
    /\ v \in Worlds /\ v.node = w.node
    /\ \A h \in Ids \ {g} : v.groups[h] = w.groups[h]
    /\ v.groups[g].live = w.groups[g].live /\ v.groups[g].ok = w.groups[g].ok
    /\ v.groups[g].member = member

LEMMA MarkFields ==
    ASSUME NEW w \in Worlds, NEW n \in Nodes
    PROVE  Marked(Answered(w, n), w, n, FALSE) /\ Marked(Ask(w, n), w, n, TRUE)
<1> DEFINE As(b) == [w.node EXCEPT ![n] = [w.node[n] EXCEPT !.asked = b]]
<1>0. \A m \in Nodes : w.node[m] \in NodeRecords
  BY DEF Worlds
<1>1. As(TRUE) \in [Nodes -> NodeRecords] /\ As(FALSE) \in [Nodes -> NodeRecords]
  BY <1>0 DEF NodeRecords, Worlds
<1>2. \A m \in Nodes :
        /\ As(TRUE)[m].avatar = w.node[m].avatar /\ As(TRUE)[m].group = w.node[m].group
        /\ As(TRUE)[m].asked <=> IF m = n THEN TRUE ELSE w.node[m].asked
  BY <1>0 DEF NodeRecords, Worlds
<1>3. \A m \in Nodes :
        /\ As(FALSE)[m].avatar = w.node[m].avatar /\ As(FALSE)[m].group = w.node[m].group
        /\ As(FALSE)[m].asked <=> IF m = n THEN FALSE ELSE w.node[m].asked
  BY <1>0 DEF NodeRecords, Worlds
<1>4. /\ Answered(w, n) = [w EXCEPT !.node = As(FALSE)]
      /\ Ask(w, n) = [w EXCEPT !.node = As(TRUE)]
  BY DEF Answered, Ask
<1> DEFINE f == As(FALSE)
           t == As(TRUE)
<1> HIDE DEF f, t
<1>5. /\ Answered(w, n) = [node |-> f, groups |-> w.groups]
      /\ Ask(w, n) = [node |-> t, groups |-> w.groups]
  BY <1>4 DEF Worlds, f, t
<1>6. f \in [Nodes -> NodeRecords] /\ t \in [Nodes -> NodeRecords]
  BY <1>1 DEF f, t
<1>7. Answered(w, n) \in Worlds /\ Ask(w, n) \in Worlds
  BY <1>5, <1>6 DEF Worlds
<1>8. Marked(Answered(w, n), w, n, FALSE)
  BY <1>3, <1>5, <1>7 DEF Marked, f
<1>9. Marked(Ask(w, n), w, n, TRUE)
  BY <1>2, <1>5, <1>7 DEF Marked, t
<1> QED
  BY <1>8, <1>9

LEMMA ReseatFields ==
    ASSUME NEW w \in Worlds, NEW g \in Ids, NEW member \in [Seats -> Avatars \cup {None}]
    PROVE  Reseated([w EXCEPT !.groups[g].member = member], w, g, member)
<1> DEFINE r == [w.groups[g] EXCEPT !.member = member]
           gr == [w.groups EXCEPT ![g] = r]
<1>1. r \in GroupRecords /\ r.live = w.groups[g].live /\ r.ok = w.groups[g].ok /\ r.member = member
  BY DEF Worlds, GroupRecords
<1>2. [w EXCEPT !.groups[g].member = member] = [node |-> w.node, groups |-> gr]
  BY DEF Worlds
<1> HIDE DEF r
<1>3. gr \in [Ids -> GroupRecords] /\ gr[g] = r /\ \A h \in Ids \ {g} : gr[h] = w.groups[h]
  BY <1>1 DEF Worlds
<1> HIDE DEF gr
<1> QED
  BY <1>1, <1>2, <1>3 DEF Reseated, Worlds

\* A seat that is emptied is a member list too.
LEMMA EmptySeatFields ==
    ASSUME NEW w \in Worlds, NEW g \in Ids, NEW k \in Seats
    PROVE  Reseated([w EXCEPT !.groups[g].member[k] = None], w, g,
                    [w.groups[g].member EXCEPT ![k] = None])
<1> DEFINE m == [w.groups[g].member EXCEPT ![k] = None]
<1>1. m \in [Seats -> Avatars \cup {None}]
  BY DEF Worlds, GroupRecords
<1>2. [w EXCEPT !.groups[g].member[k] = None] = [w EXCEPT !.groups[g].member = m]
  OBVIOUS
<1> HIDE DEF m
<1> QED
  BY <1>1, <1>2, ReseatFields DEF m

\* Seat i of group g goes to a, who has still to answer.
Taken(v, w, g, i, a) ==
    /\ v \in Worlds /\ v.node = w.node
    /\ \A h \in Ids \ {g} : v.groups[h] = w.groups[h]
    /\ v.groups[g].live
    /\ v.groups[g].ok = [w.groups[g].ok EXCEPT ![i] = FALSE]
    /\ v.groups[g].member = [w.groups[g].member EXCEPT ![i] = a]

\* The answers of group g are ok.
Answers(v, w, g, ok) ==
    /\ v \in Worlds /\ v.node = w.node
    /\ \A h \in Ids \ {g} : v.groups[h] = w.groups[h]
    /\ v.groups[g].live = w.groups[g].live /\ v.groups[g].member = w.groups[g].member
    /\ v.groups[g].ok = ok

LEMMA AnswerFields ==
    ASSUME NEW w \in Worlds, NEW g \in Ids, NEW ok \in [Seats -> BOOLEAN]
    PROVE  Answers([w EXCEPT !.groups[g].ok = ok], w, g, ok)
<1> DEFINE r == [w.groups[g] EXCEPT !.ok = ok]
           gr == [w.groups EXCEPT ![g] = r]
<1>1. r \in GroupRecords /\ r.live = w.groups[g].live /\ r.member = w.groups[g].member /\ r.ok = ok
  BY DEF Worlds, GroupRecords
<1>2. [w EXCEPT !.groups[g].ok = ok] = [node |-> w.node, groups |-> gr]
  BY DEF Worlds
<1> HIDE DEF r
<1>3. gr \in [Ids -> GroupRecords] /\ gr[g] = r /\ \A h \in Ids \ {g} : gr[h] = w.groups[h]
  BY <1>1 DEF Worlds
<1> HIDE DEF gr
<1> QED
  BY <1>1, <1>2, <1>3 DEF Answers, Worlds

LEMMA SeatFields ==
    ASSUME NEW w \in Worlds, NEW g \in Ids, NEW i \in Seats, NEW a \in Avatars
    PROVE  Taken(Seat(w, g, i, a), w, g, i, a)
<1> DEFINE x == [w.groups[g].member EXCEPT ![i] = a]
           y == [w.groups[g].ok EXCEPT ![i] = FALSE]
           w1 == [w EXCEPT !.groups[g].member = x]
           w2 == [w1 EXCEPT !.groups[g].ok = y]
           w3 == [w2 EXCEPT !.groups[g].live = TRUE]
<1>1. x \in [Seats -> Avatars \cup {None}] /\ y \in [Seats -> BOOLEAN]
  BY DEF Worlds, GroupRecords
<1>2. Reseated(w1, w, g, x)
  BY <1>1, ReseatFields
<1>3. w1.groups[g].ok = w.groups[g].ok
  BY <1>2 DEF Reseated
<1>4. Seat(w, g, i, a) =
        [[[w EXCEPT !.groups[g].member = x] EXCEPT !.groups[g].ok = [@ EXCEPT ![i] = FALSE]]
           EXCEPT !.groups[g].live = TRUE]
  BY DEF Seat
<1>5. Seat(w, g, i, a) = w3
  BY <1>3, <1>4
<1> HIDE DEF x, y, w1
<1>6. Answers(w2, w1, g, y)
  BY <1>1, <1>2, AnswerFields DEF Reseated
<1> HIDE DEF w2
<1> DEFINE r == [w2.groups[g] EXCEPT !.live = TRUE]
           gr == [w2.groups EXCEPT ![g] = r]
<1>7. w2 \in Worlds
  BY <1>6 DEF Answers
<1>8. r \in GroupRecords /\ r.live /\ r.member = w2.groups[g].member /\ r.ok = w2.groups[g].ok
  BY <1>7, ZenonT(40) DEF Worlds, GroupRecords
<1>9. w3 = [w2 EXCEPT !.groups = gr]
  OBVIOUS
<1> HIDE DEF r
<1>10. gr \in [Ids -> GroupRecords] /\ gr[g] = r /\ \A h \in Ids \ {g} : gr[h] = w2.groups[h]
  BY <1>7, <1>8 DEF Worlds
<1> HIDE DEF gr, w3
<1>11. /\ w3 \in Worlds /\ w3.node = w2.node /\ w3.groups[g] = r
       /\ \A h \in Ids \ {g} : w3.groups[h] = w2.groups[h]
  BY <1>7, <1>9, <1>10 DEF Worlds
<1>12. Taken(w3, w, g, i, a)
  BY <1>2, <1>6, <1>8, <1>11 DEF Taken, Reseated, Answers, x, y
<1> QED
  BY <1>5, <1>12

\* A player is taken out of a group of two, which is disbanded, or out of a larger
\* one, whose later members move up.
LEMMA RemoveCases ==
    ASSUME NEW w \in Worlds, NEW g \in Ids, NEW i \in Seats, Given,
           NEW v, v = RemovePlayerFromGroup(w, g, i)
    PROVE  \E out \in Worlds :
             /\ Assigned(out, w, {GetPlayer(w.groups[g].member[i])}, NoGroup)
             /\ \/ GetMemberCount(w, g) = 2 /\ v = DisbanGroup(out, g)
                \/ /\ GetMemberCount(w, g) # 2
                   /\ \E moved \in Worlds :
                        /\ Reseated(moved, out, g, Shifted(w.groups[g].member, i))
                        /\ v = SendAuxToGroup(moved, g)
<1> DEFINE a == w.groups[g].member[i]
           out == Assign(w, {GetPlayer(a)}, NoGroup, FALSE)
           s == Shifted(w.groups[g].member, i)
           moved == [out EXCEPT !.groups[g].member = s]
<1>1. Assigned(out, w, {GetPlayer(a)}, NoGroup)
  BY AssignFields, Zenon
<1> HIDE DEF out
<1>2. out.groups[g].member = w.groups[g].member /\ out \in Worlds
  BY <1>1 DEF Assigned
<1>3. s \in [Seats -> Avatars \cup {None}]
  BY ShiftedFields DEF Worlds, GroupRecords
<1>4. moved = [out EXCEPT !.groups[g].member = Shifted(@, i)]
  BY <1>2
<1>5. v = IF GetMemberCount(w, g) = 2 THEN DisbanGroup(out, g) ELSE SendAuxToGroup(moved, g)
  BY <1>4 DEF RemovePlayerFromGroup, SendEmptyGroupAux, out
<1> HIDE DEF s
<1>6. Reseated(moved, out, g, s)
  BY <1>2, <1>3, ReseatFields
<1> HIDE DEF moved
<1>7. moved \in Worlds
  BY <1>6 DEF Reseated
<1> QED
  BY <1>1, <1>2, <1>5, <1>6, <1>7 DEF s

-----------------------------------------------------------------------------
(***************************************************************************)
(* Nobody is in a group without an invitation.                             *)
(***************************************************************************)

\* World w has the players of now, all of them and all seats with an invitation
\* in I.
Welcome(w, I) ==
    /\ w \in Worlds
    /\ \A n \in Nodes : w.node[n].avatar = node[n].avatar
    /\ \A n \in Nodes : node[n].avatar # None /\ w.node[n].group # NoGroup =>
                           <<node[n].avatar, w.node[n].group>> \in I
    /\ \A g \in Ids, i \in Seats : w.groups[g].member[i] # None =>
                           <<w.groups[g].member[i], g>> \in I

LEMMA NotMadeEmpty == \A i \in Seats : NotMade.member[i] = None
BY DEF NotMade

\* Out of a group: always welcome.
LEMMA WelcomeOut ==
    ASSUME NEW w, NEW I, Welcome(w, I), NEW S, NEW v, Assigned(v, w, S, NoGroup)
    PROVE  Welcome(v, I)
BY DEF Welcome, Assigned

\* Into a group: with an invitation.
LEMMA WelcomeIn ==
    ASSUME NEW w, NEW I, Welcome(w, I), NEW S, NEW g \in Ids, NEW v, Assigned(v, w, S, g),
           \A n \in Nodes \cap S : node[n].avatar # None => <<node[n].avatar, g>> \in I
    PROVE  Welcome(v, I)
BY DEF Welcome, Assigned

\* The players of the seats are those who hold them.
LEMMA SeatedHave ==
    ASSUME Given, WorldTyped, DirInv, NEW w, NEW I, Welcome(w, I), NEW g \in Ids,
           NEW S \in SUBSET Seats, NEW n \in Nodes \cap Seated(w, g, S)
    PROVE  <<node[n].avatar, g>> \in I
<1>1. PICK i \in S : n = GetPlayer(w.groups[g].member[i])
  BY DEF Seated
<1>2. w.groups[g].member[i] \in Avatars \cup {None}
  BY DEF Welcome, Worlds, GroupRecords
<1>3. n # NoNode
  BY DEF Nodes, NoNode
<1>4. w.groups[g].member[i] \in Avatars /\ node[n].avatar = w.groups[g].member[i]
  BY <1>1, <1>2, <1>3, Finds
<1> QED
  BY <1>4 DEF Welcome, Given, NoneIsNoAvatar

LEMMA WelcomeDisban ==
    ASSUME NEW w, NEW I, Welcome(w, I), NEW g \in Ids, NEW v, v = DisbanGroup(w, g)
    PROVE  Welcome(v, I)
<1>1. Disbanded(v, w, g)
  BY DisbanFields DEF Welcome
<1> QED
  BY <1>1, NotMadeEmpty DEF Welcome, Disbanded

LEMMA WelcomeRemove ==
    ASSUME NEW w, NEW I, Welcome(w, I), NEW g \in Ids, NEW v, v = RemoveGroup(w, g)
    PROVE  Welcome(v, I)
<1>1. /\ v \in Worlds /\ v.node = w.node
      /\ v.groups[g] = NotMade /\ \A h \in Ids \ {g} : v.groups[h] = w.groups[h]
  BY RemoveFields DEF Welcome
<1> QED
  BY <1>1, NotMadeEmpty DEF Welcome

LEMMA WelcomeSendAux ==
    ASSUME Given, WorldTyped, DirInv,
           NEW w, NEW I, Welcome(w, I), NEW g \in Ids, NEW v, v = SendAuxToGroup(w, g)
    PROVE  Welcome(v, I)
<1>0. w \in Worlds
  BY DEF Welcome
<1>1. CASE v = DisbanGroup(w, g)
  BY <1>1, WelcomeDisban
<1>2. ASSUME NEW c \in 2..Size, v = Assign(w, Seated(w, g, 1..c), g, TRUE)
      PROVE  Welcome(v, I)
  <2>1. 1..c \in SUBSET Seats
    BY DEF Given, GroupBounds, Seats
  <2>2. Assigned(v, w, Seated(w, g, 1..c), g)
    BY <1>0, <1>2, AssignFields, Zenon
  <2>3. \A n \in Nodes \cap Seated(w, g, 1..c) : <<node[n].avatar, g>> \in I
    BY <2>1, SeatedHave
  <2> QED
    BY <2>2, <2>3, WelcomeIn
<1> QED
  BY <1>0, <1>1, <1>2, SendAuxCases

\* A member list made of members.
LEMMA WelcomeReseat ==
    ASSUME NEW w, NEW I, Welcome(w, I), NEW g \in Ids, NEW v, NEW member,
           Reseated(v, w, g, member),
           \A x \in Seats : member[x] # None => \E y \in Seats : member[x] = w.groups[g].member[y]
    PROVE  Welcome(v, I)
BY DEF Welcome, Reseated

LEMMA WelcomeMark ==
    ASSUME NEW w, NEW I, Welcome(w, I), NEW n, NEW b, NEW v, Marked(v, w, n, b)
    PROVE  Welcome(v, I)
BY DEF Welcome, Marked

LEMMA WelcomeSeat ==
    ASSUME NEW w, NEW I, Welcome(w, I), NEW g \in Ids, NEW i \in Seats, NEW a, <<a, g>> \in I,
           NEW v, Taken(v, w, g, i, a)
    PROVE  Welcome(v, I)
<1>1. w.groups[g].member \in [Seats -> Avatars \cup {None}]
  BY DEF Welcome, Worlds, GroupRecords
<1>2. \A x \in Seats : v.groups[g].member[x] = IF x = i THEN a ELSE w.groups[g].member[x]
  BY <1>1 DEF Taken
<1>3. \A h \in Ids, x \in Seats : v.groups[h].member[x] # None =>
          <<v.groups[h].member[x], h>> \in I
  <2> TAKE h \in Ids, x \in Seats
  <2>1. CASE h # g
    BY <2>1 DEF Taken, Welcome
  <2>2. CASE h = g /\ x = i
    BY <2>2, <1>2
  <2>3. CASE h = g /\ x # i
    BY <2>3, <1>2 DEF Welcome
  <2> QED
    BY <2>1, <2>2, <2>3
<1> QED
  BY <1>3 DEF Welcome, Taken

LEMMA WelcomeAnswers ==
    ASSUME NEW w, NEW I, Welcome(w, I), NEW g \in Ids, NEW ok, NEW v, Answers(v, w, g, ok)
    PROVE  Welcome(v, I)
BY DEF Welcome, Answers

LEMMA WelcomeRemovePlayer ==
    ASSUME Given, WorldTyped, DirInv, NEW w, NEW I, Welcome(w, I),
           NEW g \in Ids, NEW i \in Seats, NEW v, v = RemovePlayerFromGroup(w, g, i)
    PROVE  Welcome(v, I)
<1>0. w \in Worlds
  BY DEF Welcome
<1>1. PICK out \in Worlds :
        /\ Assigned(out, w, {GetPlayer(w.groups[g].member[i])}, NoGroup)
        /\ \/ GetMemberCount(w, g) = 2 /\ v = DisbanGroup(out, g)
           \/ /\ GetMemberCount(w, g) # 2
              /\ \E moved \in Worlds :
                   /\ Reseated(moved, out, g, Shifted(w.groups[g].member, i))
                   /\ v = SendAuxToGroup(moved, g)
  BY <1>0, RemoveCases
<1>2. Welcome(out, I)
  BY <1>1, WelcomeOut
<1>3. CASE v = DisbanGroup(out, g)
  BY <1>2, <1>3, WelcomeDisban
<1>4. ASSUME NEW moved \in Worlds, Reseated(moved, out, g, Shifted(w.groups[g].member, i)),
             v = SendAuxToGroup(moved, g)
      PROVE  Welcome(v, I)
  <2>1. w.groups[g].member \in [Seats -> Avatars \cup {None}]
    BY <1>0 DEF Worlds, GroupRecords
  <2>2. out.groups[g].member = w.groups[g].member
    BY <1>1 DEF Assigned
  <2>3. \A x \in Seats : Shifted(w.groups[g].member, i)[x] # None =>
            \E y \in Seats : Shifted(w.groups[g].member, i)[x] = out.groups[g].member[y]
    <3> DEFINE m == w.groups[g].member
    <3>1. m \in [Seats -> Avatars \cup {None}] /\ out.groups[g].member = m
      BY <2>1, <2>2
    <3> HIDE DEF m
    <3>2. \A x \in Seats : Shifted(m, i)[x] # None => \E y \in Seats : Shifted(m, i)[x] = m[y]
      BY <3>1, ShiftedFields
    <3> QED
      BY <3>1, <3>2 DEF m
  <2>4. Welcome(moved, I)
    BY <1>2, <1>4, <2>3, WelcomeReseat
  <2> QED
    BY <1>4, <2>4, WelcomeSendAux
<1> QED
  BY <1>1, <1>3, <1>4

\* A handler whose world is welcome keeps the invitations and the directory.
GuestWorld == WorldTyped /\ DirInv /\ Welcome(World, invited)

LEMMA HandlerKeeps ==
    ASSUME Given, GuestWorld, NEW w, Becomes(w), Welcome(w, invited'), UNCHANGED directory,
           created' \in 0..MaxGroups, invited' \subseteq Avatars \X Ids
    PROVE  GuestWorld'
<1>1. node' = w.node /\ groups' = w.groups /\ w \in Worlds
  BY DEF Becomes, Welcome
<1>2. \A n \in Nodes : node'[n].avatar = node[n].avatar
  BY <1>1 DEF Welcome
<1>3. WorldTyped'
  BY <1>1 DEF WorldTyped, GuestWorld, directory, Worlds, NodeRecords, GroupRecords
<1>4. DirInv'
  BY <1>2 DEF DirInv, GuestWorld, WorldTyped, directory
<1>5. World' = w
  BY <1>1 DEF World, Worlds
<1>6. Welcome(World', invited') /\ Welcome(World, invited)'
  BY <1>1, <1>2, <1>5 DEF Welcome, World
<1> QED
  BY <1>3, <1>4, <1>6 DEF GuestWorld

-----------------------------------------------------------------------------
(***************************************************************************)
(* The handlers.                                                           *)
(***************************************************************************)

\* A set of numbers has a least element, and a bounded one a greatest.
LEMMA Least ==
    ASSUME NEW T \in SUBSET Nat, T # {}
    PROVE  \E m \in T : \A k \in T : m <= k
<1> DEFINE R == OpToRel(<, Nat)
<1>1. IsWellFoundedOn(R, Nat)
  BY NatLessThanWellFounded
<1>2. \A x, y \in Nat : x < y => <<x, y>> \in R
  BY DEF OpToRel
<1> HIDE DEF R
<1>3. PICK m \in T : \A k \in T : ~(<<k, m>> \in R)
  BY <1>1, WFMin
<1>4. \A k \in T : ~(k < m)
  BY <1>2, <1>3
<1>5. \A k \in T : m <= k
  BY <1>4
<1> QED
  BY <1>5

LEMMA Greatest ==
    ASSUME NEW z \in Nat, NEW T \in SUBSET (0..z), T # {}
    PROVE  \E m \in T : \A k \in T : k <= m
<1> DEFINE U == {z - k : k \in T}
<1>1. U \in SUBSET Nat /\ U # {}
  <2>1. \A k \in T : z - k \in Nat
    OBVIOUS
  <2>2. PICK k \in T : TRUE
    OBVIOUS
  <2>3. z - k \in U
    OBVIOUS
  <2> QED
    BY <2>1, <2>3
<1> HIDE DEF U
<1>2. PICK u \in U : \A k \in U : u <= k
  BY <1>1, Least
<1>3. PICK m \in T : u = z - m
  BY DEF U
<1>4. \A k \in T : z - k \in U
  BY DEF U
<1>5. \A k \in T : z - m <= z - k
  BY <1>2, <1>3, <1>4
<1>6. \A k \in T : k <= m
  BY <1>5
<1> QED
  BY <1>6

LEMMA SeatChoice ==
    ASSUME Given, NEW a, NEW g, NEW from \in {1, 2}, SeatsOf(a, g, from) # {}
    PROVE  /\ First(SeatsOf(a, g, from)) \in SeatsOf(a, g, from)
           /\ Last(SeatsOf(a, g, from)) \in SeatsOf(a, g, from)
<1> DEFINE S == SeatsOf(a, g, from)
<1>1. Size \in Nat
  BY DEF Given, GroupBounds
<1>2. S \in SUBSET (0..Size)
  BY <1>1 DEF SeatsOf
<1> HIDE DEF S
<1>3. S # {} /\ S \in SUBSET Nat
  BY <1>1, <1>2 DEF S
<1>4. \E m \in S : \A k \in S : m <= k
  BY <1>3, Least
<1>5. \E m \in S : \A k \in S : k <= m
  BY <1>1, <1>2, <1>3, Greatest
<1>6. First(S) \in S
  BY <1>4 DEF First
<1>7. Last(S) \in S
  BY <1>5 DEF Last
<1> QED
  BY <1>6, <1>7 DEF S

LEMMA SeatsOfAre ==
    ASSUME Given, NEW a, NEW g, NEW from \in {1, 2}, NEW i \in SeatsOf(a, g, from)
    PROVE  i \in Seats /\ i >= from /\ groups[g].member[i] = a
BY DEF SeatsOf, Seats, Given, GroupBounds

LEMMA WorldType == WorldTyped => World \in Worlds
BY DEF WorldTyped, World, Worlds, NodeRecords, GroupRecords

\* The group of a player, when it is found, is a group.
LEMMA FoundIs ==
    ASSUME WorldTyped, NEW n \in Nodes, Found(MyGroup(n))
    PROVE  MyGroup(n) \in Ids
BY DEF WorldTyped, MyGroup, Found

LEMMA WelcomeMore ==
    ASSUME NEW w, NEW I, NEW J, Welcome(w, I), I \subseteq J
    PROVE  Welcome(w, J)
BY DEF Welcome

LEMMA WelcomeLeave ==
    ASSUME Given, GuestWorld, NEW n \in Nodes, Playing(n), NEW v, v = LeaveGroup(World, n)
    PROVE  Welcome(v, invited)
<1> DEFINE g == MyGroup(n)
           me == node[n].avatar
           mine == SeatsOf(me, g, 1)
<1>1. WorldTyped /\ DirInv /\ Welcome(World, invited) /\ World \in Worlds
  BY WorldType DEF GuestWorld
<1>2. CASE Found(g) /\ mine # {}
  <2>1. g \in Ids /\ First(mine) \in Seats
    BY <1>1, <1>2, FoundIs, SeatChoice, SeatsOfAre
  <2>2. v = RemovePlayerFromGroup(World, g, First(mine))
    BY <1>2 DEF LeaveGroup
  <2> QED
    BY <1>1, <2>1, <2>2, WelcomeRemovePlayer
<1>3. CASE ~(Found(g) /\ mine # {})
  <2>1. v = Assign(World, {GetPlayer(me)}, NoGroup, FALSE)
    BY <1>3 DEF LeaveGroup, SendEmptyGroupAux
  <2>2. Assigned(v, World, {GetPlayer(me)}, NoGroup)
    BY <1>1, <2>1, AssignFields, Zenon
  <2> QED
    BY <1>1, <2>2, WelcomeOut
<1> QED
  BY <1>2, <1>3

LEMMA InviteBusyKeeps ==
    ASSUME Given, GuestWorld, NEW n \in Nodes, NEW t \in Avatars, InviteBusy(n, t)
    PROVE  GuestWorld'
<1> DEFINE p == GetPlayer(t)
           w == Answered(World, p)
<1>1. WorldTyped /\ DirInv /\ Welcome(World, invited) /\ World \in Worlds
  BY WorldType DEF GuestWorld
<1>2. p \in Nodes
  BY <1>1, Finds DEF InviteBusy, MayInvite
<1>3. w.node = [node EXCEPT ![p].asked = FALSE] /\ w.groups = groups
  BY DEF Answered, World
<1>4. Becomes(w)
  BY <1>3 DEF InviteBusy, Becomes
<1>5. Marked(w, World, p, FALSE)
  BY <1>1, <1>2, MarkFields
<1> HIDE DEF w
<1>6. Welcome(w, invited)
  BY <1>1, <1>5, WelcomeMark
<1>7. UNCHANGED <<directory, created, invited>>
  BY DEF InviteBusy
<1> QED
  BY <1>1, <1>4, <1>6, <1>7, HandlerKeeps DEF WorldTyped

LEMMA LeaveKeeps ==
    ASSUME Given, GuestWorld, NEW n \in Nodes, Leave(n)
    PROVE  GuestWorld'
<1>1. Welcome(LeaveGroup(World, n), invited)
  BY WelcomeLeave DEF Leave
<1> QED
  BY <1>1, HandlerKeeps DEF Leave, GuestWorld, WorldTyped

LEMMA KickKeeps ==
    ASSUME Given, GuestWorld, NEW n \in Nodes, NEW t \in Avatars, KickFromGroup(n, t)
    PROVE  GuestWorld'
<1> DEFINE g == MyGroup(n)
           i == First(SeatsOf(t, g, 2))
           w == RemovePlayerFromGroup(World, g, i)
<1>1. WorldTyped /\ DirInv /\ Welcome(World, invited)
  BY DEF GuestWorld
<1>2. g \in Ids /\ i \in Seats
  BY <1>1, FoundIs, SeatChoice, SeatsOfAre DEF KickFromGroup
<1>3. Becomes(w) /\ UNCHANGED <<directory, created, invited>>
  BY DEF KickFromGroup
<1>4. Welcome(w, invited)
  BY <1>1, <1>2, WelcomeRemovePlayer
<1> QED
  BY <1>1, <1>3, <1>4, HandlerKeeps DEF WorldTyped

LEMMA DisbanKeeps ==
    ASSUME Given, GuestWorld, NEW n \in Nodes, Disban(n)
    PROVE  GuestWorld'
<1> DEFINE g == MyGroup(n)
           w == DisbanGroup(World, g)
<1>1. WorldTyped /\ DirInv /\ Welcome(World, invited)
  BY DEF GuestWorld
<1>2. g \in Ids
  BY <1>1, FoundIs DEF Disban
<1>3. Becomes(w) /\ UNCHANGED <<directory, created, invited>>
  BY DEF Disban
<1>4. Welcome(w, invited)
  BY <1>1, <1>2, WelcomeDisban
<1> QED
  BY <1>1, <1>3, <1>4, HandlerKeeps DEF WorldTyped

\* A player who is asked into a new group.
LEMMA InviteToNewKeeps ==
    ASSUME Given, GuestWorld, NEW n \in Nodes, NEW t \in Avatars, InviteToNew(n, t)
    PROVE  GuestWorld'
<1> DEFINE p == GetPlayer(t)
           me == node[n].avatar
           g == created + 1
           both == Assign(World, {n, p}, g, FALSE)
           one == Seat(both, g, 1, me)
           two == Seat(one, g, 2, t)
           w == Ask(two, p)
           I == invited \cup {<<me, g>>, <<t, g>>}
<1>1. WorldTyped /\ DirInv /\ Welcome(World, invited) /\ World \in Worlds
  BY WorldType DEF GuestWorld
<1>2. p \in Nodes /\ node[p].avatar = t
  BY <1>1, Finds DEF InviteToNew, MayInvite
<1>3. g \in Ids /\ me \in Avatars /\ {1, 2} \subseteq Seats
  BY <1>1 DEF InviteToNew, MayInvite, Playing, WorldTyped, Ids, Given, GroupBounds, Seats
<1>4. created' = g /\ invited' = I /\ Becomes(w) /\ UNCHANGED directory
  BY DEF InviteToNew
<1>5. Assigned(both, World, {n, p}, g)
  BY <1>1, <1>3, AssignFields, Zenon
<1>6. Welcome(World, I)
  BY <1>1, WelcomeMore
<1> HIDE DEF both, I
<1>7. Welcome(both, I)
  <2>1. \A m \in Nodes \cap {n, p} : <<node[m].avatar, g>> \in I
    BY <1>2 DEF I
  <2> QED
    BY <1>3, <1>5, <1>6, <2>1, WelcomeIn
<1>8. Taken(one, both, g, 1, me)
  BY <1>3, <1>7, SeatFields DEF Welcome
<1> HIDE DEF one
<1>9. Welcome(one, I)
  BY <1>3, <1>7, <1>8, WelcomeSeat DEF I
<1>10. Taken(two, one, g, 2, t)
  BY <1>3, <1>9, SeatFields DEF Welcome
<1> HIDE DEF two
<1>11. Welcome(two, I)
  BY <1>3, <1>9, <1>10, WelcomeSeat DEF I
<1>12. Marked(w, two, p, TRUE)
  BY <1>2, <1>11, MarkFields DEF Welcome
<1> HIDE DEF w
<1>13. Welcome(w, I)
  BY <1>11, <1>12, WelcomeMark
<1>14. created' \in 0..MaxGroups /\ invited' \subseteq Avatars \X Ids
  BY <1>1, <1>3, <1>4 DEF WorldTyped, Ids, I, GroupBounds, Given
<1> QED
  BY <1>4, <1>13, <1>14, HandlerKeeps

\* A player who is asked into the group of its leader.
LEMMA InviteToGroupKeeps ==
    ASSUME Given, GuestWorld, NEW n \in Nodes, NEW t \in Avatars, InviteToGroup(n, t)
    PROVE  GuestWorld'
<1> DEFINE p == GetPlayer(t)
           g == MyGroup(n)
           i == NewSeat(g)
           u == Assign(World, {p}, g, FALSE)
           s == Seat(u, g, i, t)
           w == Ask(s, p)
           I == invited \cup {<<t, g>>}
<1>1. WorldTyped /\ DirInv /\ Welcome(World, invited) /\ World \in Worlds
  BY WorldType DEF GuestWorld
<1>2. p \in Nodes /\ node[p].avatar = t
  BY <1>1, Finds DEF InviteToGroup, MayInvite
<1>3. g \in Ids
  BY <1>1, FoundIs DEF InviteToGroup
<1>4. i \in Seats
  BY <1>1, <1>3, CountRange DEF NewSeat, InviteToGroup, Seats, Given, GroupBounds
<1>5. created' = created /\ invited' = I /\ Becomes(w) /\ UNCHANGED directory
  BY DEF InviteToGroup
<1>6. Assigned(u, World, {p}, g)
  BY <1>1, <1>3, AssignFields, Zenon
<1>7. Welcome(World, I)
  BY <1>1, WelcomeMore
<1> HIDE DEF u, I, g, i
<1>8. Welcome(u, I)
  <2>1. \A m \in Nodes \cap {p} : <<node[m].avatar, g>> \in I
    BY <1>2 DEF I
  <2> QED
    BY <1>3, <1>6, <1>7, <2>1, WelcomeIn
<1>9. Taken(s, u, g, i, t)
  BY <1>3, <1>4, <1>8, SeatFields DEF Welcome
<1> HIDE DEF s
<1>10. Welcome(s, I)
  BY <1>3, <1>4, <1>8, <1>9, WelcomeSeat DEF I
<1>11. Marked(w, s, p, TRUE)
  BY <1>2, <1>10, MarkFields DEF Welcome
<1> HIDE DEF w
<1>12. Welcome(w, I)
  BY <1>10, <1>11, WelcomeMark
<1>13. created' \in 0..MaxGroups /\ invited' \subseteq Avatars \X Ids
  BY <1>1, <1>3, <1>5 DEF WorldTyped, I
<1> QED
  BY <1>5, <1>12, <1>13, HandlerKeeps

\* The answers of a player who accepts.
LEMMA AcceptFields ==
    ASSUME Given, NEW w \in Worlds, NEW g \in Ids, NEW k \in Seats,
           NEW v, v = [w EXCEPT !.groups[g].ok[k] = TRUE, !.groups[g].ok[1] = TRUE]
    PROVE  \E ok \in [Seats -> BOOLEAN] :
              Answers(v, w, g, ok) /\ ok[1] = TRUE
<1> DEFINE x == [w.groups[g].ok EXCEPT ![k] = TRUE]
           y == [x EXCEPT ![1] = TRUE]
           w1 == [w EXCEPT !.groups[g].ok = x]
           w2 == [w1 EXCEPT !.groups[g].ok = y]
<1>1. x \in [Seats -> BOOLEAN] /\ y \in [Seats -> BOOLEAN] /\ 1 \in Seats
  <2>1. 1 \in Seats
    BY DEF Given, GroupBounds, Seats
  <2>2. w.groups[g].ok \in [Seats -> BOOLEAN]
    BY DEF Worlds, GroupRecords
  <2>3. \A f \in [Seats -> BOOLEAN] : \A j \in Seats :
            [f EXCEPT ![j] = TRUE] \in [Seats -> BOOLEAN]
    OBVIOUS
  <2>4. x \in [Seats -> BOOLEAN]
    BY <2>2, <2>3
  <2>5. y \in [Seats -> BOOLEAN]
    BY <2>1, <2>3, <2>4
  <2> QED
    BY <2>1, <2>4, <2>5
<1>2. Answers(w1, w, g, x)
  BY <1>1, AnswerFields
<1>3. w1.groups[g].ok = x
  BY <1>2 DEF Answers
<1>4. v = [[w EXCEPT !.groups[g].ok = x] EXCEPT !.groups[g].ok = [@ EXCEPT ![1] = TRUE]]
  OBVIOUS
<1>5. v = w2
  BY <1>3, <1>4
<1>6. y[1] = TRUE
  BY <1>1
<1> HIDE DEF x, y, w1
<1>7. Answers(w2, w1, g, y)
  BY <1>1, <1>2, AnswerFields DEF Answers
<1> HIDE DEF w2
<1>8. Answers(v, w, g, y)
  BY <1>2, <1>5, <1>7 DEF Answers
<1> QED
  BY <1>1, <1>6, <1>8

LEMMA AcceptKeeps ==
    ASSUME Given, GuestWorld, NEW n \in Nodes, AcceptGroupInvite(n)
    PROVE  GuestWorld'
<1> DEFINE g == MyGroup(n)
           mine == SeatsOf(node[n].avatar, g, 2)
           in == [World EXCEPT !.groups[g].ok[Last(mine)] = TRUE, !.groups[g].ok[1] = TRUE]
           u == Assign(in, {n}, g, TRUE)
           s == SendAuxToGroup(u, g)
<1>1. WorldTyped /\ DirInv /\ Welcome(World, invited) /\ World \in Worlds
  BY WorldType DEF GuestWorld
<1>2. UNCHANGED <<directory, created, invited>>
  BY DEF AcceptGroupInvite
<1>3. CASE Found(g) /\ mine # {}
  <2>1. g \in Ids /\ Last(mine) \in Seats /\ groups[g].member[Last(mine)] = node[n].avatar
    BY <1>1, <1>3, FoundIs, SeatChoice, SeatsOfAre
  <2>2. Becomes(Answered(s, n))
    BY <1>3 DEF AcceptGroupInvite
  <2>3. PICK ok : Answers(in, World, g, ok)
    BY <1>1, <2>1, AcceptFields
  <2> HIDE DEF in
  <2>4. Welcome(in, invited)
    BY <1>1, <2>1, <2>3, WelcomeAnswers
  <2>5. Assigned(u, in, {n}, g)
    <3>1. in \in Worlds /\ g \in Ids \cup {NoGroup}
      BY <2>1, <2>4 DEF Welcome
    <3> QED
      BY <3>1, AssignFields, Zenon
  <2> HIDE DEF u
  <2>6. <<node[n].avatar, g>> \in invited
    BY <1>1, <2>1 DEF Welcome, World, AcceptGroupInvite, Playing
  <2>7. Welcome(u, invited)
    BY <2>1, <2>4, <2>5, <2>6, WelcomeIn
  <2>8. Welcome(s, invited)
    BY <1>1, <2>1, <2>7, WelcomeSendAux
  <2> HIDE DEF s
  <2>9. Welcome(Answered(s, n), invited)
    BY <2>8, MarkFields, WelcomeMark DEF Welcome
  <2> QED
    BY <1>1, <1>2, <2>2, <2>9, HandlerKeeps DEF WorldTyped
<1>4. CASE ~(Found(g) /\ mine # {})
  <2>1. Becomes(Answered(World, n))
    BY <1>4 DEF AcceptGroupInvite
  <2>2. Welcome(Answered(World, n), invited)
    BY <1>1, MarkFields, WelcomeMark
  <2> QED
    BY <1>1, <1>2, <2>1, <2>2, HandlerKeeps DEF WorldTyped
<1> QED
  BY <1>3, <1>4

LEMMA RejectKeeps ==
    ASSUME Given, GuestWorld, NEW n \in Nodes, RejectGroupInvite(n)
    PROVE  GuestWorld'
<1> DEFINE g == MyGroup(n)
           mine == SeatsOf(node[n].avatar, g, 2)
           leader == GetPlayer(groups[g].member[1])
           an == Answered(World, n)
           out == Assign(an, {n}, NoGroup, FALSE)
           left == [out EXCEPT !.groups[g].member[Last(mine)] = None]
           sad == Assign(left, {leader}, NoGroup, FALSE)
           gone == RemoveGroup(sad, g)
<1>1. WorldTyped /\ DirInv /\ Welcome(World, invited) /\ World \in Worlds
  BY WorldType DEF GuestWorld
<1>2. UNCHANGED <<directory, created, invited>>
  BY DEF RejectGroupInvite
<1>3. Becomes(IF ~Found(g) \/ mine = {} THEN an
              ELSE IF leader = NoNode THEN out
              ELSE IF groups[g].ok[1] THEN left ELSE gone)
  BY DEF RejectGroupInvite
<1>4. Welcome(an, invited)
  BY <1>1, MarkFields, WelcomeMark
<1> HIDE DEF an
<1>5. Assigned(out, an, {n}, NoGroup)
  <2>1. an \in Worlds
    BY <1>4 DEF Welcome
  <2> QED
    BY <2>1, AssignFields, Zenon
<1> HIDE DEF out
<1>6. Welcome(out, invited)
  BY <1>4, <1>5, WelcomeOut
<1>7. ASSUME Found(g), mine # {}
      PROVE  Welcome(left, invited) /\ Welcome(gone, invited)
  <2>1. g \in Ids /\ Last(mine) \in Seats /\ out \in Worlds
    BY <1>1, <1>6, <1>7, FoundIs, SeatChoice, SeatsOfAre DEF Welcome
  <2> DEFINE m == [out.groups[g].member EXCEPT ![Last(mine)] = None]
  <2>2. Reseated(left, out, g, m)
    BY <2>1, EmptySeatFields
  <2>3. \A x \in Seats : m[x] # None => \E y \in Seats : m[x] = out.groups[g].member[y]
    BY <2>1 DEF Worlds, GroupRecords
  <2> HIDE DEF m, left
  <2>4. Welcome(left, invited)
    BY <1>6, <2>1, <2>2, <2>3, WelcomeReseat
  <2>5. Assigned(sad, left, {leader}, NoGroup)
    <3>1. left \in Worlds
      BY <2>4 DEF Welcome
    <3> QED
      BY <3>1, AssignFields, Zenon
  <2> HIDE DEF sad
  <2>6. Welcome(sad, invited)
    BY <2>4, <2>5, WelcomeOut
  <2> QED
    BY <2>1, <2>4, <2>6, WelcomeRemove
<1> HIDE DEF left, gone
<1>8. PICK w \in {an, out, left, gone} : Becomes(w) /\ Welcome(w, invited)
  BY <1>3, <1>4, <1>6, <1>7
<1> QED
  BY <1>1, <1>2, <1>8, HandlerKeeps DEF WorldTyped

\* A player who comes into a sector keeps the seat or loses it.
LEMMA RequestKeeps ==
    ASSUME Given, GuestWorld, NEW n \in Nodes, RequestGroupAux(n)
    PROVE  GuestWorld'
<1> DEFINE g == MyGroup(n)
           me == node[n].avatar
           mine == SeatsOf(me, g, 1)
           i == First(mine)
           p == GetPlayer(me)
           lost == [World EXCEPT !.groups[g].member[i] = None]
           out == Assign(World, {p}, NoGroup, FALSE)
           told == Assign(World, {p}, g, TRUE)
           gone == Assign(lost, {p}, NoGroup, FALSE)
<1>1. WorldTyped /\ DirInv /\ Welcome(World, invited) /\ World \in Worlds
  BY WorldType DEF GuestWorld
<1>2. UNCHANGED <<directory, created, invited>>
  BY DEF RequestGroupAux
<1>3. Becomes(IF ~Found(g) \/ mine = {} THEN out ELSE IF groups[g].ok[i] THEN told ELSE gone)
  BY DEF RequestGroupAux, SendEmptyGroupAux
<1>4. Welcome(out, invited)
  <2>1. Assigned(out, World, {p}, NoGroup)
    BY <1>1, AssignFields, Zenon
  <2> QED
    BY <1>1, <2>1, WelcomeOut
<1>5. ASSUME Found(g), mine # {}
      PROVE  Welcome(told, invited) /\ Welcome(gone, invited)
  <2>1. g \in Ids /\ i \in Seats /\ groups[g].member[i] = me
    BY <1>1, <1>5, FoundIs, SeatChoice, SeatsOfAre
  <2>2. p = n /\ <<me, g>> \in invited
    BY <1>1, <2>1, Finds DEF RequestGroupAux, Playing, Welcome, World
  <2>3. Assigned(told, World, {p}, g)
    <3>1. g \in Ids \cup {NoGroup}
      BY <2>1
    <3> QED
      BY <3>1, <1>1, AssignFields, Zenon
  <2> HIDE DEF told
  <2>4. Welcome(told, invited)
    BY <1>1, <2>1, <2>2, <2>3, WelcomeIn
  <2> DEFINE m == [World.groups[g].member EXCEPT ![i] = None]
  <2>5. Reseated(lost, World, g, m)
    BY <1>1, <2>1, EmptySeatFields
  <2>6. \A x \in Seats : m[x] # None => \E y \in Seats : m[x] = World.groups[g].member[y]
    BY <1>1, <2>1 DEF Worlds, GroupRecords
  <2> HIDE DEF m, lost
  <2>7. Welcome(lost, invited)
    BY <1>1, <2>1, <2>5, <2>6, WelcomeReseat
  <2>8. Assigned(gone, lost, {p}, NoGroup)
    <3>1. lost \in Worlds
      BY <2>7 DEF Welcome
    <3> QED
      BY <3>1, AssignFields, Zenon
  <2> QED
    BY <2>4, <2>7, <2>8, WelcomeOut
<1> HIDE DEF out, told, gone
<1>6. PICK w \in {out, told, gone} : Becomes(w) /\ Welcome(w, invited)
  BY <1>3, <1>4, <1>5
<1> QED
  BY <1>1, <1>2, <1>6, HandlerKeeps DEF WorldTyped

\* Nodes that become available again, after a handler's world w.
LEMMA ReleaseKeeps ==
    ASSUME Given, GuestWorld, NEW w, Welcome(w, invited), NEW S \in SUBSET Nodes,
           node' = Release(w.node, S), groups' = w.groups, drops' \in 0..MaxDrops,
           UNCHANGED <<lookup, circle, logins, created, invited>>
    PROVE  GuestWorld'
<1>1. w \in Worlds /\ Available \in NodeRecords
  BY DEF Welcome, Available, NodeRecords
<1>2. \A n \in Nodes : node'[n] = IF n \in S THEN Available ELSE w.node[n]
  BY DEF Release
<1>3. node' \in [Nodes -> NodeRecords]
  BY <1>1 DEF Release, Worlds
<1>4. WorldTyped'
  BY <1>1, <1>3 DEF WorldTyped, GuestWorld, Worlds, NodeRecords, GroupRecords
<1>5. \A n \in Nodes : node'[n].avatar = IF n \in S THEN None ELSE node[n].avatar
  BY <1>2 DEF Available, Welcome
<1>6. DirInv'
  BY <1>5 DEF DirInv, GuestWorld, WorldTyped
<1>7. Welcome(World, invited)'
  <2>1. World' \in Worlds
    BY <1>4, WorldType DEF WorldTyped, World, Worlds, NodeRecords, GroupRecords
  <2>2. World'.node = node' /\ World'.groups = w.groups
    BY DEF World
  <2>3. \A n \in Nodes : node'[n].avatar # None /\ node'[n].group # NoGroup =>
            <<node'[n].avatar, node'[n].group>> \in invited
    BY <1>2, <1>5 DEF Available, Welcome
  <2> QED
    BY <2>1, <2>2, <2>3 DEF Welcome
<1> QED
  BY <1>4, <1>6, <1>7 DEF GuestWorld

LEMMA LogoffKeeps ==
    ASSUME Given, GuestWorld, NEW n \in Nodes, HandleLogoffRequest(n)
    PROVE  GuestWorld'
<1>1. Welcome(LeaveGroup(World, n), invited)
  BY WelcomeLeave DEF HandleLogoffRequest
<1>2. drops' \in 0..MaxDrops
  BY DEF HandleLogoffRequest, directory, GuestWorld, WorldTyped
<1> QED
  BY <1>1, <1>2, ReleaseKeeps DEF HandleLogoffRequest, directory

LEMMA DropKeeps ==
    ASSUME Given, GuestWorld, NEW n \in Nodes, DropPlayerFromGalaxy(n)
    PROVE  GuestWorld'
<1>1. Welcome(World, invited) /\ World.node = node /\ World.groups = groups
  BY DEF GuestWorld, World
<1>2. drops' \in 0..MaxDrops
  BY DEF DropPlayerFromGalaxy, GuestWorld, WorldTyped, Given, OneLap
<1> QED
  BY <1>1, <1>2, ReleaseKeeps DEF DropPlayerFromGalaxy

\* A login takes a node that nobody has had.
LEMMA LoginKeeps ==
    ASSUME Given, GuestWorld, NEW a \in Avatars, Login(a)
    PROVE  GuestWorld'
<1> DEFINE twins == {n \in Nodes : node[n].avatar = a}
           k == logins + 1
           r == [Available EXCEPT !.avatar = a]
<1>1. WorldTyped /\ DirInv /\ Welcome(World, invited) /\ a # None
  BY DEF GuestWorld, Given, NoneIsNoAvatar
<1>2. FirstFree = k /\ k \in Nodes /\ logins \in Nat /\ logins < Pool /\ Pool \in Nat
  BY <1>1, NextNode DEF Login, WorldTyped, Given, OneLap, GroupBounds
<1>3. r \in NodeRecords /\ Available \in NodeRecords /\ r.avatar = a /\ r.group = NoGroup
  BY DEF Available, NodeRecords
<1> HIDE DEF r
<1>4. /\ node' = [Release(node, twins) EXCEPT ![k] = r]
      /\ lookup' = [lookup EXCEPT ![a] = k] /\ circle' = NextIndex(k) /\ logins' = k
      /\ UNCHANGED <<groups, created, invited>> /\ drops' = drops + Cardinality(twins)
      /\ drops' <= MaxDrops /\ logins < MaxLogins
  BY <1>2 DEF Login, r
<1>5. \A n \in Nodes : node'[n] = IF n = k THEN r ELSE IF n \in twins THEN Available ELSE node[n]
  BY <1>2, <1>4 DEF Release
<1>6. node' \in [Nodes -> NodeRecords]
  BY <1>1, <1>3, <1>4 DEF Release, WorldTyped, NodeRecords
<1>7. drops' \in 0..MaxDrops
  <2>1. IsFiniteSet(Nodes)
    BY <1>2, FS_Interval DEF Nodes
  <2>2. IsFiniteSet(twins)
    BY <2>1, FS_Subset
  <2>3. Cardinality(twins) \in Nat
    BY <2>2, FS_CardinalityType
  <2> QED
    BY <1>1, <1>4, <2>3 DEF WorldTyped, Given, OneLap
<1>8. circle' \in Nodes /\ (k < Pool => circle' = k + 1)
  BY <1>2, <1>4 DEF NextIndex, Nodes
<1>9. lookup' \in [Avatars -> Nodes \cup {NoNode}]
  BY <1>1, <1>2, <1>4 DEF WorldTyped
<1>10. WorldTyped'
  BY <1>1, <1>2, <1>4, <1>6, <1>7, <1>8, <1>9 DEF WorldTyped, NodeRecords, Given, OneLap
<1>11. \A n \in Nodes : node'[n].avatar =
          IF n = k THEN a ELSE IF node[n].avatar = a THEN None ELSE node[n].avatar
  BY <1>3, <1>5 DEF Available
<1>12. \A b \in Avatars : lookup'[b] = IF b = a THEN k ELSE lookup[b]
  BY <1>1, <1>4 DEF WorldTyped
<1>13. \A b \in Avatars : lookup[b] \in Nat /\ lookup[b] < k
  BY <1>1, <1>2 DEF DirInv, WorldTyped, Nodes, NoNode
<1>14. DirInv'
  <2>1. logins' <= Pool /\ (logins' < Pool => circle' = logins' + 1)
    BY <1>2, <1>4, <1>8
  <2>2. \A n \in Nodes : n > logins' => node'[n].avatar = None
    BY <1>1, <1>2, <1>4, <1>11 DEF DirInv, Nodes
  <2>3. \A b \in Avatars : lookup'[b] <= logins'
    BY <1>2, <1>4, <1>12, <1>13
  <2>4. \A b \in Avatars : lookup'[b] # NoNode => node'[lookup'[b]].avatar \in {b, None}
    <3> TAKE b \in Avatars
    <3>1. CASE b = a
      BY <3>1, <1>2, <1>11, <1>12
    <3>2. CASE b # a /\ lookup[b] # NoNode
      <4>1. lookup[b] \in Nodes /\ lookup[b] # k /\ lookup'[b] = lookup[b]
        BY <3>2, <1>1, <1>2, <1>12, <1>13 DEF WorldTyped
      <4>2. node[lookup[b]].avatar \in {b, None}
        BY <3>2, <1>1 DEF DirInv
      <4> QED
        BY <4>1, <4>2, <1>11
    <3> QED
      BY <3>1, <3>2, <1>12
  <2>5. \A n \in Nodes : node'[n].avatar # None => lookup'[node'[n].avatar] = n
    <3> TAKE n \in Nodes
    <3>1. CASE n = k
      BY <3>1, <1>11, <1>12
    <3>2. CASE n # k /\ node'[n].avatar # None
      <4>1. node'[n].avatar = node[n].avatar /\ node[n].avatar # a /\ node[n].avatar \in Avatars
        BY <3>2, <1>1, <1>11 DEF WorldTyped
      <4> QED
        BY <4>1, <3>2, <1>1, <1>12 DEF DirInv
    <3> QED
      BY <3>1, <3>2
  <2> QED
    BY <2>1, <2>2, <2>3, <2>4, <2>5 DEF DirInv
<1>15. Welcome(World, invited)'
  <2>1. World' \in Worlds /\ World'.node = node' /\ World'.groups = groups
    BY <1>4, <1>10 DEF WorldTyped, World, Worlds, NodeRecords, GroupRecords
  <2>2. \A n \in Nodes : node'[n].avatar # None /\ node'[n].group # NoGroup =>
            <<node'[n].avatar, node'[n].group>> \in invited
    BY <1>1, <1>3, <1>5 DEF Available, Welcome, World
  <2>3. \A g \in Ids, i \in Seats : groups[g].member[i] # None =>
            <<groups[g].member[i], g>> \in invited
    BY <1>1 DEF Welcome, World
  <2> QED
    BY <1>4, <2>1, <2>2, <2>3 DEF Welcome
<1> QED
  BY <1>10, <1>14, <1>15 DEF GuestWorld

\* And the history is kept.
GuestInv == GuestWorld /\ led \in BOOLEAN /\ packed \in BOOLEAN

LEMMA GuestInit == Given /\ Init => GuestInv
<1> SUFFICES ASSUME Given, Init PROVE GuestInv
  OBVIOUS
<1>1. WorldTyped
  <2>1. Available \in NodeRecords /\ NotMade \in GroupRecords
    BY NotMadeType DEF Available, NodeRecords
  <2>2. 1 \in Nodes /\ 0 \in 0..MaxGroups /\ 0 \in 0..MaxLogins /\ 0 \in 0..MaxDrops
    BY DEF Given, GroupBounds, OneLap, Nodes
  <2> QED
    BY <2>1, <2>2 DEF Init, WorldTyped, NodeRecords, GroupRecords, NoNode
<1>2. DirInv
  BY DEF Init, DirInv, Available, NoNode, Given, GroupBounds
<1>3. Welcome(World, invited)
  <2>1. World \in Worlds /\ World.node = node /\ World.groups = groups
    BY <1>1, WorldType DEF World
  <2>2. \A n \in Nodes : node[n].group = NoGroup
    BY DEF Init, Available
  <2>3. \A g \in Ids, i \in Seats : groups[g].member[i] = None
    BY NotMadeEmpty DEF Init
  <2> QED
    BY <2>1, <2>2, <2>3 DEF Welcome
<1> QED
  BY <1>1, <1>2, <1>3 DEF GuestInv, GuestWorld, Init

LEMMA GuestStep == Given /\ GuestInv /\ [Next]_vars => GuestInv'
<1> SUFFICES ASSUME Given, GuestInv, [Next]_vars PROVE GuestInv'
  OBVIOUS
<1>1. CASE UNCHANGED vars
  BY <1>1 DEF GuestInv, GuestWorld, vars, directory, WorldTyped, DirInv, Welcome, World
<1>2. CASE Next
  <2>1. led' \in BOOLEAN /\ packed' \in BOOLEAN
    BY <1>2 DEF Next
  <2>2. GuestWorld
    BY DEF GuestInv
  <2>3. ASSUME NEW n \in Nodes, Client(n) PROVE GuestWorld'
    BY <2>2, <2>3, InviteBusyKeeps, InviteToNewKeeps, InviteToGroupKeeps, AcceptKeeps, RejectKeeps,
       LeaveKeeps, LogoffKeeps, DisbanKeeps, KickKeeps, RequestKeeps DEF Client
  <2>4. GuestWorld'
    BY <1>2, <2>2, <2>3, LoginKeeps, DropKeeps DEF Next
  <2> QED
    BY <2>1, <2>4 DEF GuestInv
<1> QED
  BY <1>1, <1>2

LEMMA GuestMeans == GuestInv => TypeOK /\ InvitedOnly
BY DEF GuestInv, GuestWorld, TypeOK, Welcome, World, InvitedOnly

\* For any avatars, pool, seats, groups, drops and sector changes, within one lap of
\* the pool: a player is in a group, or invited to it, only if its leader invited this
\* player, also when handlers tell whole groups and nodes are released under them
\* (GroupManager.cpp).
THEOREM OnlyTheInvited ==
    ASSUME GroupBounds, NoneIsNoAvatar, OneLap
    PROVE  Spec => []InvitedOnly
<1>1. Given
  BY DEF Given
<1> QED
  BY <1>1, GuestInit, GuestStep, GuestMeans, PTL DEF Spec

-----------------------------------------------------------------------------
(***************************************************************************)
(* Every seat is held by a player of the game whose own group it is.       *)
(***************************************************************************)

\* Nobody holds a seat of another group, holds two, or is not in the game.
Fits(w) ==
    /\ w \in Worlds
    /\ \A g \in Ids, i \in Seats : w.groups[g].member[i] # None =>
          \E m \in Nodes : w.node[m].avatar = w.groups[g].member[i]
    /\ \A g \in Ids, i \in Seats, m \in Nodes :
          w.groups[g].member[i] # None /\ w.node[m].avatar = w.groups[g].member[i] =>
              w.node[m].group = g
    /\ \A g \in Ids : \A i, j \in Seats :
          w.groups[g].member[i] # None /\ w.groups[g].member[i] = w.groups[g].member[j] => i = j

\* A group that is not live has no members; the live ones have been created.
Gone(w, c) ==
    \A g \in Ids : /\ ~w.groups[g].live => w.groups[g] = NotMade
                   /\ w.groups[g].live => g <= c

Sound(w, c) == Fits(w) /\ Gone(w, c)

\* Who has the id of a live group has a seat in it.
Holds(w) ==
    \A n \in Nodes : \A g \in Ids :
        w.node[n].avatar # None /\ w.node[n].group = g /\ w.groups[g].live =>
            \E i \in Seats : w.groups[g].member[i] = w.node[n].avatar

Unseated(w, n) ==
    \A g \in Ids, i \in Seats : w.groups[g].member[i] # None =>
        w.groups[g].member[i] # w.node[n].avatar

LEMMA SeatedIsLive ==
    ASSUME NEW w, NEW c, Sound(w, c), NEW g \in Ids, NEW i \in Seats,
           w.groups[g].member[i] # None
    PROVE  w.groups[g].live
BY NotMadeEmpty DEF Sound, Gone

\* Who is in no live group holds no seat.
LEMMA OutsideUnseated ==
    ASSUME NEW w, NEW c, Sound(w, c), NEW n \in Nodes,
           w.node[n].group = NoGroup \/ ~w.groups[w.node[n].group].live
    PROVE  Unseated(w, n)
<1> SUFFICES ASSUME NEW g \in Ids, NEW i \in Seats, w.groups[g].member[i] # None,
                    w.groups[g].member[i] = w.node[n].avatar
             PROVE  FALSE
  BY DEF Unseated
<1>1. w.node[n].group = g
  BY DEF Sound, Fits
<1>2. w.groups[g].live
  BY SeatedIsLive
<1> QED
  BY <1>1, <1>2 DEF Ids, NoGroup

\* Telling players what they know, or players without a seat anything.
LEMMA SoundAssign ==
    ASSUME NEW w, NEW c, Sound(w, c), NEW S, NEW g, NEW v, Assigned(v, w, S, g),
           \A n \in Nodes \cap S : w.node[n].group = g \/ Unseated(w, n)
    PROVE  /\ Sound(v, c)
           /\ Holds(w) /\ (g = NoGroup \/ \A n \in Nodes \cap S : w.node[n].group = g) => Holds(v)
<1>1. v \in Worlds /\ v.groups = w.groups
  BY DEF Assigned
<1>2. \A n \in Nodes : v.node[n].avatar = w.node[n].avatar /\ v.node[n].asked = w.node[n].asked
  BY DEF Assigned
<1>3. Fits(v)
  <2>1. ASSUME NEW h \in Ids, NEW i \in Seats, NEW m \in Nodes,
               w.groups[h].member[i] # None, w.node[m].avatar = w.groups[h].member[i]
        PROVE  v.node[m].group = h
    <3>1. w.node[m].group = h
      BY <2>1 DEF Sound, Fits
    <3> QED
      BY <2>1, <3>1 DEF Assigned, Unseated
  <2>2. /\ \A h \in Ids, i \in Seats : w.groups[h].member[i] # None =>
             \E m \in Nodes : w.node[m].avatar = w.groups[h].member[i]
        /\ \A h \in Ids : \A i, j \in Seats :
             w.groups[h].member[i] # None /\ w.groups[h].member[i] = w.groups[h].member[j] => i = j
    BY DEF Sound, Fits
  <2> QED
    BY <1>1, <1>2, <2>1, <2>2 DEF Fits
<1>4. ASSUME Holds(w), g = NoGroup \/ \A n \in Nodes \cap S : w.node[n].group = g
      PROVE  Holds(v)
  <2>1. \A n \in Nodes : v.node[n].group \in {w.node[n].group, NoGroup}
    BY <1>4 DEF Assigned
  <2>2. NoGroup \notin Ids
    BY DEF NoGroup, Ids
  <2> QED
    BY <1>1, <1>2, <1>4, <2>1, <2>2 DEF Holds
<1>5. Gone(v, c)
  BY <1>1 DEF Sound, Gone
<1> QED
  BY <1>3, <1>4, <1>5 DEF Sound

\* Group g is gone; only players who were in it, or hold no seat, are told anything.
LEMMA SoundWithout ==
    ASSUME Given, NEW w, NEW c, Sound(w, c), NEW g \in Ids, NEW v \in Worlds,
           v.groups[g] = NotMade, \A h \in Ids \ {g} : v.groups[h] = w.groups[h],
           \A n \in Nodes : v.node[n].avatar = w.node[n].avatar,
           \A n \in Nodes :
              \/ w.node[n].group = g \/ Unseated(w, n)
              \/ v.node[n].group = w.node[n].group
    PROVE  /\ Sound(v, c)
           /\ Holds(w) /\ (\A n \in Nodes : v.node[n].group \in {w.node[n].group, NoGroup}) =>
                 Holds(v)
<1>0. ~NotMade.live /\ \A i \in Seats : NotMade.member[i] = None
  BY DEF NotMade
<1>1. \A h \in Ids, i \in Seats : v.groups[h].member[i] # None =>
          h # g /\ v.groups[h] = w.groups[h]
  BY <1>0
<1>2. Fits(v)
  <2>1. \A h \in Ids, i \in Seats : v.groups[h].member[i] # None =>
            \E m \in Nodes : v.node[m].avatar = v.groups[h].member[i]
    BY <1>1 DEF Sound, Fits
  <2>2. \A h \in Ids, i \in Seats, m \in Nodes :
            v.groups[h].member[i] # None /\ v.node[m].avatar = v.groups[h].member[i] =>
                v.node[m].group = h
    <3> TAKE h \in Ids, i \in Seats, m \in Nodes
    <3> HAVE v.groups[h].member[i] # None /\ v.node[m].avatar = v.groups[h].member[i]
    <3>1. h # g /\ w.groups[h].member[i] # None /\ w.node[m].avatar = w.groups[h].member[i]
      BY <1>1
    <3>2. w.node[m].group = h /\ ~Unseated(w, m)
      BY <3>1 DEF Sound, Fits, Unseated
    <3> QED
      BY <3>1, <3>2
  <2>3. \A h \in Ids : \A i, j \in Seats :
            v.groups[h].member[i] # None /\ v.groups[h].member[i] = v.groups[h].member[j] => i = j
    BY <1>1 DEF Sound, Fits
  <2> QED
    BY <2>1, <2>2, <2>3 DEF Fits
<1>3. ASSUME Holds(w), \A n \in Nodes : v.node[n].group \in {w.node[n].group, NoGroup}
      PROVE  Holds(v)
  <2>1. NoGroup \notin Ids
    BY DEF NoGroup, Ids
  <2>2. \A h \in Ids : v.groups[h].live => h # g /\ v.groups[h] = w.groups[h]
    BY <1>0
  <2> QED
    BY <1>3, <2>1, <2>2 DEF Holds
<1>4. Gone(v, c)
  BY <1>0 DEF Sound, Gone
<1> QED
  BY <1>2, <1>3, <1>4 DEF Sound

\* The member list of group g loses what was in seat i, and only the player who was
\* in that seat is told anything.
Vacated(v, w, g, i) ==
    /\ v \in Worlds /\ \A h \in Ids \ {g} : v.groups[h] = w.groups[h]
    /\ v.groups[g].live = w.groups[g].live /\ w.groups[g].member[i] # None
    /\ \A n \in Nodes :
          /\ v.node[n].avatar = w.node[n].avatar
          /\ \/ w.node[n].avatar = w.groups[g].member[i]
             \/ v.node[n].group = w.node[n].group
    /\ \A x \in Seats : v.groups[g].member[x] # None =>
          \E y \in Seats \ {i} : v.groups[g].member[x] = w.groups[g].member[y]
    /\ \A x, y \in Seats :
          v.groups[g].member[x] # None /\ v.groups[g].member[x] = v.groups[g].member[y] => x = y

\* The others keep a seat, and who was in seat i is in no group.
Others(v, w, g, i) ==
    /\ \A y \in Seats \ {i} : \E x \in Seats : v.groups[g].member[x] = w.groups[g].member[y]
    /\ \A n \in Nodes : w.node[n].avatar = w.groups[g].member[i] => v.node[n].group = NoGroup

LEMMA SoundReseat ==
    ASSUME Given, NEW w, NEW c, Sound(w, c), NEW g \in Ids, NEW i \in Seats, NEW v,
           Vacated(v, w, g, i)
    PROVE  Sound(v, c) /\ (Holds(w) /\ Others(v, w, g, i) => Holds(v))
<1> USE DEF Vacated
<1>0. w.groups[g].live
  BY SeatedIsLive
<1>1. ASSUME NEW n \in Nodes, w.node[n].avatar = w.groups[g].member[i]
      PROVE  w.node[n].group = g
  BY <1>1 DEF Sound, Fits
<1>2. Fits(v)
  <2>1. \A h \in Ids, x \in Seats : v.groups[h].member[x] # None =>
            \E m \in Nodes : v.node[m].avatar = v.groups[h].member[x]
    <3> TAKE h \in Ids, x \in Seats
    <3>1. v.groups[h].member[x] # None =>
             \E y \in Seats : v.groups[h].member[x] = w.groups[h].member[y]
      OBVIOUS
    <3> QED
      BY <3>1 DEF Sound, Fits
  <2>2. \A h \in Ids, x \in Seats, m \in Nodes :
            v.groups[h].member[x] # None /\ v.node[m].avatar = v.groups[h].member[x] =>
                v.node[m].group = h
    <3> TAKE h \in Ids, x \in Seats, m \in Nodes
    <3> HAVE v.groups[h].member[x] # None /\ v.node[m].avatar = v.groups[h].member[x]
    <3>1. CASE h # g
      <4>1. w.node[m].group = h
        BY <3>1 DEF Sound, Fits
      <4> QED
        BY <1>1, <3>1, <4>1
    <3>2. CASE h = g
      <4>1. PICK y \in Seats \ {i} : v.groups[g].member[x] = w.groups[g].member[y]
        BY <3>2
      <4>2. w.node[m].avatar = w.groups[g].member[y] /\ w.groups[g].member[y] # None
        BY <3>2, <4>1
      <4>3. w.node[m].group = g /\ w.groups[g].member[y] # w.groups[g].member[i]
        BY <4>1, <4>2 DEF Sound, Fits
      <4> QED
        BY <3>2, <4>2, <4>3
    <3> QED
      BY <3>1, <3>2
  <2>3. \A h \in Ids : \A x, y \in Seats :
            v.groups[h].member[x] # None /\ v.groups[h].member[x] = v.groups[h].member[y] => x = y
    BY DEF Sound, Fits
  <2> QED
    BY <2>1, <2>2, <2>3 DEF Fits
<1>3. ASSUME Holds(w), Others(v, w, g, i) PROVE Holds(v)
  <2> SUFFICES ASSUME NEW n \in Nodes, NEW h \in Ids, v.node[n].avatar # None,
                      v.node[n].group = h, v.groups[h].live
               PROVE  \E x \in Seats : v.groups[h].member[x] = v.node[n].avatar
    BY DEF Holds
  <2>1. w.node[n].avatar # w.groups[g].member[i] /\ w.node[n].group = h
    BY <1>3 DEF Others, NoGroup, Ids
  <2>2. w.groups[h].live
    BY <1>0
  <2>3. PICK y \in Seats : w.groups[h].member[y] = w.node[n].avatar
    BY <1>3, <2>1, <2>2 DEF Holds
  <2>4. CASE h # g
    BY <2>3, <2>4
  <2>5. CASE h = g
    BY <1>3, <2>1, <2>3, <2>5 DEF Others
  <2> QED
    BY <2>4, <2>5
<1>4. Gone(v, c)
  BY <1>0 DEF Sound, Gone
<1> QED
  BY <1>2, <1>3, <1>4 DEF Sound

\* A question is opened or closed.
LEMMA SoundMark ==
    ASSUME Given, NEW w, NEW c, Sound(w, c), NEW n \in Nodes, NEW b, NEW v, Marked(v, w, n, b)
    PROVE  Sound(v, c) /\ (Holds(w) => Holds(v))
BY DEF Sound, Fits, Gone, Holds, Marked

\* Somebody has accepted.
LEMMA SoundAnswers ==
    ASSUME NEW w, NEW c, Sound(w, c), NEW g \in Ids, w.groups[g].live, NEW ok,
           NEW v, Answers(v, w, g, ok)
    PROVE  Sound(v, c) /\ (Holds(w) => Holds(v))
<1>1. v.node = w.node /\ \A h \in Ids : /\ v.groups[h].member = w.groups[h].member
                                       /\ v.groups[h].live = w.groups[h].live
  BY DEF Answers
<1>2. Fits(v)
  BY DEF Sound, Fits, Answers
<1>3. Gone(v, c)
  BY DEF Answers, Sound, Gone
<1> QED
  BY <1>1, <1>2, <1>3 DEF Sound, Holds

\* The world has the players of now, so GetPlayer finds its players.
Current(w) == w \in Worlds /\ \A n \in Nodes : w.node[n].avatar = node[n].avatar

LEMMA SeatedSit ==
    ASSUME Given, WorldTyped, DirInv, NEW w, Current(w), NEW g \in Ids, NEW S \in SUBSET Seats,
           NEW n \in Nodes \cap Seated(w, g, S)
    PROVE  \E i \in S : w.groups[g].member[i] # None /\ w.node[n].avatar = w.groups[g].member[i]
<1>1. PICK i \in S : n = GetPlayer(w.groups[g].member[i])
  BY DEF Seated
<1>2. w.groups[g].member[i] \in Avatars \cup {None}
  BY DEF Current, Worlds, GroupRecords
<1>3. n # NoNode
  BY DEF Nodes, NoNode
<1>4. w.groups[g].member[i] \in Avatars /\ node[n].avatar = w.groups[g].member[i]
  BY <1>1, <1>2, <1>3, Finds
<1> QED
  BY <1>4 DEF Current, Given, NoneIsNoAvatar

\* Where no seat is empty before a taken one, the seat by the number of members is.
LEMMA CountPacked ==
    ASSUME Given, NEW w, NEW g,
           \A i, j \in Seats :
              i < j /\ w.groups[g].member[j] # None => w.groups[g].member[i] # None,
           GetMemberCount(w, g) + 1 \in Seats
    PROVE  w.groups[g].member[GetMemberCount(w, g) + 1] = None
<1> DEFINE T == {i \in Seats : w.groups[g].member[i] # None}
           k == Cardinality(T) + 1
<1>1. k = GetMemberCount(w, g) + 1
  BY DEF GetMemberCount
<1> SUFFICES ASSUME w.groups[g].member[k] # None PROVE FALSE
  BY <1>1
<1>2. Size \in Nat /\ k \in 1..Size
  BY <1>1 DEF Given, GroupBounds, Seats
<1>3. 1..k \subseteq T
  <2> SUFFICES ASSUME NEW x \in 1..k PROVE x \in Seats /\ w.groups[g].member[x] # None
    OBVIOUS
  <2> HIDE DEF k
  <2>1. x \in Seats /\ k \in Seats /\ (x = k \/ x < k)
    BY <1>2 DEF Seats
  <2> QED
    BY <2>1
<1>4. IsFiniteSet(T)
  BY <1>2, FS_Interval, FS_Subset DEF Seats
<1>5. Cardinality(1..k) = k
  BY <1>2, FS_Interval
<1>6. Cardinality(1..k) <= Cardinality(T) /\ Cardinality(T) \in Nat
  BY <1>3, <1>4, FS_Subset, FS_CardinalityType
<1> HIDE DEF T
<1> QED
  BY <1>5, <1>6

LEMMA CountSome ==
    ASSUME Given, NEW w \in Worlds, NEW g \in Ids, w.groups[g].member[1] # None
    PROVE  GetMemberCount(w, g) >= 1
<1> DEFINE T == {i \in Seats : w.groups[g].member[i] # None}
<1>1. Size \in Nat /\ 1 \in T
  BY DEF Given, GroupBounds, Seats
<1>2. IsFiniteSet(Seats)
  BY <1>1, FS_Interval DEF Seats
<1>3. IsFiniteSet(T)
  BY <1>2, FS_Subset
<1>4. Cardinality(T) \in Nat /\ Cardinality(T) # 0
  BY <1>1, <1>3, FS_CardinalityType, FS_EmptySet
<1> QED
  BY <1>4 DEF GetMemberCount

LEMMA SoundDisban ==
    ASSUME Given, WorldTyped, DirInv, NEW w, NEW c, Sound(w, c), Current(w), NEW g \in Ids,
           NEW v, v = DisbanGroup(w, g)
    PROVE  Sound(v, c) /\ Current(v) /\ (Holds(w) => Holds(v))
<1>0. w \in Worlds
  BY DEF Current
<1>1. Disbanded(v, w, g)
  BY <1>0, DisbanFields
<1>2. \A n \in Nodes \cap Seated(w, g, Seats) : w.node[n].group = g
  BY SeatedSit DEF Sound, Fits
<1>3. v \in Worlds /\ \A n \in Nodes :
        /\ v.node[n].avatar = w.node[n].avatar
        /\ w.node[n].group = g \/ v.node[n].group = w.node[n].group
        /\ v.node[n].group \in {w.node[n].group, NoGroup}
  BY <1>1, <1>2 DEF Disbanded
<1>4. v.groups[g] = NotMade /\ \A h \in Ids \ {g} : v.groups[h] = w.groups[h]
  BY <1>1 DEF Disbanded
<1>5. Sound(v, c) /\ (Holds(w) => Holds(v))
  BY <1>3, <1>4, SoundWithout
<1> QED
  BY <1>3, <1>5 DEF Current

LEMMA SoundSendAux ==
    ASSUME Given, WorldTyped, DirInv, NEW w, NEW c, Sound(w, c), Current(w), NEW g \in Ids,
           NEW v, v = SendAuxToGroup(w, g)
    PROVE  /\ Sound(v, c) /\ Current(v) /\ (Holds(w) => Holds(v))
           /\ \A n \in Nodes : Unseated(w, n) => v.node[n].group = w.node[n].group
<1>0. w \in Worlds
  BY DEF Current
<1>1. CASE v = DisbanGroup(w, g)
  <2>1. Disbanded(v, w, g)
    BY <1>0, <1>1, DisbanFields
  <2>2. \A n \in Nodes : Unseated(w, n) => n \notin Seated(w, g, Seats)
    BY SeatedSit DEF Unseated
  <2>3. \A n \in Nodes : Unseated(w, n) => v.node[n].group = w.node[n].group
    BY <2>1, <2>2 DEF Disbanded
  <2> QED
    BY <1>1, <2>3, SoundDisban
<1>2. ASSUME NEW k \in 2..Size, v = Assign(w, Seated(w, g, 1..k), g, TRUE)
      PROVE  /\ Sound(v, c) /\ Current(v) /\ (Holds(w) => Holds(v))
             /\ \A n \in Nodes : Unseated(w, n) => v.node[n].group = w.node[n].group
  <2>1. 1..k \in SUBSET Seats
    BY DEF Given, GroupBounds, Seats
  <2>2. Assigned(v, w, Seated(w, g, 1..k), g)
    BY <1>0, <1>2, AssignFields, Zenon
  <2>3. \A n \in Nodes \cap Seated(w, g, 1..k) : w.node[n].group = g /\ ~Unseated(w, n)
    BY <2>1, SeatedSit DEF Sound, Fits, Unseated
  <2>4. Sound(v, c) /\ (Holds(w) => Holds(v))
    BY <2>2, <2>3, SoundAssign
  <2>5. Current(v)
    BY <2>2 DEF Current, Assigned
  <2>6. \A n \in Nodes : Unseated(w, n) => v.node[n].group = w.node[n].group
    BY <2>2, <2>3 DEF Assigned
  <2> QED
    BY <2>4, <2>5, <2>6
<1> QED
  BY <1>0, <1>1, <1>2, SendAuxCases

\* The list without seat i, as the members move up.
LEMMA ShiftedMoves ==
    ASSUME Given, NEW member \in [Seats -> Avatars \cup {None}], NEW i \in Seats
    PROVE  \A x \in Seats : Shifted(member, i)[x] =
              IF x < i THEN member[x] ELSE IF x < Size THEN member[x + 1] ELSE None
BY DEF Shifted

\* The others keep a seat each.
LEMMA ShiftedSeats ==
    ASSUME Given, NEW w, NEW c, Sound(w, c), NEW g \in Ids, NEW i \in Seats,
           w.groups[g].member[i] # None, NEW s, s = Shifted(w.groups[g].member, i)
    PROVE  /\ \A x \in Seats : s[x] # None =>
                 \E y \in Seats \ {i} : s[x] = w.groups[g].member[y]
           /\ \A x, y \in Seats : s[x] # None /\ s[x] = s[y] => x = y
           /\ \A y \in Seats \ {i} : \E x \in Seats : s[x] = w.groups[g].member[y]
<1> DEFINE m == w.groups[g].member
<1>1. m \in [Seats -> Avatars \cup {None}] /\ Size \in Nat
  BY DEF Sound, Fits, Worlds, GroupRecords, Given, GroupBounds
<1>3. \A x, y \in Seats : m[x] # None /\ m[x] = m[y] => x = y
  BY DEF Sound, Fits
<1>4. m[i] # None /\ s = Shifted(m, i)
  OBVIOUS
<1> HIDE DEF m
<1>5. \A x \in Seats : s[x] = IF x < i THEN m[x] ELSE IF x < Size THEN m[x + 1] ELSE None
  BY <1>1, <1>4, ShiftedMoves
<1>6. \A x \in Seats : s[x] # None => \E y \in Seats \ {i} : s[x] = m[y]
  BY <1>1, <1>4, ShiftedFields
<1>7. ASSUME NEW x \in Seats, NEW y \in Seats, s[x] # None, s[x] = s[y] PROVE x = y
  <2>1. PICK p \in Seats : s[x] = m[p] /\ p = (IF x < i THEN x ELSE x + 1)
    BY <1>1, <1>4, <1>7, ShiftedFields
  <2>2. PICK q \in Seats : s[y] = m[q] /\ q = (IF y < i THEN y ELSE y + 1)
    BY <1>1, <1>4, <1>7, ShiftedFields
  <2>3. p = q
    BY <1>3, <1>7, <2>1, <2>2
  <2> QED
    BY <2>1, <2>2, <2>3 DEF Seats
<1>8. ASSUME NEW y \in Seats \ {i} PROVE \E x \in Seats : s[x] = m[y]
  <2>1. CASE y < i
    BY <1>5, <2>1
  <2>2. CASE ~(y < i)
    <3>1. y - 1 \in Seats /\ ~(y - 1 < i) /\ y - 1 < Size /\ (y - 1) + 1 = y
      BY <1>1, <2>2 DEF Seats
    <3>2. s[y - 1] = m[y]
      BY <1>5, <3>1
    <3> QED
      BY <3>1, <3>2
  <2> QED
    BY <2>1, <2>2
<1> QED
  BY <1>6, <1>7, <1>8 DEF m

\* A player leaves a group or is kicked out of it.
LEMMA SoundRemovePlayer ==
    ASSUME Given, WorldTyped, DirInv, NEW w, NEW c, Sound(w, c), Current(w),
           NEW g \in Ids, NEW i \in Seats, w.groups[g].member[i] # None,
           NEW v, v = RemovePlayerFromGroup(w, g, i)
    PROVE  /\ Sound(v, c) /\ Current(v) /\ (Holds(w) => Holds(v))
           /\ \A n \in Nodes : w.node[n].avatar = w.groups[g].member[i] =>
                 v.node[n].group = NoGroup
<1> DEFINE m == w.groups[g].member
           a == m[i]
           p == GetPlayer(a)
<1>0. w \in Worlds /\ m \in [Seats -> Avatars \cup {None}] /\ a \in Avatars
  BY DEF Current, Worlds, GroupRecords
<1>1. PICK out \in Worlds :
        /\ Assigned(out, w, {p}, NoGroup)
        /\ \/ GetMemberCount(w, g) = 2 /\ v = DisbanGroup(out, g)
           \/ /\ GetMemberCount(w, g) # 2
              /\ \E moved \in Worlds :
                   /\ Reseated(moved, out, g, Shifted(m, i))
                   /\ v = SendAuxToGroup(moved, g)
  BY <1>0, RemoveCases
<1>2. \A n \in Nodes : w.node[n].avatar = a <=> n = p
  <2>1. PICK q \in Nodes : w.node[q].avatar = a
    BY DEF Sound, Fits
  <2>2. q # NoNode
    BY DEF Nodes, NoNode
  <2>3. \A n \in Nodes : w.node[n].avatar = a => n = p
    BY <1>0, Finds DEF Current
  <2>4. p \in Nodes /\ w.node[p].avatar = a
    BY <2>1, <2>3
  <2> QED
    BY <2>3, <2>4
<1>3. /\ out.groups = w.groups
      /\ \A n \in Nodes :
            /\ out.node[n].avatar = w.node[n].avatar
            /\ out.node[n].group = IF n = p THEN NoGroup ELSE w.node[n].group
  BY <1>1 DEF Assigned
<1>4. Current(out)
  BY <1>1, <1>3 DEF Current
<1>5. \A n \in Nodes : n = p => w.node[n].group = g
  BY <1>2 DEF Sound, Fits
<1> HIDE DEF p
<1>6. CASE v = DisbanGroup(out, g)
  <2>1. Disbanded(v, out, g)
    BY <1>1, <1>6, DisbanFields
  <2>2. \A n \in Nodes \cap Seated(out, g, Seats) : w.node[n].group = g
    <3> TAKE n \in Nodes \cap Seated(out, g, Seats)
    <3>1. PICK x \in Seats : w.groups[g].member[x] # None /\ out.node[n].avatar = w.groups[g].member[x]
      BY <1>3, <1>4, SeatedSit
    <3> QED
      BY <1>3, <3>1 DEF Sound, Fits
  <2>3. /\ v \in Worlds /\ v.groups[g] = NotMade
        /\ \A h \in Ids \ {g} : v.groups[h] = w.groups[h]
        /\ \A n \in Nodes : v.node[n].avatar = w.node[n].avatar
    BY <1>3, <2>1 DEF Disbanded
  <2>4. \A n \in Nodes :
           /\ w.node[n].group = g \/ v.node[n].group = w.node[n].group
           /\ v.node[n].group \in {w.node[n].group, NoGroup}
    BY <1>3, <1>5, <2>1, <2>2 DEF Disbanded
  <2>5. Sound(v, c) /\ (Holds(w) => Holds(v))
    BY <2>3, <2>4, SoundWithout
  <2>6. \A n \in Nodes : n = p => v.node[n].group = NoGroup
    BY <1>3, <2>1 DEF Disbanded
  <2> QED
    BY <1>2, <2>3, <2>5, <2>6 DEF Current
<1>7. ASSUME NEW moved \in Worlds, Reseated(moved, out, g, Shifted(m, i)),
             v = SendAuxToGroup(moved, g), GetMemberCount(w, g) # 2
      PROVE  /\ Sound(v, c) /\ Current(v) /\ (Holds(w) => Holds(v))
             /\ \A n \in Nodes : n = p => v.node[n].group = NoGroup
  <2>1. /\ moved.node = out.node /\ moved.groups[g].live = w.groups[g].live
        /\ moved.groups[g].member = Shifted(m, i)
        /\ \A h \in Ids \ {g} : moved.groups[h] = w.groups[h]
    BY <1>3, <1>7 DEF Reseated
  <2> DEFINE s == moved.groups[g].member
  <2>2. /\ \A x \in Seats : s[x] # None => \E y \in Seats \ {i} : s[x] = m[y]
        /\ \A x, y \in Seats : s[x] # None /\ s[x] = s[y] => x = y
        /\ \A y \in Seats \ {i} : \E x \in Seats : s[x] = m[y]
    BY <1>7, <2>1, ShiftedSeats
  <2>5. \A n \in Nodes :
          /\ moved.node[n].avatar = w.node[n].avatar
          /\ \/ w.node[n].avatar = m[i]
             \/ moved.node[n].group = w.node[n].group
    BY <1>2, <1>3, <2>1
  <2>6. Sound(moved, c) /\ (Holds(w) => Holds(moved))
    <3>1. Vacated(moved, w, g, i)
      BY <2>1, <2>2, <2>5 DEF Vacated
    <3>2. Others(moved, w, g, i)
      BY <1>2, <1>3, <2>1, <2>2 DEF Others
    <3> QED
      BY <3>1, <3>2, SoundReseat
  <2>7. Current(moved)
    BY <2>5 DEF Current
  <2>8. \A n \in Nodes : n = p => moved.node[n].group = NoGroup /\ Unseated(moved, n)
    BY <1>3, <2>1, <2>6, OutsideUnseated
  <2> QED
    BY <1>7, <2>6, <2>7, <2>8, SoundSendAux
<1> QED
  BY <1>1, <1>2, <1>6, <1>7

-----------------------------------------------------------------------------
(***************************************************************************)
(* The handlers and the seats.                                             *)
(***************************************************************************)

\* Nobody is dropped without a logoff.
Settled == MaxDrops = 0

\* Nobody is invited to a group still to be made.
Dated == \A x \in invited : x[2] <= created

\* What holds while every group has always had a leader; and while, besides, no seat
\* has been empty before a taken one.
HouseInv == GuestWorld /\ Dated /\ Sound(World, created) /\ \A g \in Ids : Headed(g)
Tidy == Holds(World) /\ \A g \in Ids : Packed(g)

\* What a step of a handler does to them.
Keeps == Sound(World, created)' /\ (Tidy => Holds(World)')

LEMMA HouseWorld ==
    ASSUME HouseInv
    PROVE  /\ WorldTyped /\ DirInv /\ World \in Worlds /\ Sound(World, created) /\ Current(World)
           /\ World.node = node /\ World.groups = groups
BY WorldType DEF HouseInv, GuestWorld, Current, World

LEMMA InviteDates ==
    ASSUME HouseInv, NEW n \in Nodes, node[n].avatar # None, node[n].group \in Ids
    PROVE  node[n].group <= created
<1>1. <<node[n].avatar, node[n].group>> \in invited
  BY HouseWorld DEF HouseInv, GuestWorld, Welcome, Ids, NoGroup
<1> QED
  BY <1>1 DEF HouseInv, Dated

LEMMA DatedStep ==
    ASSUME Given, HouseInv, NEW n \in Nodes, Client(n)
    PROVE  Dated'
<1>1. WorldTyped /\ created \in Nat /\ \A x \in invited : x[2] \in Nat
  BY HouseWorld DEF WorldTyped, Ids
<1>2. ASSUME NEW t \in Avatars, InviteToNew(n, t) PROVE Dated'
  <2>1. created' = created + 1 /\ \A x \in invited' : x \in invited \/ x[2] = created'
    BY <1>2 DEF InviteToNew
  <2> QED
    BY <1>1, <2>1 DEF HouseInv, Dated
<1>3. ASSUME NEW t \in Avatars, InviteToGroup(n, t) PROVE Dated'
  <2>1. MyGroup(n) \in Ids /\ node[n].avatar # None
    BY <1>1, <1>3, FoundIs DEF InviteToGroup, MayInvite, Playing, Found
  <2>2. MyGroup(n) <= created
    BY <2>1, InviteDates DEF MyGroup
  <2>3. created' = created /\ \A x \in invited' : x \in invited \/ x[2] = MyGroup(n)
    BY <1>3 DEF InviteToGroup
  <2> QED
    BY <2>2, <2>3 DEF HouseInv, Dated
<1>4. CASE UNCHANGED <<created, invited>>
  BY <1>4 DEF HouseInv, Dated
<1> QED
  BY <1>2, <1>3, <1>4 DEF Client, InviteBusy, AcceptGroupInvite, RejectGroupInvite, Leave,
     HandleLogoffRequest, Disban, KickFromGroup, RequestGroupAux

LEMMA SoundBecomes ==
    ASSUME NEW w, Becomes(w), Sound(w, created'), Tidy => Holds(w)
    PROVE  Keeps
<1>1. w \in Worlds
  BY DEF Sound, Fits
<1>2. World' = w
  BY <1>1 DEF Becomes, World, Worlds
<1>3. Sound(World', created') /\ (Tidy => Holds(World'))
  BY <1>2
<1> QED
  BY <1>3 DEF Keeps, Sound, Fits, Gone, Holds

\* Who holds a seat holds it in the own group.
LEMMA AloneUnseated ==
    ASSUME Given, HouseInv, NEW n \in Nodes,
           ~Found(MyGroup(n)) \/ SeatsOf(node[n].avatar, MyGroup(n), 1) = {}
    PROVE  Unseated(World, n)
<1>1. Sound(World, created) /\ World.node = node /\ World.groups = groups
  BY HouseWorld
<1> SUFFICES ASSUME NEW h \in Ids, NEW x \in Seats, groups[h].member[x] # None,
                    groups[h].member[x] = node[n].avatar
             PROVE  FALSE
  BY <1>1 DEF Unseated
<1>2. node[n].group = h /\ groups[h].live
  BY <1>1, SeatedIsLive DEF Sound, Fits
<1>3. Found(MyGroup(n)) /\ x \in SeatsOf(node[n].avatar, MyGroup(n), 1)
  BY <1>2 DEF Found, MyGroup, SeatsOf, Ids, NoGroup, Seats
<1> QED
  BY <1>3

\* A question may be closed.
LEMMA SoundAnswered ==
    ASSUME Given, NEW w \in Worlds, NEW c, Sound(w, c), NEW n \in Nodes
    PROVE  Sound(Answered(w, n), c) /\ (Holds(w) => Holds(Answered(w, n)))
<1>1. Marked(Answered(w, n), w, n, FALSE)
  BY MarkFields
<1> QED
  BY <1>1, SoundMark, Zenon

LEMMA InviteBusySound ==
    ASSUME Given, HouseInv, NEW n \in Nodes, NEW t \in Avatars, InviteBusy(n, t)
    PROVE  Keeps
<1> DEFINE p == GetPlayer(t)
<1>1. WorldTyped /\ DirInv /\ World.node = node /\ World.groups = groups
  BY HouseWorld
<1>2. p \in Nodes /\ node[p].group = NoGroup
  BY <1>1, Finds DEF InviteBusy, MayInvite
<1>3. Becomes(Answered(World, p)) /\ created' = created
  BY DEF InviteBusy, Becomes, Answered, World
<1>4. Sound(Answered(World, p), created) /\ (Holds(World) => Holds(Answered(World, p)))
  BY <1>2, HouseWorld, SoundAnswered
<1> QED
  BY <1>3, <1>4, SoundBecomes DEF Tidy

LEMMA DisbanSound ==
    ASSUME Given, HouseInv, NEW n \in Nodes, Disban(n)
    PROVE  Keeps
<1>1. MyGroup(n) \in Ids
  BY HouseWorld, FoundIs DEF Disban
<1>2. /\ Sound(DisbanGroup(World, MyGroup(n)), created)
      /\ Holds(World) => Holds(DisbanGroup(World, MyGroup(n)))
  BY <1>1, HouseWorld, SoundDisban
<1> QED
  BY <1>2, SoundBecomes DEF Disban, Tidy

LEMMA KickSound ==
    ASSUME Given, HouseInv, NEW n \in Nodes, NEW t \in Avatars, KickFromGroup(n, t)
    PROVE  Keeps
<1> DEFINE g == MyGroup(n)
           i == First(SeatsOf(t, g, 2))
           w == RemovePlayerFromGroup(World, g, i)
<1>1. WorldTyped /\ DirInv /\ Sound(World, created) /\ Current(World) /\ World.groups = groups
  BY HouseWorld
<1>2. g \in Ids /\ i \in Seats /\ i >= 2 /\ groups[g].member[i] = t
  BY <1>1, FoundIs, SeatChoice, SeatsOfAre DEF KickFromGroup
<1>3. Becomes(w) /\ created' = created
  BY DEF KickFromGroup
<1>4. t # None
  BY DEF Given, NoneIsNoAvatar
<1> HIDE DEF g, i
<1>5. Sound(w, created) /\ (Holds(World) => Holds(w))
  BY <1>1, <1>2, <1>4, SoundRemovePlayer
<1> QED
  BY <1>3, <1>5, SoundBecomes DEF Tidy

LEMMA LeaveGroupSound ==
    ASSUME Given, HouseInv, NEW n \in Nodes, Playing(n),
           NEW v, v = LeaveGroup(World, n)
    PROVE  /\ Sound(v, created) /\ Current(v) /\ v.node[n].group = NoGroup
           /\ Holds(World) => Holds(v)
<1> DEFINE g == MyGroup(n)
           me == node[n].avatar
           mine == SeatsOf(me, g, 1)
           i == First(mine)
<1>1. /\ WorldTyped /\ DirInv /\ World \in Worlds /\ Sound(World, created) /\ Current(World)
      /\ World.node = node /\ World.groups = groups
  BY HouseWorld
<1>2. CASE Found(g) /\ mine # {}
  <2>1. g \in Ids /\ i \in Seats /\ groups[g].member[i] = me /\ me # None
    BY <1>1, <1>2, FoundIs, SeatChoice, SeatsOfAre DEF Playing
  <2>2. v = RemovePlayerFromGroup(World, g, i)
    BY <1>2 DEF LeaveGroup
  <2> HIDE DEF g, i
  <2> QED
    BY <1>1, <2>1, <2>2, SoundRemovePlayer
<1>3. CASE ~(Found(g) /\ mine # {})
  <2>1. v = Assign(World, {GetPlayer(me)}, NoGroup, FALSE)
    BY <1>3 DEF LeaveGroup, SendEmptyGroupAux
  <2>2. Assigned(v, World, {GetPlayer(me)}, NoGroup)
    BY <1>1, <2>1, AssignFields, Zenon
  <2>3. GetPlayer(me) = n
    BY <1>1, Finds DEF Playing
  <2>4. Unseated(World, n)
    BY <1>3, AloneUnseated
  <2>5. Sound(v, created) /\ (Holds(World) => Holds(v))
    BY <1>1, <2>2, <2>3, <2>4, SoundAssign
  <2> QED
    BY <1>1, <2>2, <2>3, <2>5 DEF Current, Assigned
<1> QED
  BY <1>2, <1>3

LEMMA LeaveSound ==
    ASSUME Given, HouseInv, NEW n \in Nodes, Leave(n)
    PROVE  Keeps
<1>1. Sound(LeaveGroup(World, n), created) /\ (Holds(World) => Holds(LeaveGroup(World, n)))
  BY LeaveGroupSound DEF Leave
<1> QED
  BY <1>1, SoundBecomes DEF Leave, Tidy

\* The node of a player without a seat is available again.
LEMMA LogoffSound ==
    ASSUME Given, HouseInv, NEW n \in Nodes, HandleLogoffRequest(n)
    PROVE  Keeps
<1> DEFINE w == LeaveGroup(World, n)
           v == [node |-> Release(w.node, {n}), groups |-> w.groups]
<1>1. /\ Sound(w, created) /\ Current(w) /\ w.node[n].group = NoGroup /\ w \in Worlds
      /\ Holds(World) => Holds(w)
  BY LeaveGroupSound DEF HandleLogoffRequest, Current
<1>2. node' = v.node /\ groups' = v.groups /\ created' = created
  BY DEF HandleLogoffRequest
<1> HIDE DEF w
<1>3. \A m \in Nodes : v.node[m] = IF m = n THEN Available ELSE w.node[m]
  BY DEF Release
<1>4. Available \in NodeRecords /\ Available.avatar = None
  BY DEF Available, NodeRecords
<1>5. v.node \in [Nodes -> NodeRecords] /\ v.groups = w.groups
  BY <1>1, <1>4 DEF Release, Worlds
<1>6. v \in Worlds
  BY <1>1, <1>5 DEF Worlds
<1> HIDE DEF v
<1>7. Unseated(w, n)
  BY <1>1, OutsideUnseated
<1>8. Fits(v)
  <2>1. \A g \in Ids, i \in Seats : v.groups[g].member[i] # None =>
            \E m \in Nodes : v.node[m].avatar = v.groups[g].member[i]
    <3> TAKE g \in Ids, i \in Seats
    <3> HAVE v.groups[g].member[i] # None
    <3>1. PICK m \in Nodes : w.node[m].avatar = w.groups[g].member[i]
      BY <1>1, <1>5 DEF Sound, Fits
    <3>2. m # n
      BY <1>5, <1>7, <3>1 DEF Unseated
    <3> QED
      BY <1>3, <1>5, <3>1, <3>2
  <2>2. \A g \in Ids, i \in Seats, m \in Nodes :
            v.groups[g].member[i] # None /\ v.node[m].avatar = v.groups[g].member[i] =>
                v.node[m].group = g
    BY <1>1, <1>3, <1>4, <1>5 DEF Sound, Fits
  <2>3. \A g \in Ids : \A i, j \in Seats :
            v.groups[g].member[i] # None /\ v.groups[g].member[i] = v.groups[g].member[j] => i = j
    BY <1>1, <1>5 DEF Sound, Fits
  <2> QED
    BY <1>6, <2>1, <2>2, <2>3 DEF Fits
<1>9. Holds(w) => Holds(v)
  BY <1>3, <1>4, <1>5 DEF Holds
<1>10. Gone(v, created)
  BY <1>1, <1>5 DEF Sound, Gone
<1> QED
  BY <1>1, <1>2, <1>8, <1>9, <1>10, SoundBecomes DEF Becomes, Sound, Tidy

LEMMA AcceptSound ==
    ASSUME Given, HouseInv, NEW n \in Nodes, AcceptGroupInvite(n)
    PROVE  Keeps
<1> DEFINE g == MyGroup(n)
           mine == SeatsOf(node[n].avatar, g, 2)
           in == [World EXCEPT !.groups[g].ok[Last(mine)] = TRUE, !.groups[g].ok[1] = TRUE]
           u == Assign(in, {n}, g, TRUE)
           s == SendAuxToGroup(u, g)
<1>1. /\ WorldTyped /\ DirInv /\ World \in Worlds /\ Sound(World, created) /\ Current(World)
      /\ World.node = node /\ World.groups = groups
  BY HouseWorld
<1>2. created' = created
  BY DEF AcceptGroupInvite
<1>3. CASE Found(g) /\ mine # {}
  <2>1. g \in Ids /\ Last(mine) \in Seats /\ groups[g].live /\ node[n].group = g
    BY <1>1, <1>3, FoundIs, SeatChoice, SeatsOfAre DEF Found, MyGroup
  <2>2. Becomes(Answered(s, n))
    BY <1>3 DEF AcceptGroupInvite
  <2>3. PICK ok : Answers(in, World, g, ok)
    BY <1>1, <2>1, AcceptFields
  <2> HIDE DEF in
  <2>4. Sound(in, created) /\ (Holds(World) => Holds(in))
    BY <1>1, <2>1, <2>3, SoundAnswers
  <2>5. Assigned(u, in, {n}, g)
    <3>1. in \in Worlds /\ g \in Ids \cup {NoGroup}
      BY <2>1, <2>3 DEF Answers
    <3> QED
      BY <3>1, AssignFields, Zenon
  <2> HIDE DEF u
  <2>6. in.node = node
    BY <1>1, <2>3 DEF Answers
  <2> HIDE DEF g
  <2>7. Sound(u, created) /\ (Holds(in) => Holds(u))
    BY <2>1, <2>4, <2>5, <2>6, SoundAssign
  <2>8. Current(u)
    BY <2>5, <2>6 DEF Current, Assigned
  <2>9. Sound(s, created) /\ (Holds(u) => Holds(s))
    BY <1>1, <2>1, <2>7, <2>8, SoundSendAux
  <2> HIDE DEF s
  <2>10. Sound(Answered(s, n), created) /\ (Holds(s) => Holds(Answered(s, n)))
    BY <2>9, SoundAnswered DEF Sound, Fits
  <2> QED
    BY <1>2, <2>2, <2>4, <2>7, <2>9, <2>10, SoundBecomes DEF Tidy
<1>4. CASE ~(Found(g) /\ mine # {})
  <2>1. Becomes(Answered(World, n))
    BY <1>4 DEF AcceptGroupInvite
  <2> QED
    BY <1>1, <1>2, <2>1, SoundAnswered, SoundBecomes DEF Tidy
<1> QED
  BY <1>3, <1>4

\* The leader of a live group is found.
LEMMA LeaderFound ==
    ASSUME Given, HouseInv, NEW g \in Ids, groups[g].live
    PROVE  /\ GetPlayer(groups[g].member[1]) \in Nodes
           /\ node[GetPlayer(groups[g].member[1])].group = g
<1>1. /\ WorldTyped /\ DirInv /\ Sound(World, created) /\ World.node = node /\ World.groups = groups
  BY HouseWorld
<1>2. 1 \in Seats /\ groups[g].member[1] # None
  BY DEF HouseInv, Headed, Seats, Given, GroupBounds
<1>3. PICK m \in Nodes : node[m].avatar = groups[g].member[1]
  BY <1>1, <1>2 DEF Sound, Fits
<1>4. GetPlayer(groups[g].member[1]) = m /\ node[m].group = g
  BY <1>1, <1>2, <1>3, Finds DEF Sound, Fits
<1> QED
  BY <1>4

LEMMA RejectSound ==
    ASSUME Given, HouseInv, NEW n \in Nodes, RejectGroupInvite(n)
    PROVE  Keeps
<1> DEFINE g == MyGroup(n)
           mine == SeatsOf(node[n].avatar, g, 2)
           k == Last(mine)
           leader == GetPlayer(groups[g].member[1])
           an == Answered(World, n)
           out == Assign(an, {n}, NoGroup, FALSE)
           left == [out EXCEPT !.groups[g].member[k] = None]
           sad == Assign(left, {leader}, NoGroup, FALSE)
           gone == RemoveGroup(sad, g)
<1>1. /\ WorldTyped /\ DirInv /\ World \in Worlds /\ Sound(World, created) /\ Current(World)
      /\ World.node = node /\ World.groups = groups
  BY HouseWorld
<1>2. created' = created
  BY DEF RejectGroupInvite
<1>3. Becomes(IF ~Found(g) \/ mine = {} THEN an
              ELSE IF leader = NoNode THEN out
              ELSE IF groups[g].ok[1] THEN left ELSE gone)
  BY DEF RejectGroupInvite
<1>4. CASE ~Found(g) \/ mine = {}
  BY <1>1, <1>2, <1>3, <1>4, SoundAnswered, SoundBecomes DEF Tidy
<1>5. CASE Found(g) /\ mine # {}
  <2>1. /\ g \in Ids /\ k \in Seats /\ k >= 2 /\ groups[g].member[k] = node[n].avatar
        /\ groups[g].live /\ node[n].group = g /\ node[n].avatar # None
    <3>1. Playing(n) /\ Found(g) /\ mine # {}
      BY <1>5 DEF RejectGroupInvite
    <3>2. g \in Ids
      BY <1>1, <3>1, FoundIs
    <3>3. k \in mine
      BY <1>1, <3>1, SeatChoice
    <3>4. k \in Seats /\ k >= 2 /\ groups[g].member[k] = node[n].avatar
      BY <1>1, <3>3, SeatsOfAre
    <3> QED
      BY <3>1, <3>2, <3>4 DEF Playing, Found, MyGroup
  <2>2. leader \in Nodes /\ leader # NoNode /\ node[leader].group = g
    BY <2>1, LeaderFound DEF Nodes, NoNode
  <2>3. Becomes(IF groups[g].ok[1] THEN left ELSE gone)
    BY <1>3, <1>5, <2>2
  <2>4. Marked(an, World, n, FALSE)
    BY <1>1, MarkFields
  <2> HIDE DEF an, leader
  <2>5. Assigned(out, an, {n}, NoGroup)
    <3>1. an \in Worlds
      BY <2>4 DEF Marked
    <3> QED
      BY <3>1, AssignFields, Zenon
  <2> HIDE DEF out
  <2>6. /\ out \in Worlds /\ out.groups = groups /\ out.node[n].group = NoGroup
        /\ \A m \in Nodes : /\ out.node[m].avatar = node[m].avatar
                            /\ m # n => out.node[m].group = node[m].group
    BY <1>1, <2>4, <2>5 DEF Marked, Assigned
  <2> DEFINE s == [out.groups[g].member EXCEPT ![k] = None]
  <2> HIDE DEF k, g
  <2>7. Reseated(left, out, g, s)
    BY <2>1, <2>6, EmptySeatFields
  <2>8. \A x \in Seats : s[x] = IF x = k THEN None ELSE groups[g].member[x]
    BY <1>1, <2>1, <2>6 DEF Worlds, GroupRecords
  <2> HIDE DEF left, s
  <2>9. left \in Worlds
    BY <2>7 DEF Reseated
  <2>10. CASE groups[g].ok[1]
    <3>1. /\ left.node = out.node /\ left.groups[g].live = groups[g].live
          /\ left.groups[g].member = s
          /\ \A h \in Ids \ {g} : left.groups[h] = groups[h]
      BY <2>6, <2>7 DEF Reseated
    <3>4. \A x \in Seats : s[x] # None => \E y \in Seats \ {k} : s[x] = groups[g].member[y]
      BY <2>8
    <3>5. \A x, y \in Seats : s[x] # None /\ s[x] = s[y] => x = y
      BY <1>1, <2>1, <2>8 DEF Sound, Fits
    <3>6. \A m \in Nodes :
            /\ left.node[m].avatar = node[m].avatar
            /\ \/ node[m].avatar = groups[g].member[k]
               \/ left.node[m].group = node[m].group
      BY <2>1, <2>6, <3>1
    <3>7. Vacated(left, World, g, k)
      BY <1>1, <2>1, <2>9, <3>1, <3>4, <3>5, <3>6 DEF Vacated
    <3>8. Others(left, World, g, k)
      <4>1. \A m \in Nodes : node[m].avatar = groups[g].member[k] => m = n
        BY <1>1, <2>1, Finds
      <4> QED
        BY <1>1, <2>6, <2>8, <3>1, <4>1 DEF Others
    <3>9. Sound(left, created) /\ (Holds(World) => Holds(left))
      BY <1>1, <2>1, <3>7, <3>8, SoundReseat
    <3> QED
      BY <1>2, <2>3, <2>10, <3>9, SoundBecomes DEF Tidy
  <2>11. CASE ~groups[g].ok[1]
    <3>1. Assigned(sad, left, {leader}, NoGroup)
      <4>1. NoGroup \in Ids \cup {NoGroup}
        OBVIOUS
      <4> QED
        BY <4>1, <2>9, AssignFields, Zenon
    <3> HIDE DEF sad
    <3>2. sad \in Worlds
      BY <3>1 DEF Assigned
    <3>3. /\ gone \in Worlds /\ gone.node = sad.node
          /\ gone.groups[g] = NotMade /\ \A h \in Ids \ {g} : gone.groups[h] = sad.groups[h]
      BY <2>1, <3>2, RemoveFields
    <3> HIDE DEF gone
    <3>4. \A h \in Ids \ {g} : gone.groups[h] = groups[h]
      BY <2>6, <2>7, <3>1, <3>3 DEF Reseated, Assigned
    <3>5. \A m \in Nodes :
            /\ gone.node[m].avatar = node[m].avatar
            /\ node[m].group = g \/ gone.node[m].group = node[m].group
            /\ gone.node[m].group \in {node[m].group, NoGroup}
      <4> TAKE m \in Nodes
      <4>1. /\ gone.node[m].avatar = out.node[m].avatar
            /\ gone.node[m].group = IF m = leader THEN NoGroup ELSE out.node[m].group
        BY <2>7, <3>1, <3>3 DEF Reseated, Assigned
      <4> QED
        BY <2>1, <2>2, <2>6, <4>1
    <3>6. Sound(gone, created) /\ (Holds(World) => Holds(gone))
      BY <1>1, <2>1, <3>3, <3>4, <3>5, SoundWithout
    <3> QED
      BY <1>2, <2>3, <2>11, <3>6, SoundBecomes DEF Tidy
  <2> QED
    BY <2>10, <2>11
<1> QED
  BY <1>4, <1>5

\* Node p is the player t, who is in group g and has no seat.
Newcomer(w, p, t, g) ==
    /\ Fits(w) /\ p \in Nodes /\ t # None /\ \A m \in Nodes : w.node[m].avatar = t <=> m = p
    /\ Unseated(w, p) /\ w.node[p].group = g

Admitted(v, w, g, i, p, t) ==
    /\ Fits(v)
    /\ \A x \in Seats : v.groups[g].member[x] = IF x = i THEN t ELSE w.groups[g].member[x]
    /\ \A q \in Nodes \ {p} : Unseated(w, q) => Unseated(v, q)

\* A newcomer takes a seat.
LEMMA FitsTaken ==
    ASSUME NEW w, NEW g \in Ids, NEW i \in Seats, NEW p, NEW t, Newcomer(w, p, t, g),
           NEW v, Taken(v, w, g, i, t)
    PROVE  Admitted(v, w, g, i, p, t)
<1> USE DEF Newcomer, Admitted
<1>0. v \in Worlds /\ v.node = w.node /\ \A h \in Ids \ {g} : v.groups[h] = w.groups[h]
  BY DEF Taken
<1>1. \A x \in Seats : v.groups[g].member[x] = IF x = i THEN t ELSE w.groups[g].member[x]
  BY DEF Fits, Worlds, GroupRecords, Taken
<1>2. \A h \in Ids, x \in Seats :
         \/ h = g /\ x = i /\ v.groups[h].member[x] = t
         \/ v.groups[h].member[x] = w.groups[h].member[x]
  BY <1>0, <1>1
<1>3. \A h \in Ids, x \in Seats : w.groups[h].member[x] # t
  BY DEF Unseated
<1>4. \A h \in Ids, x \in Seats : v.groups[h].member[x] # None =>
          \E m \in Nodes : v.node[m].avatar = v.groups[h].member[x]
  BY <1>0, <1>2 DEF Fits
<1>5. \A h \in Ids, x \in Seats, m \in Nodes :
          v.groups[h].member[x] # None /\ v.node[m].avatar = v.groups[h].member[x] =>
              v.node[m].group = h
  BY <1>0, <1>2 DEF Fits
<1>6. \A h \in Ids : \A x, y \in Seats :
          v.groups[h].member[x] # None /\ v.groups[h].member[x] = v.groups[h].member[y] => x = y
  <2> TAKE h \in Ids
  <2> TAKE x, y \in Seats
  <2> HAVE v.groups[h].member[x] # None /\ v.groups[h].member[x] = v.groups[h].member[y]
  <2>1. CASE h = g /\ (x = i \/ y = i)
    BY <2>1, <1>1, <1>3
  <2>2. CASE ~(h = g /\ (x = i \/ y = i))
    BY <2>2, <1>2 DEF Fits
  <2> QED
    BY <2>1, <2>2
<1>7. Fits(v)
  BY <1>0, <1>4, <1>5, <1>6 DEF Fits
<1>8. \A q \in Nodes \ {p} : Unseated(w, q) => Unseated(v, q)
  BY <1>0, <1>2 DEF Unseated
<1> QED
  BY <1>1, <1>7, <1>8

\* An open question does not move anybody.
LEMMA FitsMark ==
    ASSUME NEW w, Fits(w), NEW n, NEW b, NEW v, Marked(v, w, n, b)
    PROVE  Fits(v)
BY DEF Fits, Marked

\* A node of a playing avatar is the only one.
LEMMA OnlyNode ==
    ASSUME Given, WorldTyped, DirInv, NEW n \in Nodes, node[n].avatar # None
    PROVE  \A m \in Nodes : node[m].avatar = node[n].avatar <=> m = n
BY Finds

LEMMA RequestSound ==
    ASSUME Given, HouseInv, NEW n \in Nodes, RequestGroupAux(n)
    PROVE  Keeps
<1> DEFINE g == MyGroup(n)
           me == node[n].avatar
           mine == SeatsOf(me, g, 1)
           i == First(mine)
           p == GetPlayer(me)
           lost == [World EXCEPT !.groups[g].member[i] = None]
           out == Assign(World, {p}, NoGroup, FALSE)
           told == Assign(World, {p}, g, TRUE)
           gone == Assign(lost, {p}, NoGroup, FALSE)
<1>1. /\ WorldTyped /\ DirInv /\ World \in Worlds /\ Sound(World, created)
      /\ World.node = node /\ World.groups = groups
  BY HouseWorld
<1>2. created' = created /\ me # None
  BY DEF RequestGroupAux, Playing
<1>3. Becomes(IF ~Found(g) \/ mine = {} THEN out ELSE IF groups[g].ok[i] THEN told ELSE gone)
  BY DEF RequestGroupAux, SendEmptyGroupAux
<1>4. p = n
  BY <1>1, <1>2, Finds
<1>5. CASE ~Found(g) \/ mine = {}
  <2>1. Assigned(out, World, {p}, NoGroup)
    BY <1>1, AssignFields, Zenon
  <2>2. Unseated(World, n)
    BY <1>5, AloneUnseated
  <2> HIDE DEF out
  <2>3. Sound(out, created) /\ (Holds(World) => Holds(out))
    BY <1>1, <1>4, <2>1, <2>2, SoundAssign
  <2> QED
    BY <1>2, <1>3, <1>5, <2>3, SoundBecomes DEF Tidy
<1>6. CASE Found(g) /\ mine # {}
  <2>1. /\ g \in Ids /\ i \in Seats /\ groups[g].member[i] = me
        /\ groups[g].live /\ node[n].group = g
    BY <1>1, <1>6, FoundIs, SeatChoice, SeatsOfAre DEF Found, MyGroup
  <2>2. CASE groups[g].ok[i]
    <3>1. Assigned(told, World, {p}, g)
      <4>1. g \in Ids \cup {NoGroup}
        BY <2>1
      <4> QED
        BY <4>1, <1>1, AssignFields, Zenon
    <3> HIDE DEF told
    <3>2. Sound(told, created) /\ (Holds(World) => Holds(told))
      BY <1>1, <1>4, <2>1, <3>1, SoundAssign
    <3> QED
      BY <1>2, <1>3, <1>6, <2>2, <3>2, SoundBecomes DEF Tidy
  <2>3. CASE ~groups[g].ok[i]
    <3> DEFINE s == [World.groups[g].member EXCEPT ![i] = None]
    <3> HIDE DEF g, i
    <3>2. Reseated(lost, World, g, s)
      BY <1>1, <2>1, EmptySeatFields
    <3>3. \A x \in Seats : s[x] = IF x = i THEN None ELSE groups[g].member[x]
      BY <1>1, <2>1 DEF Worlds, GroupRecords
    <3> HIDE DEF s, lost
    <3>4. Assigned(gone, lost, {p}, NoGroup)
      <4>1. lost \in Worlds
        BY <3>2 DEF Reseated
      <4> QED
        BY <4>1, AssignFields, Zenon
    <3> HIDE DEF gone
    <3>5. /\ gone \in Worlds /\ gone.groups[g].live = groups[g].live
          /\ gone.groups[g].member = s
          /\ \A h \in Ids \ {g} : gone.groups[h] = groups[h]
      BY <1>1, <3>2, <3>4 DEF Reseated, Assigned
    <3>6. \A m \in Nodes :
            /\ gone.node[m].avatar = node[m].avatar
            /\ node[m].avatar = groups[g].member[i] => gone.node[m].group = NoGroup
            /\ node[m].avatar # groups[g].member[i] => gone.node[m].group = node[m].group
      BY <1>1, <1>2, <1>4, <2>1, <3>2, <3>4, OnlyNode DEF Reseated, Assigned
    <3>7. /\ \A x \in Seats : s[x] # None => \E y \in Seats \ {i} : s[x] = groups[g].member[y]
          /\ \A y \in Seats \ {i} : \E x \in Seats : s[x] = groups[g].member[y]
      BY <3>3
    <3>8. \A x, y \in Seats : s[x] # None /\ s[x] = s[y] => x = y
      BY <1>1, <2>1, <3>3 DEF Sound, Fits
    <3>9. Vacated(gone, World, g, i)
      BY <1>1, <1>2, <2>1, <3>5, <3>6, <3>7, <3>8 DEF Vacated
    <3>10. Others(gone, World, g, i)
      BY <1>1, <3>5, <3>6, <3>7 DEF Others
    <3>11. Sound(gone, created) /\ (Holds(World) => Holds(gone))
      BY <1>1, <2>1, <3>9, <3>10, SoundReseat
    <3> QED
      BY <1>2, <1>3, <1>6, <2>3, <3>11, SoundBecomes DEF Tidy
  <2> QED
    BY <2>2, <2>3
<1> QED
  BY <1>5, <1>6

LEMMA InviteToNewSound ==
    ASSUME Given, HouseInv, NEW n \in Nodes, NEW t \in Avatars, InviteToNew(n, t)
    PROVE  Keeps
<1> DEFINE p == GetPlayer(t)
           me == node[n].avatar
           g == created + 1
           both == Assign(World, {n, p}, g, FALSE)
           one == Seat(both, g, 1, me)
           two == Seat(one, g, 2, t)
           w == Ask(two, p)
<1>1. /\ WorldTyped /\ DirInv /\ World \in Worlds /\ Sound(World, created)
      /\ World.node = node /\ World.groups = groups
  BY HouseWorld
<1>2. p \in Nodes /\ node[p].avatar = t /\ node[p].group = NoGroup
  BY <1>1, Finds DEF InviteToNew, MayInvite
<1>3. /\ g \in Ids /\ me \in Avatars /\ me # None /\ t # None /\ t # me /\ n # p
      /\ 1 \in Seats /\ 2 \in Seats /\ created \in Nat /\ Size \in Nat /\ Size >= 2
  BY <1>1, <1>2 DEF InviteToNew, MayInvite, Playing, WorldTyped, Ids, Given, GroupBounds, Seats,
                    NoneIsNoAvatar
<1>4. created' = g /\ Becomes(w)
  BY DEF InviteToNew
<1>5. groups[g] = NotMade
  BY <1>1, <1>3 DEF Sound, Gone
<1>6. Unseated(World, n) /\ Unseated(World, p)
  <2>1. ~Found(MyGroup(n)) /\ ~Found(MyGroup(p))
    BY <1>2 DEF InviteToNew, Found, MyGroup
  <2> QED
    BY <1>2, <2>1, AloneUnseated
<1>7. Assigned(both, World, {n, p}, g)
  BY <1>1, <1>3, AssignFields, Zenon
<1> HIDE DEF both
<1>8. Sound(both, created)
  BY <1>1, <1>6, <1>7, SoundAssign
<1>9. /\ both.groups = groups /\ both.node[n].group = g /\ both.node[p].group = g
      /\ \A m \in Nodes : both.node[m].avatar = node[m].avatar
  BY <1>1, <1>2, <1>7 DEF Assigned
<1>10. /\ \A m \in Nodes : node[m].avatar = me <=> m = n
       /\ \A m \in Nodes : node[m].avatar = t <=> m = p
  BY <1>1, <1>2, <1>3, OnlyNode
<1>11. Unseated(both, n) /\ Unseated(both, p) /\ Fits(both) /\ both \in Worlds
  BY <1>1, <1>2, <1>6, <1>8, <1>9 DEF Unseated, Sound, Fits
<1>12. Taken(one, both, g, 1, me)
  BY <1>3, <1>11, SeatFields
<1> HIDE DEF one, p, g
<1>13. /\ Fits(one) /\ Unseated(one, p) /\ one \in Worlds /\ one.node = both.node
       /\ \A x \in Seats : one.groups[g].member[x] = IF x = 1 THEN me ELSE groups[g].member[x]
  <2>1. Newcomer(both, n, me, g)
    BY <1>3, <1>9, <1>10, <1>11 DEF Newcomer
  <2>2. Admitted(one, both, g, 1, n, me)
    BY <1>3, <1>12, <2>1, FitsTaken
  <2> QED
    BY <1>2, <1>3, <1>9, <1>11, <1>12, <2>2 DEF Taken, Admitted
<1>14. Taken(two, one, g, 2, t)
  BY <1>3, <1>13, SeatFields
<1> HIDE DEF two
<1>15. /\ Fits(two) /\ two \in Worlds /\ two.node = both.node
       /\ \A x \in Seats : two.groups[g].member[x] = IF x = 2 THEN t ELSE one.groups[g].member[x]
  <2>1. Newcomer(one, p, t, g)
    BY <1>2, <1>3, <1>9, <1>10, <1>13 DEF Newcomer
  <2>2. Admitted(two, one, g, 2, p, t)
    BY <1>3, <1>14, <2>1, FitsTaken
  <2> QED
    BY <1>13, <1>14, <2>2 DEF Taken, Admitted
<1>16. Marked(w, two, p, TRUE)
  BY <1>2, <1>15, MarkFields
<1> HIDE DEF w
<1>17. Fits(w)
  BY <1>15, <1>16, FitsMark
<1>18. /\ w.groups = two.groups
       /\ \A m \in Nodes : /\ w.node[m].avatar = node[m].avatar
                           /\ w.node[m].group = IF m \in {n, p} THEN g ELSE node[m].group
  BY <1>1, <1>2, <1>7, <1>9, <1>15, <1>16 DEF Marked, Assigned
<1>19. \A h \in Ids \ {g} : w.groups[h] = groups[h]
  BY <1>9, <1>12, <1>14, <1>18 DEF Taken
<1>20. \A x \in Seats : w.groups[g].member[x] = IF x = 1 THEN me ELSE IF x = 2 THEN t ELSE None
  BY <1>5, <1>13, <1>15, <1>18, NotMadeEmpty
<1>21. w.groups[g].live
  BY <1>14, <1>18 DEF Taken
<1>22. ASSUME Holds(World) PROVE Holds(w)
  <2> SUFFICES ASSUME NEW m \in Nodes, NEW h \in Ids, w.node[m].avatar # None,
                      w.node[m].group = h, w.groups[h].live
               PROVE  \E x \in Seats : w.groups[h].member[x] = w.node[m].avatar
    BY DEF Holds
  <2>1. CASE m \in {n, p}
    BY <1>2, <1>3, <1>18, <1>20, <2>1
  <2>2. CASE m \notin {n, p} /\ h # g
    BY <1>1, <1>18, <1>19, <1>22, <2>2 DEF Holds
  <2>3. CASE m \notin {n, p} /\ h = g
    <3>1. node[m].avatar # None /\ node[m].group = created + 1
      BY <1>18, <2>3 DEF g
    <3>2. created + 1 \in Ids
      BY <1>3 DEF g
    <3>3. created + 1 <= created
      BY <1>1, <3>1, <3>2, InviteDates
    <3> QED
      BY <1>3, <3>3
  <2> QED
    BY <2>1, <2>2, <2>3
<1>24. Gone(w, g)
  <2>1. \A h \in Ids \ {g} : groups[h].live => h <= g
    BY <1>1, <1>3 DEF Sound, Gone, Ids, g
  <2>2. g <= g
    BY <1>3 DEF g
  <2> QED
    BY <1>1, <1>19, <1>21, <2>1, <2>2 DEF Gone, Sound
<1> QED
  BY <1>4, <1>17, <1>22, <1>24, SoundBecomes DEF Sound, Tidy

LEMMA InviteToGroupSound ==
    ASSUME Given, HouseInv, NEW n \in Nodes, NEW t \in Avatars, InviteToGroup(n, t)
    PROVE  Keeps
<1> DEFINE p == GetPlayer(t)
           g == MyGroup(n)
           i == NewSeat(g)
           u == Assign(World, {p}, g, FALSE)
           s == Seat(u, g, i, t)
           w == Ask(s, p)
<1>1. /\ WorldTyped /\ DirInv /\ World \in Worlds /\ Sound(World, created)
      /\ World.node = node /\ World.groups = groups
  BY HouseWorld
<1>2. p \in Nodes /\ node[p].avatar = t /\ node[p].group = NoGroup /\ t # None
  BY <1>1, Finds DEF InviteToGroup, MayInvite, Given, NoneIsNoAvatar
<1>3. g \in Ids /\ groups[g].live
  BY <1>1, FoundIs DEF InviteToGroup, Found
<1>4. created' = created /\ Becomes(w)
  BY DEF InviteToGroup
<1>5. Assigned(u, World, {p}, g)
  BY <1>1, <1>3, AssignFields, Zenon
<1>6. groups[g].member[1] # None
  BY <1>3 DEF HouseInv, Headed
<1>7. i = GetMemberCount(World, g) + 1 /\ i \in Seats /\ i >= 2 /\ 1 \in Seats
  <2>1. GetMemberCount(World, g) \in 0..Size /\ GetMemberCount(World, g) < Size
    BY <1>1, <1>3, CountRange DEF InviteToGroup
  <2>2. GetMemberCount(World, g) >= 1
    BY <1>1, <1>3, <1>6, CountSome
  <2> QED
    BY <2>1, <2>2 DEF NewSeat, Seats, Given, GroupBounds
<1>8. Unseated(World, p)
  <2>1. ~Found(MyGroup(p))
    BY <1>2 DEF Found, MyGroup
  <2> QED
    BY <1>2, <2>1, AloneUnseated
<1> HIDE DEF u
<1>9. Sound(u, created)
  BY <1>1, <1>5, <1>8, SoundAssign
<1>10. /\ u.groups = groups /\ u.node[p].group = g
       /\ \A m \in Nodes : /\ u.node[m].avatar = node[m].avatar
                           /\ m # p => u.node[m].group = node[m].group
  BY <1>1, <1>2, <1>5 DEF Assigned
<1>11. \A m \in Nodes : node[m].avatar = t <=> m = p
  BY <1>1, <1>2, OnlyNode
<1>12. Unseated(u, p) /\ Fits(u) /\ u \in Worlds
  BY <1>1, <1>2, <1>8, <1>9, <1>10 DEF Unseated, Sound, Fits
<1> HIDE DEF i, g, p
<1>13. Taken(s, u, g, i, t)
  BY <1>3, <1>7, <1>12, SeatFields
<1> HIDE DEF s
<1>14. /\ Fits(s) /\ s \in Worlds /\ s.node = u.node
       /\ \A x \in Seats : s.groups[g].member[x] = IF x = i THEN t ELSE groups[g].member[x]
  <2>1. Newcomer(u, p, t, g)
    BY <1>2, <1>10, <1>11, <1>12 DEF Newcomer
  <2>2. Admitted(s, u, g, i, p, t)
    BY <1>3, <1>7, <1>13, <2>1, FitsTaken
  <2> QED
    BY <1>10, <1>13, <2>2 DEF Taken, Admitted
<1>15. Marked(w, s, p, TRUE)
  BY <1>2, <1>14, MarkFields
<1> HIDE DEF w
<1>16. Fits(w)
  BY <1>14, <1>15, FitsMark
<1>17. /\ w.groups = s.groups
       /\ \A m \in Nodes : /\ w.node[m].avatar = node[m].avatar
                           /\ m # p => w.node[m].group = node[m].group
                           /\ w.node[p].group = g
  BY <1>2, <1>10, <1>14, <1>15 DEF Marked
<1>18. \A h \in Ids \ {g} : w.groups[h] = groups[h]
  BY <1>10, <1>13, <1>17 DEF Taken
<1>19. \A x \in Seats : w.groups[g].member[x] = IF x = i THEN t ELSE groups[g].member[x]
  BY <1>14, <1>17
<1>20. w.groups[g].live
  BY <1>13, <1>17 DEF Taken
<1>21. ASSUME Tidy PROVE groups[g].member[i] = None
  BY <1>1, <1>3, <1>7, <1>21, CountPacked DEF Tidy, Packed
<1>22. ASSUME Tidy PROVE Holds(w)
  <2> SUFFICES ASSUME NEW m \in Nodes, NEW h \in Ids, w.node[m].avatar # None,
                      w.node[m].group = h, w.groups[h].live
               PROVE  \E x \in Seats : w.groups[h].member[x] = w.node[m].avatar
    BY DEF Holds
  <2>1. CASE m = p
    BY <1>2, <1>7, <1>17, <1>19, <2>1
  <2>2. CASE m # p
    <3>1. node[m].avatar = w.node[m].avatar /\ node[m].group = h /\ groups[h].live
      BY <1>3, <1>17, <1>18, <2>2
    <3>2. PICK x \in Seats : groups[h].member[x] = w.node[m].avatar
      BY <1>1, <1>22, <3>1 DEF Tidy, Holds
    <3>3. h = g => x # i
      BY <1>21, <1>22, <3>2
    <3> QED
      BY <1>18, <1>19, <3>2, <3>3
  <2> QED
    BY <2>1, <2>2
<1>23. Gone(w, created)
  BY <1>1, <1>3, <1>18, <1>20 DEF Gone, Sound
<1> QED
  BY <1>4, <1>16, <1>22, <1>23, SoundBecomes DEF Sound

\* A player who is not in the game comes into it, on a node nobody has had.
LEMMA LoginSound ==
    ASSUME Given, Settled, HouseInv, NEW a \in Avatars, Login(a)
    PROVE  Keeps
<1> DEFINE twins == {n \in Nodes : node[n].avatar = a}
           k == logins + 1
           r == [Available EXCEPT !.avatar = a]
           v == [node |-> node', groups |-> groups]
<1>1. /\ WorldTyped /\ DirInv /\ Sound(World, created) /\ a # None /\ GuestWorld
      /\ World.node = node /\ World.groups = groups
  BY HouseWorld DEF HouseInv, Given, NoneIsNoAvatar
<1>2. FirstFree = k /\ k \in Nodes
  BY <1>1, NextNode DEF Login
<1>3. r.avatar = a
  BY DEF Available
<1>4. /\ node' = [Release(node, twins) EXCEPT ![k] = r]
      /\ groups' = groups /\ created' = created
      /\ drops + Cardinality(twins) <= MaxDrops
  BY <1>2 DEF Login
<1> HIDE DEF r
<1>5. \A n \in Nodes : node[n].avatar # a
  <2>1. IsFiniteSet(Nodes)
    BY FS_Interval DEF Nodes, Given, GroupBounds
  <2>2. IsFiniteSet(twins)
    BY <2>1, FS_Subset
  <2>3. Cardinality(twins) \in Nat
    BY <2>2, FS_CardinalityType
  <2>4. Cardinality(twins) = 0
    BY <1>1, <1>4, <2>3 DEF Settled, WorldTyped
  <2>5. twins = {}
    BY <2>2, <2>4, FS_EmptySet
  <2> QED
    BY <2>5
<1>6. node[k].avatar = None
  BY <1>1, <1>2 DEF DirInv, WorldTyped, Nodes, Given, GroupBounds, OneLap
<1>7. \A n \in Nodes : node'[n] = IF n = k THEN r ELSE node[n]
  BY <1>2, <1>4, <1>5 DEF Release
<1>8. WorldTyped'
  BY <1>1, LoginKeeps DEF GuestWorld
<1>9. v \in Worlds
  BY <1>4, <1>8 DEF WorldTyped, Worlds, NodeRecords, GroupRecords
<1>10. v.node = node' /\ v.groups = groups
  OBVIOUS
<1> HIDE DEF v
<1>11. \A g \in Ids, i \in Seats : groups[g].member[i] # None => groups[g].member[i] # a
  BY <1>1, <1>5 DEF Sound, Fits
<1>12. \A g \in Ids, i \in Seats, m \in Nodes : groups[g].member[i] # None =>
          /\ node'[m].avatar = groups[g].member[i] <=> node[m].avatar = groups[g].member[i]
          /\ node[m].avatar = groups[g].member[i] => node'[m] = node[m]
  BY <1>3, <1>6, <1>7, <1>11
<1>13. Fits(v)
  BY <1>1, <1>9, <1>10, <1>12 DEF Sound, Fits
<1>14. ASSUME Holds(World) PROVE Holds(v)
  <2>1. ASSUME NEW m \in Nodes, NEW h \in Ids, node'[m].avatar # None, node'[m].group = h
        PROVE  node'[m] = node[m]
    BY <1>7, <2>1 DEF r, Available, Ids, NoGroup
  <2> QED
    BY <1>1, <1>10, <1>14, <2>1 DEF Holds
<1>15. Gone(v, created)
  BY <1>1, <1>10 DEF Sound, Gone
<1> QED
  BY <1>4, <1>10, <1>13, <1>14, <1>15, SoundBecomes DEF Becomes, Sound, Tidy

\* Every conclusion as far as the history reaches.
FullInv == GuestInv /\ (led => HouseInv) /\ (packed => led /\ Tidy)

LEMMA HouseInit == Given /\ Settled /\ Init => FullInv
<1> SUFFICES ASSUME Given, Init PROVE FullInv
  OBVIOUS
<1>1. GuestInv
  BY GuestInit
<1>2. World \in Worlds /\ World.node = node /\ World.groups = groups
  BY <1>1, WorldType DEF GuestInv, GuestWorld, World
<1>3. \A g \in Ids : groups[g] = NotMade /\ ~groups[g].live
  BY DEF Init, NotMade
<1>4. Fits(World)
  BY <1>2, <1>3, NotMadeEmpty DEF Fits
<1>5. Gone(World, created) /\ Holds(World)
  BY <1>2, <1>3 DEF Gone, Holds
<1>6. Dated /\ led /\ \A g \in Ids : Headed(g) /\ Packed(g)
  BY <1>3 DEF Init, Dated, Headed, Packed
<1> QED
  BY <1>1, <1>4, <1>5, <1>6 DEF FullInv, GuestInv, HouseInv, Sound, Tidy

LEMMA HouseStep == Given /\ Settled /\ FullInv /\ [Next]_vars => FullInv'
<1> SUFFICES ASSUME Given, Settled, FullInv, [Next]_vars PROVE FullInv'
  OBVIOUS
<1>1. GuestInv'
  BY GuestStep DEF FullInv
<1>2. CASE UNCHANGED vars
  <2>1. UNCHANGED <<node, lookup, circle, logins, drops, groups, created, invited, led, packed>>
    BY <1>2 DEF vars, directory
  <2>2. World' = World /\ \A g \in Ids : (Headed(g) <=> Headed(g)') /\ (Packed(g) <=> Packed(g)')
    BY <2>1 DEF World, Headed, Packed
  <2>3. HouseInv => HouseInv'
    BY <1>1, <2>1, <2>2 DEF HouseInv, GuestInv, Dated, Sound, Fits, Gone
  <2>4. Tidy => Tidy'
    BY <2>2 DEF Tidy, Holds
  <2> QED
    BY <1>1, <2>1, <2>3, <2>4 DEF FullInv
<1>3. CASE Next
  <2>1. /\ led' => led /\ \A g \in Ids : Headed(g)'
        /\ packed' => packed /\ led' /\ \A g \in Ids : Packed(g)'
    BY <1>3 DEF Next
  <2>2. ASSUME led' PROVE Keeps /\ Dated'
    <3>1. HouseInv
      BY <2>1, <2>2 DEF FullInv
    <3>2. ASSUME NEW n \in Nodes, DropPlayerFromGalaxy(n) PROVE FALSE
      <4>1. drops \in 0..MaxDrops
        BY <3>1 DEF HouseInv, GuestWorld, WorldTyped
      <4> QED
        BY <3>2, <4>1 DEF DropPlayerFromGalaxy, Settled
    <3>3. ASSUME NEW n \in Nodes, Client(n) PROVE Keeps /\ Dated'
      <4>1. Keeps
        BY <3>1, <3>3, InviteBusySound, InviteToNewSound, InviteToGroupSound, AcceptSound,
           RejectSound, LeaveSound, LogoffSound, DisbanSound, KickSound, RequestSound DEF Client
      <4> QED
        BY <3>1, <3>3, <4>1, DatedStep
    <3>4. ASSUME NEW a \in Avatars, Login(a) PROVE Keeps /\ Dated'
      <4>1. Dated'
        BY <3>1, <3>4 DEF Login, HouseInv, Dated
      <4> QED
        BY <3>1, <3>4, <4>1, LoginSound
    <3> QED
      BY <1>3, <3>2, <3>3, <3>4 DEF Next
  <2>3. led' => HouseInv'
    BY <1>1, <2>1, <2>2 DEF HouseInv, GuestInv, Keeps
  <2>4. packed' => Tidy'
    <3>1. packed' => Tidy
      BY <2>1 DEF FullInv
    <3> QED
      BY <2>1, <2>2, <3>1 DEF Tidy, Keeps
  <2> QED
    BY <1>1, <2>1, <2>3, <2>4 DEF FullInv
<1> QED
  BY <1>2, <1>3

LEMMA HouseMeans == Given /\ FullInv => SeatsAgree /\ HasSeat
<1>1. ASSUME Given, HouseInv, NEW g \in Ids, NEW i \in Seats, groups[g].member[i] # None
      PROVE  LET a == groups[g].member[i]
             IN  /\ GetPlayer(a) # NoNode
                 /\ node[GetPlayer(a)].avatar = a
                 /\ node[GetPlayer(a)].group = g
                 /\ \A j \in Seats \ {i} : groups[g].member[j] # a
  <2>1. /\ WorldTyped /\ DirInv /\ Sound(World, created)
        /\ World.node = node /\ World.groups = groups
    BY <1>1, HouseWorld
  <2>2. PICK m \in Nodes : node[m].avatar = groups[g].member[i]
    BY <1>1, <2>1 DEF Sound, Fits
  <2>3. GetPlayer(groups[g].member[i]) = m /\ m # NoNode
    BY <1>1, <2>1, <2>2, Finds DEF Nodes, NoNode
  <2>4. node[m].group = g /\ \A j \in Seats \ {i} : groups[g].member[j] # groups[g].member[i]
    BY <1>1, <2>1, <2>2 DEF Sound, Fits
  <2> QED
    BY <2>2, <2>3, <2>4
<1>2. ASSUME HouseInv, Tidy, NEW n \in Nodes, node[n].avatar # None, Found(node[n].group)
      PROVE  \E i \in Seats : groups[node[n].group].member[i] = node[n].avatar
  <2>1. WorldTyped /\ World.node = node /\ World.groups = groups
    BY <1>2, HouseWorld
  <2>2. node[n].group \in Ids /\ groups[node[n].group].live
    BY <1>2, <2>1 DEF Found, WorldTyped
  <2> QED
    BY <1>2, <2>1, <2>2 DEF Tidy, Holds
<1>3. Given /\ FullInv => SeatsAgree
  BY <1>1 DEF FullInv, SeatsAgree
<1>4. FullInv => HasSeat
  BY <1>2 DEF FullInv, HasSeat
<1> QED
  BY <1>3, <1>4

\* For any avatars, pool, seats and groups, when nobody is dropped without a logoff and
\* no node of the pool is handed out twice: as long as no group has lost its leader,
\* every member of a live group is a player of the game in that group, and sits in it
\* once, whoever invites, answers, leaves, kicks, disbands, changes sector or logs off;
\* and as long as, besides, no group has had an empty seat before a taken one, every
\* player with the id of a live group has a seat in it (GroupManager.cpp).
THEOREM SeatsBelong ==
    ASSUME GroupBounds, NoneIsNoAvatar, OneLap, MaxDrops = 0
    PROVE  Spec => [](SeatsAgree /\ HasSeat)
<1>1. Given /\ Settled
  BY DEF Given, Settled
<1> QED
  BY <1>1, HouseInit, HouseStep, HouseMeans, PTL DEF Spec

=============================================================================
