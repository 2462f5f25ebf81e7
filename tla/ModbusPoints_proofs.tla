------------------------ MODULE ModbusPoints_proofs ------------------------
(* Proofs about ModbusPoints, for all connections, devices and points: the   *)
(* groups are reads of their points, whatever the order points come in, what *)
(* is cut out of a read is what the registers hold, and what is written can  *)
(* be read back.  A recursive function is given by a CHOOSE: that it has the *)
(* values its steps say follows from Recursion, and what they keep from      *)
(* StepByStep.                                                               *)
EXTENDS ModbusPoints, FiniteSetTheorems, SequenceTheorems, WellFoundedInduction, TLAPS

AllAtTheTop(g) == \A k \in 1..Len(g.points) : AtTheTop(g.points[k])

\* What joining a point keeps of a group.  The group ends at the top of the addresses, where the
\* code's sum is 0, exactly if its points do.
GroupOK(g) ==
    /\ g.address + g.quantity <= Space
    /\ Len(g.points) > 0
    /\ \/ CrossesTheTop(g)
       \/ /\ Spans(g)
          /\ g.quantity <= BatchReadLen \/ Len(g.points) = 1
          /\ g.address + g.quantity = Space <=> AllAtTheTop(g)

\* What a point tells of itself.
LEMMA PointFacts ==
    ASSUME NEW p \in Points
    PROVE  /\ p.device \in Device /\ unitOf[p.device] \in Unit
           /\ p.duration \in Nat /\ p.table \in Table
           /\ p.address \in 0..(Space - 1) /\ p.quantity \in 1..4
           /\ p.address + p.quantity <= Space
BY PointsAssumption, UnitsAssumption, SpaceAssumption DEF PointRec, Quantity

\* A new group is one.
LEMMA NewGroupOK ==
    ASSUME NEW p \in Points, NEW i \in Nat
    PROVE  NewGroup(i, p) \in GroupRec /\ GroupOK(NewGroup(i, p))
<1>1. /\ p.address \in 0..(Space - 1) /\ p.quantity \in 1..4
      /\ p.address + p.quantity <= Space /\ p.duration \in Nat /\ p.table \in Table
  BY PointFacts
<1>2. <<p>> \in Seq(Points) /\ Len(<<p>>) = 1 /\ <<p>>[1] = p
  OBVIOUS
<1>3. NewGroup(i, p) \in GroupRec
  BY <1>1, <1>2, LengthsAssumption, SpaceAssumption DEF NewGroup, GroupRec, Higher
<1>4. GroupOK(NewGroup(i, p))
  BY <1>1, <1>2, SpaceAssumption DEF NewGroup, GroupOK, Spans, AllAtTheTop, AtTheTop
<1> QED BY <1>3, <1>4

\* The length of the read after joining, without the arithmetic of 16 bits.
LEMMA LengthFacts ==
    ASSUME NEW g \in GroupRec, NEW p \in Points, g.address + g.quantity <= Space
    PROVE  LET s == Start(g, p)  n == Length(g, p)
           IN  /\ s \in 0..(Space - 1) /\ s <= g.address /\ s <= p.address
               /\ n \in Nat /\ n > 0 /\ s + n <= Space
               /\ g.address + g.quantity < Space /\ p.address + p.quantity < Space
                    => /\ s + n < Space
                       /\ g.address + g.quantity <= s + n
                       /\ p.address + p.quantity <= s + n
               /\ g.address + g.quantity = Space /\ p.address + p.quantity = Space => s + n = Space
<1>1. /\ p.address \in 0..(Space - 1) /\ p.quantity \in 1..4 /\ p.address + p.quantity <= Space
      /\ g.address \in 0..(Space - 1) /\ g.quantity \in Nat /\ g.quantity > 0
  BY PointFacts, LengthsAssumption DEF GroupRec, Higher
<1> DEFINE s == Start(g, p)
           h == Higher(End(g), End(p))
<1>2. /\ s \in 0..(Space - 1) /\ s <= g.address /\ s <= p.address
      /\ s = g.address \/ s = p.address
  BY <1>1, SpaceAssumption DEF Start, Lower
<1>3. /\ End(g) = IF g.address + g.quantity = Space THEN 0 ELSE g.address + g.quantity
      /\ End(p) = IF p.address + p.quantity = Space THEN 0 ELSE p.address + p.quantity
  BY <1>1, SpaceAssumption DEF End, U16
<1>4. /\ h \in 0..(Space - 1) /\ End(g) <= h /\ End(p) <= h /\ (h = End(g) \/ h = End(p))
  BY <1>1, <1>3, SpaceAssumption DEF Higher
<1>5. h = 0 \/ h > s
  BY <1>1, <1>2, <1>3, <1>4
<1>6. Length(g, p) = IF h = 0 THEN Space - s ELSE h - s
  <2>1. s > 0 \/ h > 0
    <3>1. g.quantity < Space /\ p.quantity < Space
      BY <1>1, LengthsAssumption, SpaceAssumption DEF GroupRec, Higher
    <3> QED BY <3>1, <1>1, <1>2, <1>3, <1>4, SpaceAssumption
  <2> QED BY <2>1, <1>2, <1>4, <1>5, SpaceAssumption DEF Length, U16
<1> QED BY <1>1, <1>2, <1>3, <1>4, <1>5, <1>6, SpaceAssumption

\* A group with another place and other points.
LEMMA GroupReplaced ==
    ASSUME NEW g \in GroupRec, NEW a \in 0..(Space - 1), NEW n \in 1..Higher(BatchReadLen, 4),
           NEW pts \in Seq(Points)
    PROVE  [g EXCEPT !.address = a, !.quantity = n, !.points = pts] \in GroupRec
BY DEF GroupRec

\* Joining a group keeps it one: the points it had are still spanned, and so is the new one.
LEMMA JoinedOK ==
    ASSUME NEW g \in GroupRec, NEW p \in Points, GroupOK(g), Fits(g, p)
    PROVE  Joined(g, p) \in GroupRec /\ GroupOK(Joined(g, p))
<1> DEFINE s == Start(g, p)
           n == Length(g, p)
           pts == Append(g.points, p)
           j == Joined(g, p)
<1>0. /\ g.address \in Nat /\ g.quantity \in Nat /\ Space \in Nat
      /\ p.address \in Nat /\ p.quantity \in Nat /\ p.address + p.quantity <= Space
  BY PointFacts, LengthsAssumption, SpaceAssumption DEF GroupRec, Higher
<1>1. /\ s \in 0..(Space - 1) /\ s <= g.address /\ s <= p.address
      /\ n \in Nat /\ n > 0 /\ s + n <= Space
      /\ g.address + g.quantity < Space /\ p.address + p.quantity < Space
           => /\ s + n < Space
              /\ g.address + g.quantity <= s + n
              /\ p.address + p.quantity <= s + n
      /\ g.address + g.quantity = Space /\ p.address + p.quantity = Space => s + n = Space
  BY LengthFacts DEF GroupOK
<1>2. /\ j.address = s /\ j.quantity = n /\ j.points = pts
      /\ j.index = g.index /\ j.duration = g.duration /\ j.table = g.table
      /\ DOMAIN j = DOMAIN g
  BY DEF Joined, GroupRec
<1>3. /\ pts \in Seq(Points) /\ Len(pts) = Len(g.points) + 1 /\ pts[Len(g.points) + 1] = p
      /\ \A k \in 1..Len(g.points) : pts[k] = g.points[k] /\ g.points[k] \in Points
      /\ Len(g.points) \in Nat
  BY DEF GroupRec
<1>4. n <= BatchReadLen
  BY DEF Fits
<1>5. j \in GroupRec
  <2>2. n \in 1..Higher(BatchReadLen, 4)
    BY <1>1, <1>4, LengthsAssumption DEF Higher
  <2> QED BY <2>2, <1>1, <1>3, GroupReplaced DEF Joined
<1>6. CASE CrossesTheTop(g)
  <2>1. CrossesTheTop(j)
    BY <1>2, <1>3, <1>6 DEF CrossesTheTop
  <2> QED BY <2>1, <1>1, <1>2, <1>3, <1>5 DEF GroupOK
<1>7. CASE ~CrossesTheTop(g)
  <2>1. /\ Spans(g) /\ Len(g.points) > 0
        /\ g.address + g.quantity = Space <=> AllAtTheTop(g)
        /\ g.address + g.quantity <= Space
    BY <1>7 DEF GroupOK
  <2>2. CASE AllAtTheTop(g) /\ AtTheTop(p)
    <3>1. s + n = Space
      BY <1>1, <2>1, <2>2 DEF AtTheTop
    <3>2. AllAtTheTop(j)
      BY <1>2, <1>3, <2>2 DEF AllAtTheTop
    <3>3. Spans(j)
      <4>1. \A k \in 1..Len(g.points) : s <= g.points[k].address
        <5>1. \A k \in 1..Len(g.points) : g.address <= g.points[k].address
          BY <2>1 DEF Spans
        <5>2. \A k \in 1..Len(g.points) : g.points[k].address \in Nat
          BY <1>3, PointFacts
        <5> QED BY <5>1, <5>2, <1>0, <1>1
      <4> QED BY <1>1, <1>2, <1>3, <2>2, <3>1, <4>1 DEF Spans, AllAtTheTop, AtTheTop
    <3> QED BY <1>1, <1>2, <1>3, <1>4, <1>5, <3>1, <3>2, <3>3 DEF GroupOK
  <2>3. CASE ~AllAtTheTop(g) /\ ~AtTheTop(p)
    <3>1. g.address + g.quantity < Space /\ p.address + p.quantity < Space
      BY <1>0, <2>1, <2>3 DEF AtTheTop
    <3>2. Spans(j)
      <4>1. ASSUME NEW k \in 1..Len(g.points)
            PROVE  s <= g.points[k].address /\ g.points[k].address + g.points[k].quantity <= s + n
        <5>1. /\ g.address <= g.points[k].address
              /\ g.points[k].address + g.points[k].quantity <= g.address + g.quantity
          BY <2>1 DEF Spans
        <5>2. g.points[k].address \in Nat /\ g.points[k].quantity \in Nat
          <6>1. g.points[k] \in Points
            BY <1>3
          <6> QED BY <6>1, PointFacts
        <5> QED BY <5>1, <5>2, <3>1, <1>1 DEF GroupRec
      <4> QED BY <1>1, <1>2, <1>3, <3>1, <4>1 DEF Spans
    <3>3. ~AllAtTheTop(j)
      BY <1>2, <1>3, <2>3 DEF AllAtTheTop
    <3> QED BY <1>1, <1>2, <1>3, <1>4, <1>5, <3>1, <3>2, <3>3 DEF GroupOK
  <2>4. CASE AllAtTheTop(g) /\ ~AtTheTop(p)
    <3>1. CrossesTheTop(j)
      <4>1. AtTheTop(j.points[1]) /\ ~AtTheTop(j.points[Len(g.points) + 1])
        BY <1>2, <1>3, <2>1, <2>4 DEF AllAtTheTop
      <4> QED BY <4>1, <1>2, <1>3, <2>1 DEF CrossesTheTop
    <3> QED BY <3>1, <1>1, <1>2, <1>3, <1>5 DEF GroupOK
  <2>5. CASE ~AllAtTheTop(g) /\ AtTheTop(p)
    <3>1. CrossesTheTop(j)
      <4>1. PICK k \in 1..Len(g.points) : ~AtTheTop(g.points[k])
        BY <2>5 DEF AllAtTheTop
      <4>2. ~AtTheTop(j.points[k]) /\ AtTheTop(j.points[Len(g.points) + 1])
        BY <4>1, <1>2, <1>3, <2>5
      <4> QED BY <4>2, <1>2, <1>3 DEF CrossesTheTop
    <3> QED BY <3>1, <1>1, <1>2, <1>3, <1>5 DEF GroupOK
  <2> QED BY <2>2, <2>3, <2>4, <2>5
<1> QED BY <1>6, <1>7

-----------------------------------------------------------------------------
(* The groups *)

\* All groups are reads of their points, and the points of the connection.
GroupsInv ==
    /\ TypeOK
    /\ \A u \in Unit : \A i \in 1..Len(groups[u]) :
          /\ GroupOK(groups[u][i])
          /\ \A k \in 1..Len(groups[u][i].points) : groups[u][i].points[k] \in added

LEMMA InitGroups == Init => GroupsInv
<1> SUFFICES ASSUME Init PROVE GroupsInv
  OBVIOUS
<1>1. groups = [u \in Unit |-> <<>>] /\ \A u \in Unit : Len(groups[u]) = 0
  BY DEF Init
<1>2. groups \in [Unit -> Seq(GroupRec)]
  BY <1>1
<1>3. DOMAIN memory = Unit /\ DOMAIN reported = Points
  BY DEF Init
<1>4. TypeOK
  BY <1>2, <1>3 DEF Init, TypeOK
<1> QED BY <1>1, <1>4 DEF GroupsInv

\* How the groups of a unit change when a point is added.
LEMMA AddedPoint ==
    ASSUME GroupsInv, NEW p \in Points, createPointGroup(p), NEW u \in Unit
    PROVE  /\ groups'[u] \in Seq(GroupRec)
           /\ \A i \in 1..Len(groups'[u]) : GroupOK(groups'[u][i])
           /\ \A i \in 1..Len(groups'[u]) : \A k \in 1..Len(groups'[u][i].points) :
                 groups'[u][i].points[k] \in added'
<1> DEFINE v == unitOf[p.device]
<1>1. /\ groups \in [Unit -> Seq(GroupRec)] /\ groupIndex \in Nat
      /\ added' = added \cup {p}
  BY DEF GroupsInv, TypeOK, createPointGroup
<1>2. \A i \in 1..Len(groups[u]) : groups[u][i] \in GroupRec
  BY <1>1
<1>3. CASE \E i \in 1..Len(groups[v]) : /\ Fits(groups[v][i], p)
                                        /\ groups' = [groups EXCEPT ![v][i] = Joined(groups[v][i], p)]
  <2>1. PICK i \in 1..Len(groups[v]) : /\ Fits(groups[v][i], p)
                                       /\ groups' = [groups EXCEPT ![v][i] = Joined(groups[v][i], p)]
    BY <1>3
  <2>2. CASE u # v
    BY <1>1, <2>1, <2>2 DEF GroupsInv
  <2>3. CASE u = v
    <3> DEFINE g == groups[u][i]
    <3>1. g \in GroupRec /\ GroupOK(g) /\ \A k \in 1..Len(g.points) : g.points[k] \in added
      BY <1>2, <2>1, <2>3 DEF GroupsInv
    <3>2. Joined(g, p) \in GroupRec /\ GroupOK(Joined(g, p))
      BY <3>1, <2>1, <2>3, JoinedOK
    <3>3. groups'[u] = [groups[u] EXCEPT ![i] = Joined(g, p)]
      BY <1>1, <2>1, <2>3
    <3>4. /\ groups'[u] \in Seq(GroupRec) /\ Len(groups'[u]) = Len(groups[u])
          /\ \A j \in 1..Len(groups[u]) :
                groups'[u][j] = IF j = i THEN Joined(g, p) ELSE groups[u][j]
      BY <1>1, <2>1, <2>3, <3>2, <3>3
    <3>5. \A k \in 1..Len(Joined(g, p).points) : Joined(g, p).points[k] \in added'
      <4>1. Joined(g, p).points = Append(g.points, p) /\ g.points \in Seq(Points)
        BY <3>1 DEF Joined, GroupRec
      <4> QED BY <4>1, <3>1, <1>1
    <3> QED BY <3>2, <3>4, <3>5, <1>1 DEF GroupsInv
  <2> QED BY <2>2, <2>3
<1>4. CASE groups' = [groups EXCEPT ![v] = Append(groups[v], NewGroup(groupIndex, p))]
  <2>1. CASE u # v
    BY <1>1, <1>4, <2>1 DEF GroupsInv
  <2>2. CASE u = v
    <3> DEFINE new == NewGroup(groupIndex, p)
    <3>1. new \in GroupRec /\ GroupOK(new) /\ new.points = <<p>>
      BY <1>1, NewGroupOK DEF NewGroup
    <3> HIDE DEF new
    <3>2. groups'[u] = Append(groups[u], new)
      BY <1>1, <1>4, <2>2 DEF new
    <3>3. /\ groups'[u] \in Seq(GroupRec) /\ Len(groups'[u]) = Len(groups[u]) + 1
          /\ Len(groups[u]) \in Nat
          /\ groups'[u][Len(groups[u]) + 1] = new
          /\ \A j \in 1..Len(groups[u]) : groups'[u][j] = groups[u][j]
      BY <1>1, <3>1, <3>2
    <3>4. \A k \in 1..Len(new.points) : new.points[k] \in added'
      BY <3>1, <1>1
    <3>5. ASSUME NEW j \in 1..Len(groups'[u])
          PROVE  /\ GroupOK(groups'[u][j])
                 /\ \A k \in 1..Len(groups'[u][j].points) : groups'[u][j].points[k] \in added'
      <4>1. CASE j = Len(groups[u]) + 1
        BY <4>1, <3>1, <3>3, <3>4
      <4>2. CASE j # Len(groups[u]) + 1
        <5>1. j \in 1..Len(groups[u])
          BY <4>2, <3>3
        <5> QED BY <5>1, <3>3, <1>1 DEF GroupsInv
      <4> QED BY <4>1, <4>2
    <3> QED BY <3>3, <3>5
  <2> QED BY <2>1, <2>2
<1> QED BY <1>3, <1>4 DEF createPointGroup

LEMMA GroupsStep == GroupsInv /\ [Next]_vars => GroupsInv'
<1> SUFFICES ASSUME GroupsInv, [Next]_vars PROVE GroupsInv'
  OBVIOUS
<1>1. ASSUME NEW d \in Device, BeginDevice(d) PROVE GroupsInv'
  BY <1>1 DEF BeginDevice, GroupsInv, TypeOK
<1>2. ASSUME NEW p \in Points, createPointGroup(p) PROVE GroupsInv'
  <2>1. unitOf[p.device] \in Unit
    BY PointFacts
  <2>2. groups' \in [Unit -> Seq(GroupRec)]
    <3>1. groups' = [u \in Unit |-> groups'[u]]
      <4>1. groups = [u \in Unit |-> groups[u]]
        BY DEF GroupsInv, TypeOK
      <4>2. \/ \E i \in 1..Len(groups[unitOf[p.device]]) :
                groups' = [groups EXCEPT ![unitOf[p.device]][i] = Joined(groups[unitOf[p.device]][i], p)]
            \/ groups' = [groups EXCEPT ![unitOf[p.device]] =
                             Append(groups[unitOf[p.device]], NewGroup(groupIndex, p))]
        BY <1>2 DEF createPointGroup
      <4> QED BY <4>1, <4>2
    <3>2. \A u \in Unit : groups'[u] \in Seq(GroupRec)
      BY <1>2, AddedPoint
    <3> QED BY <3>1, <3>2
  <2>3. groupIndex' \in Nat /\ added' \subseteq Points /\ written' \subseteq added'
    <3>1. groupIndex' = groupIndex \/ groupIndex' = groupIndex + 1
      BY <1>2 DEF createPointGroup
    <3>2. added' = added \cup {p} /\ written' = written
      BY <1>2 DEF createPointGroup
    <3> QED BY <3>1, <3>2 DEF GroupsInv, TypeOK
  <2>4. TypeOK'
    BY <1>2, <2>2, <2>3 DEF createPointGroup, GroupsInv, TypeOK
  <2> QED BY <1>2, <2>4, AddedPoint DEF GroupsInv
<1>3. CASE StartCollecting
  BY <1>3 DEF StartCollecting, GroupsInv, TypeOK
<1>4. ASSUME NEW u \in Unit, NEW i \in 1..Len(groups[u]), Collect(u, i) PROVE GroupsInv'
  BY <1>4 DEF Collect, sendReadCommand, grouping, GroupsInv, TypeOK
<1>5. ASSUME NEW d \in Device, NEW names, ReadRequest(d, names) PROVE GroupsInv'
  BY <1>5 DEF ReadRequest, sendReadCommand, grouping, GroupsInv, TypeOK
<1>6. ASSUME NEW d \in Device, NEW S \in SUBSET added, BatchWrite(d, S) PROVE GroupsInv'
  <2>1. UNCHANGED grouping /\ DOMAIN memory' = DOMAIN memory /\ DOMAIN reported' = Points
    BY <1>6 DEF BatchWrite
  <2>2. written' \subseteq written \cup S
    BY <1>6 DEF BatchWrite
  <2> QED BY <2>1, <2>2 DEF grouping, GroupsInv, TypeOK
<1>7. CASE UNCHANGED vars
  BY <1>7 DEF vars, grouping, GroupsInv, TypeOK
<1>8. ASSUME NEW p \in added, NEW q \in added, ReadRequest(p.device, <<p.name, q.name>>) PROVE GroupsInv'
  BY <1>8, <1>5, PointFacts DEF GroupsInv, TypeOK
<1> QED BY <1>1, <1>2, <1>3, <1>4, <1>6, <1>7, <1>8 DEF Next, Group

\* The type invariant of the points of a connection, for all points and lengths: in particular no
\* group is empty or longer than a read may be (connector.go:149-190).
THEOREM PointsTypeCorrect == Spec => []TypeOK
<1>1. GroupsInv => TypeOK
  BY DEF GroupsInv
<1> QED BY InitGroups, GroupsStep, <1>1, PTL DEF Spec

\* A read covers the registers of all its points within the length the slave allows, whatever the
\* points and the order they come in (createPointGroup, connector.go:149-173).
THEOREM GroupsAreReadsOfTheirPoints == Spec => []GroupsSpanTheirPoints
<1>1. GroupsInv => GroupsSpanTheirPoints
  BY DEF GroupsInv, GroupOK, GroupsSpanTheirPoints
<1> QED BY InitGroups, GroupsStep, <1>1, PTL DEF Spec

-----------------------------------------------------------------------------
(* Places *)

\* The point has place k in group i.
Place(gs, i, k, q) == /\ i \in 1..Len(gs)
                      /\ k \in 1..Len(gs[i].points)
                      /\ gs[i].points[k] = q

\* Adding a point adds one place, which is its own.
LEMMA OnePlaceMore ==
    ASSUME GroupsInv, NEW p \in Points, createPointGroup(p)
    PROVE  LET v == unitOf[p.device]
           IN  \E n, m : \A i, k, q :
                  Place(groups'[v], i, k, q) <=> Place(groups[v], i, k, q) \/ (i = n /\ k = m /\ q = p)
<1> DEFINE v == unitOf[p.device]
           gs == groups[v]
           More(n, m) == \A i, k, q :
               Place(groups'[v], i, k, q) <=> Place(gs, i, k, q) \/ (i = n /\ k = m /\ q = p)
<1> SUFFICES \E n, m : More(n, m)
  OBVIOUS
<1>1. /\ groups \in [Unit -> Seq(GroupRec)] /\ groupIndex \in Nat /\ v \in Unit
      /\ gs \in Seq(GroupRec) /\ Len(gs) \in Nat
  BY PointFacts DEF GroupsInv, TypeOK
<1>2. CASE \E n \in 1..Len(gs) : groups' = [groups EXCEPT ![v][n] = Joined(gs[n], p)]
  <2>1. PICK n \in 1..Len(gs) : groups' = [groups EXCEPT ![v][n] = Joined(gs[n], p)]
    BY <1>2
  <2> DEFINE pts == gs[n].points
  <2>2. groups'[v] = [gs EXCEPT ![n] = Joined(gs[n], p)]
    BY <1>1, <2>1
  <2>3. /\ Len(groups'[v]) = Len(gs)
        /\ \A i \in 1..Len(gs) : groups'[v][i] = IF i = n THEN Joined(gs[n], p) ELSE gs[i]
    BY <1>1, <2>1, <2>2
  <2>4. pts \in Seq(Points) /\ Joined(gs[n], p).points = Append(pts, p)
    <3>1. gs[n] \in GroupRec
      BY <1>1, <2>1
    <3> QED BY <3>1 DEF Joined, GroupRec
  <2>5. /\ Len(Append(pts, p)) = Len(pts) + 1 /\ Len(pts) \in Nat
        /\ \A k \in 1..(Len(pts) + 1) : Append(pts, p)[k] = IF k = Len(pts) + 1 THEN p ELSE pts[k]
    <3> HIDE DEF pts
    <3> QED BY <2>4
  <2>6. ASSUME NEW i, NEW k, NEW q
        PROVE  Place(groups'[v], i, k, q) <=> Place(gs, i, k, q) \/ (i = n /\ k = Len(pts) + 1 /\ q = p)
    <3>1. CASE i = n
      <4>1. Place(groups'[v], i, k, q) <=> k \in 1..(Len(pts) + 1) /\ Append(pts, p)[k] = q
        BY <3>1, <2>1, <2>3, <2>4, <2>5 DEF Place
      <4>2. Place(gs, i, k, q) <=> k \in 1..Len(pts) /\ pts[k] = q
        BY <3>1, <2>1 DEF Place
      <4>3. k \in 1..(Len(pts) + 1) <=> k \in 1..Len(pts) \/ k = Len(pts) + 1
        <5>1. Len(pts) \in Nat
          BY <2>5
        <5> HIDE DEF pts
        <5> QED BY <5>1
      <4>4. k \in 1..Len(pts) => k # Len(pts) + 1
        BY <2>5
      <4> HIDE DEF pts
      <4> QED BY <3>1, <4>1, <4>2, <4>3, <4>4, <2>5
    <3>2. CASE i # n
      BY <3>2, <2>3 DEF Place
    <3> QED BY <3>1, <3>2
  <2>7. More(n, Len(pts) + 1)
    BY <2>6
  <2> HIDE DEF More
  <2> QED BY <2>7
<1>3. CASE groups' = [groups EXCEPT ![v] = Append(gs, NewGroup(groupIndex, p))]
  <2> DEFINE new == NewGroup(groupIndex, p)
  <2>1. new \in GroupRec /\ new.points = <<p>>
    BY <1>1, NewGroupOK DEF NewGroup
  <2>2. groups'[v] = Append(gs, new)
    BY <1>1, <1>3
  <2>3. /\ Len(groups'[v]) = Len(gs) + 1
        /\ \A i \in 1..(Len(gs) + 1) : groups'[v][i] = IF i = Len(gs) + 1 THEN new ELSE gs[i]
    BY <1>1, <2>1, <2>2
  <2>4. ASSUME NEW i, NEW k, NEW q
        PROVE  Place(groups'[v], i, k, q) <=> Place(gs, i, k, q) \/ (i = Len(gs) + 1 /\ k = 1 /\ q = p)
    <3>1. CASE i = Len(gs) + 1
      <4>1. ~Place(gs, i, k, q)
        BY <3>1, <1>1 DEF Place
      <4>2. groups'[v][i].points = <<p>> /\ i \in 1..Len(groups'[v])
        BY <3>1, <2>1, <2>3, <1>1
      <4>3. Place(groups'[v], i, k, q) <=> k = 1 /\ q = p
        BY <4>2 DEF Place
      <4> QED BY <3>1, <4>1, <4>3
    <3>2. CASE i # Len(gs) + 1
      BY <3>2, <2>3, <1>1 DEF Place
    <3> QED BY <3>1, <3>2
  <2>5. More(Len(gs) + 1, 1)
    BY <2>4
  <2> HIDE DEF More
  <2> QED BY <2>5
<1> QED BY <1>2, <1>3 DEF createPointGroup

PlacesInv ==
    /\ GroupsInv
    /\ \A p \in added : \E i, k : Place(groups[unitOf[p.device]], i, k, p)
    /\ \A u \in Unit : \A i, k, j, l, q :
          Place(groups[u], i, k, q) /\ Place(groups[u], j, l, q) => i = j /\ k = l

LEMMA PlacesStep == PlacesInv /\ [Next]_vars => PlacesInv'
<1> SUFFICES ASSUME PlacesInv, [Next]_vars PROVE PlacesInv'
  OBVIOUS
<1>1. GroupsInv /\ GroupsInv'
  BY GroupsStep DEF PlacesInv
<1>2. ASSUME NEW p \in Points, createPointGroup(p) PROVE PlacesInv'
  <2> DEFINE v == unitOf[p.device]
  <2>1. PICK n, m : \A i, k, q :
           Place(groups'[v], i, k, q) <=> Place(groups[v], i, k, q) \/ (i = n /\ k = m /\ q = p)
    BY <1>1, <1>2, OnePlaceMore
  <2>2. p \notin added /\ added' = added \cup {p}
    BY <1>2 DEF createPointGroup
  <2>3. ~\E i, k : Place(groups[v], i, k, p)
    <3>1. v \in Unit
      BY PointFacts
    <3> QED BY <1>1, <2>2, <3>1 DEF GroupsInv, Place
  <2>4. ASSUME NEW u \in Unit, u # v PROVE groups'[u] = groups[u]
    BY <1>1, <1>2, <2>4 DEF createPointGroup, GroupsInv, TypeOK
  <2>5. ASSUME NEW r \in added' PROVE \E i, k : Place(groups'[unitOf[r.device]], i, k, r)
    <3>1. CASE r = p
      BY <3>1, <2>1
    <3>2. CASE r # p
      <4>1. r \in added /\ unitOf[r.device] \in Unit
        BY <3>2, <2>2, <1>1, PointFacts DEF GroupsInv, TypeOK
      <4>2. PICK i, k : Place(groups[unitOf[r.device]], i, k, r)
        BY <4>1 DEF PlacesInv
      <4>3. CASE unitOf[r.device] = v
        BY <4>2, <4>3, <2>1
      <4>4. CASE unitOf[r.device] # v
        BY <4>1, <4>2, <4>4, <2>4
      <4> QED BY <4>3, <4>4
    <3> QED BY <3>1, <3>2
  <2>6. ASSUME NEW u \in Unit, NEW i, NEW k, NEW j, NEW l, NEW q,
               Place(groups'[u], i, k, q), Place(groups'[u], j, l, q)
        PROVE  i = j /\ k = l
    <3>1. CASE u = v
      <4>1. CASE q = p
        BY <4>1, <3>1, <2>1, <2>3, <2>6
      <4>2. CASE q # p
        <5>1. Place(groups[u], i, k, q) /\ Place(groups[u], j, l, q)
          BY <4>2, <3>1, <2>1, <2>6
        <5> QED BY <5>1 DEF PlacesInv
      <4> QED BY <4>1, <4>2
    <3>2. CASE u # v
      BY <3>2, <2>4, <2>6 DEF PlacesInv
    <3> QED BY <3>1, <3>2
  <2> QED BY <1>1, <2>5, <2>6 DEF PlacesInv
<1>3. CASE UNCHANGED <<groups, added>>
  BY <1>1, <1>3 DEF PlacesInv
<1>4. \/ \E p \in Points : createPointGroup(p)
      \/ UNCHANGED <<groups, added>>
  BY DEF Next, Group, BeginDevice, StartCollecting, Collect, ReadRequest, BatchWrite, vars, grouping
<1> QED BY <1>2, <1>3, <1>4

\* Every point that is collected has exactly one place in the groups of its unit, whatever the
\* points and the order they come in (createPointGroup, connector.go:150-190).
THEOREM EveryPointIsCollectedOnce == Spec => []EveryPointHasItsGroup
<1>1. Init => PlacesInv
  <2> SUFFICES ASSUME Init PROVE PlacesInv
    OBVIOUS
  <2>1. GroupsInv /\ added = {}
    BY InitGroups DEF Init
  <2>2. \A u \in Unit : \A i, k, q : ~Place(groups[u], i, k, q)
    BY DEF Init, Place
  <2> QED BY <2>1, <2>2 DEF PlacesInv
<1>2. PlacesInv => EveryPointHasItsGroup
  <2> SUFFICES ASSUME PlacesInv PROVE EveryPointHasItsGroup
    OBVIOUS
  <2>1. ASSUME NEW p \in added
        PROVE  \E i \in 1..Len(groups[unitOf[p.device]]) :
               \E k \in 1..Len(groups[unitOf[p.device]][i].points) : groups[unitOf[p.device]][i].points[k] = p
    BY DEF PlacesInv, Place
  <2>2. ASSUME NEW u \in Unit, NEW i \in 1..Len(groups[u]), NEW j \in 1..Len(groups[u]),
               NEW k \in 1..Len(groups[u][i].points), NEW l \in 1..Len(groups[u][j].points),
               groups[u][i].points[k] = groups[u][j].points[l]
        PROVE  i = j /\ k = l
    <3>1. Place(groups[u], i, k, groups[u][i].points[k]) /\ Place(groups[u], j, l, groups[u][i].points[k])
      BY <2>2 DEF Place
    <3> QED BY <3>1 DEF PlacesInv
  <2> QED BY <2>1, <2>2 DEF EveryPointHasItsGroup
<1> QED BY <1>1, <1>2, PlacesStep, PTL DEF Spec

\* Every point is read once, by a read that covers it: in the groups of every configuration the
\* collection finds every point, and finds it whole (createPointGroup, connector.go:149-190).
THEOREM GroupsAreAlwaysRight == Spec => []GroupsAreRight
<1>1. GroupsSpanTheirPoints /\ EveryPointHasItsGroup => GroupsAreRight
  BY DEF GroupsAreRight
<1> QED BY <1>1, GroupsAreReadsOfTheirPoints, EveryPointIsCollectedOnce, PTL

-----------------------------------------------------------------------------
(* Induction and recursion *)

\* Induction over the steps of a computation: a set that has the first and with each the next.
LEMMA StepByStep ==
    ASSUME NEW N \in Nat, NEW S, 0 \in S, \A k \in 1..N : k - 1 \in S => k \in S
    PROVE  \A k \in 0..N : k \in S
<1> DEFINE T == {k \in 0..N : k \notin S}
           R == OpToRel(<, Nat)
<1>1. SUFFICES ASSUME T # {} PROVE FALSE
  OBVIOUS
<1>2. IsWellFoundedOn(OpToRel(<, Nat), Nat)
  BY NatLessThanWellFounded, Zenon
<1>3. T \subseteq Nat
  OBVIOUS
<1>4. \A x, y \in Nat : y < x => <<y, x>> \in R
  BY DEF OpToRel
<1> HIDE DEF R
<1>5. PICK m \in T : \A k \in T : <<k, m>> \notin R
  <2> HIDE DEF T
  <2> QED BY <1>1, <1>2, <1>3, WFMin, Zenon DEF R
<1>6. m \in 1..N /\ m - 1 \in 0..N
  BY <1>5
<1>7. m - 1 \in T
  BY <1>5, <1>6
<1>8. <<m - 1, m>> \in R
  BY <1>4, <1>6
<1> QED BY <1>5, <1>7, <1>8

\* A computation by steps has a result after each of them.
LEMMA Recursion ==
    ASSUME NEW X, NEW a \in X, NEW N \in Nat, NEW F \in [1..N -> [X -> X]]
    PROVE  \E f \in [0..N -> X] : f[0] = a /\ \A k \in 1..N : f[k] = F[k][f[k - 1]]
<1> DEFINE Computes(f, n) == f \in [0..n -> X] /\ f[0] = a /\ \A k \in 1..n : f[k] = F[k][f[k - 1]]
           S == {n \in 0..N : \E f : Computes(f, n)}
<1>1. 0 \in S
  <2>1. Computes([k \in 0..0 |-> a], 0)
    OBVIOUS
  <2>2. 0 \in 0..N
    OBVIOUS
  <2> HIDE DEF Computes
  <2> QED BY <2>1, <2>2
<1>2. ASSUME NEW n \in 1..N, n - 1 \in S PROVE n \in S
  <2>1. PICK f : Computes(f, n - 1)
    BY <1>2
  <2> DEFINE g == [k \in 0..n |-> IF k = n THEN F[n][f[n - 1]] ELSE f[k]]
  <2>2. f[n - 1] \in X /\ F[n] \in [X -> X]
    BY <2>1
  <2>3. F[n][f[n - 1]] \in X
    BY <2>2
  <2>4. g \in [0..n -> X]
    BY <2>1, <2>3
  <2>5. g[0] = a
    BY <2>1
  <2>6. \A k \in 1..n : g[k] = F[k][g[k - 1]]
    BY <2>1
  <2>7. Computes(g, n)
    BY <2>4, <2>5, <2>6
  <2> HIDE DEF Computes
  <2> QED BY <2>7
<1>3. N \in S
  <2>1. N \in 0..N
    OBVIOUS
  <2> HIDE DEF S
  <2>2. \A k \in 0..N : k \in S
    BY <1>1, <1>2, StepByStep
  <2> QED BY <2>1, <2>2
<1> QED BY <1>3

-----------------------------------------------------------------------------
(* Values and registers *)

\* Where a word of a value is among its registers, counted from the last.
Partner(p, i) == IF p.wordSwap /\ p.quantity > 1 THEN (IF i % 2 = 1 THEN i + 1 ELSE i - 1) ELSE i

\* The bytes of a word that a register holds.
Turned(p, w) == IF p.byteSwap /\ p.table \in Registers THEN Swap(w) ELSE w

\* Exchanging the bytes of a word twice changes nothing.
LEMMA SwapTwice == \A w \in Word : Swap(w) \in Word /\ Swap(Swap(w)) = w
BY DEF Swap, Word

\* Nor does turning a word twice.
LEMMA TurnedTwice == ASSUME NEW p, NEW w \in Word PROVE Turned(p, w) \in Word /\ Turned(p, Turned(p, w)) = w
BY SwapTwice DEF Turned

\* Changing places twice is changing nothing, and the registers of a point are its own.
LEMMA PartnerFacts ==
    ASSUME NEW p \in Points, NEW i \in 1..p.quantity
    PROVE  /\ Partner(p, i) \in 1..p.quantity
           /\ Partner(p, Partner(p, i)) = i
           /\ RegisterOf(p, i) = p.address + p.quantity - Partner(p, i)
           /\ RegisterOf(p, i) \in p.address..(p.address + p.quantity - 1)
<1>1. p.quantity \in {1, 2, 4} /\ p.address \in Nat
  BY PointsAssumption DEF PointRec, Quantity
<1>2. i \in {1, 2, 3, 4}
  BY <1>1
<1>3. Partner(p, i) \in 1..p.quantity /\ Partner(p, Partner(p, i)) = i
  BY <1>1, <1>2 DEF Partner
<1>4. RegisterOf(p, i) = p.address + p.quantity - Partner(p, i)
  BY DEF RegisterOf, Partner
<1> QED BY <1>1, <1>3, <1>4

\* Changing the places of the words of a value is what Partner says, and changing them twice nothing.
LEMMA SwapWordsIs ==
    ASSUME NEW p \in Points, p.wordSwap, NEW v \in [1..p.quantity -> Word]
    PROVE  SwapWords(v) = [i \in 1..p.quantity |-> v[Partner(p, i)]]
<1>1. p.quantity \in {1, 2, 4}
  BY PointsAssumption DEF PointRec, Quantity
<1>2. v \in Seq(Word) /\ Len(v) = p.quantity
  BY <1>1
<1>3. v = [i \in 1..p.quantity |-> v[i]]
  OBVIOUS
<1>4. CASE p.quantity = 1
  BY <1>2, <1>3, <1>4 DEF SwapWords, Partner
<1>5. CASE p.quantity > 1
  BY <1>1, <1>2, <1>5 DEF SwapWords, Partner
<1> QED BY <1>1, <1>4, <1>5

\* The words of a value that was read.
LEMMA OrderedIs ==
    ASSUME NEW p \in Points, NEW regs \in [1..p.quantity -> Word]
    PROVE  Ordered(p, regs) = [i \in 1..p.quantity |-> Turned(p, regs[Partner(p, i)])]
<1>1. p.quantity \in {1, 2, 4} /\ p.byteSwap \in BOOLEAN /\ p.wordSwap \in BOOLEAN
  BY PointsAssumption DEF PointRec, Quantity
<1>2. regs \in Seq(Word) /\ Len(regs) = p.quantity
  BY <1>1
<1>3. regs = [i \in 1..p.quantity |-> regs[i]]
  OBVIOUS
<1>4. CASE p.table \notin Registers
  <2>1. p.quantity = 1 /\ \A i \in 1..p.quantity : Partner(p, i) = i
    BY <1>4, PointsAssumption DEF Partner
  <2> QED BY <2>1, <1>3, <1>4 DEF Ordered, Turned
<1>5. CASE p.table \in Registers
  <2> DEFINE bytes == IF p.byteSwap THEN [i \in 1..Len(regs) |-> Swap(regs[i])] ELSE regs
  <2>1. bytes = [i \in 1..p.quantity |-> Turned(p, regs[i])]
    BY <1>2, <1>3, <1>5 DEF Turned
  <2>2. bytes \in [1..p.quantity -> Word]
    <3>1. \A i \in 1..p.quantity : Turned(p, regs[i]) \in Word
      BY TurnedTwice
    <3> HIDE DEF bytes
    <3> QED BY <2>1, <3>1
  <2>3. Ordered(p, regs) = IF p.wordSwap THEN SwapWords(bytes) ELSE bytes
    BY <1>5 DEF Ordered
  <2> HIDE DEF bytes
  <2>4. CASE p.wordSwap
    <3>1. Ordered(p, regs) = [i \in 1..p.quantity |-> bytes[Partner(p, i)]]
      BY <2>2, <2>3, <2>4, SwapWordsIs
    <3>2. \A i \in 1..p.quantity : bytes[Partner(p, i)] = Turned(p, regs[Partner(p, i)])
      BY <2>1, PartnerFacts
    <3> QED BY <3>1, <3>2
  <2>5. CASE ~p.wordSwap
    <3>1. \A i \in 1..p.quantity : Partner(p, i) = i
      BY <2>5 DEF Partner
    <3> QED BY <3>1, <2>1, <2>3, <2>5
  <2> QED BY <1>1, <2>4, <2>5
<1> QED BY <1>4, <1>5

\* What is written of a value is what would be read back as it, except for byteSwap in values of
\* several registers.
LEMMA EncodeIs ==
    ASSUME NEW p \in Points
    PROVE  /\ Encode(p, valueOf[p]) \in [1..p.quantity -> Word]
           /\ ~(p.byteSwap /\ p.quantity > 1) =>
                 \A i \in 1..p.quantity :
                    Turned(p, Encode(p, valueOf[p])[p.quantity + 1 - Partner(p, i)]) = valueOf[p][i]
<1> DEFINE v == valueOf[p]
           q == p.quantity
<1>1. q \in {1, 2, 4} /\ p.byteSwap \in BOOLEAN /\ p.wordSwap \in BOOLEAN
  BY PointsAssumption DEF PointRec, Quantity
<1>2. v \in [1..q -> Word] /\ v \in Seq(Word) /\ Len(v) = q
  BY <1>1, ValuesAssumption
<1> HIDE DEF v
<1>4. CASE p.table \notin Registers
  <2>1. q = 1 /\ \A i \in 1..q : Partner(p, i) = i
    BY <1>4, PointsAssumption DEF Partner
  <2>2. Encode(p, v) = v /\ \A w : Turned(p, w) = w
    BY <1>4 DEF Encode, Turned
  <2> QED BY <2>1, <2>2, <1>2 DEF v
<1>5. CASE p.table \in Registers
  <2> DEFINE out == IF p.byteSwap THEN [i \in 1..Len(v) |-> Swap(v[Len(v) + 1 - i])] ELSE v
             sw == IF p.wordSwap THEN SwapWords(out) ELSE out
  <2>1. out \in [1..q -> Word] /\ out \in Seq(Word) /\ Len(out) = q
    <3>1. out \in [1..q -> Word]
      <4>1. \A i \in 1..q : q + 1 - i \in 1..q
        BY <1>1
      <4> QED BY <4>1, <1>2, SwapTwice
    <3> HIDE DEF out
    <3> QED BY <1>1, <3>1
  <2>2. ~(p.byteSwap /\ q > 1) => out = [i \in 1..q |-> Turned(p, v[i])]
    BY <1>1, <1>2, <1>5 DEF Turned
  <2>3. Encode(p, v) = Backwards(sw)
    BY <1>5 DEF Encode
  <2> HIDE DEF out
  <2>4. sw = [i \in 1..q |-> out[Partner(p, i)]]
    <3>1. CASE p.wordSwap
      BY <2>1, <3>1, SwapWordsIs
    <3>2. CASE ~p.wordSwap
      <4>1. \A i \in 1..q : Partner(p, i) = i
        BY <3>2 DEF Partner
      <4> QED BY <4>1, <3>2, <2>1
    <3> QED BY <1>1, <3>1, <3>2
  <2>5. sw \in [1..q -> Word] /\ Len(sw) = q
    <3>1. sw \in [1..q -> Word]
      BY <2>1, <2>4, PartnerFacts
    <3> HIDE DEF sw
    <3> QED BY <1>1, <3>1
  <2> HIDE DEF sw
  <2>6. Encode(p, v) = [i \in 1..q |-> sw[q + 1 - i]]
    BY <2>3, <2>5 DEF Backwards
  <2>7. Encode(p, v) \in [1..q -> Word]
    <3>1. \A i \in 1..q : q + 1 - i \in 1..q
      BY <1>1
    <3> QED BY <2>5, <2>6, <3>1
  <2>8. ASSUME ~(p.byteSwap /\ q > 1), NEW i \in 1..q
        PROVE  Turned(p, Encode(p, v)[q + 1 - Partner(p, i)]) = v[i]
    <3>1. Partner(p, i) \in 1..q /\ Partner(p, Partner(p, i)) = i
      BY PartnerFacts
    <3>2. q + 1 - Partner(p, i) \in 1..q /\ q + 1 - (q + 1 - Partner(p, i)) = Partner(p, i)
      BY <1>1, <3>1
    <3>3. Encode(p, v)[q + 1 - Partner(p, i)] = sw[Partner(p, i)]
      BY <2>6, <3>2
    <3>4. sw[Partner(p, i)] = out[i]
      BY <2>4, <3>1
    <3>5. out[i] = Turned(p, v[i])
      BY <2>2, <2>8
    <3> QED BY <3>3, <3>4, <3>5, <1>2, TurnedTwice
  <2> QED BY <2>7, <2>8 DEF v
<1> QED BY <1>4, <1>5

-----------------------------------------------------------------------------
(* Reading *)

MemoryOK == memory \in [Unit -> [Table -> [0..(Space - 1) -> Word]]]

\* Where the registers of the point in place k begin, among those that were read.
Offset(g, k) == g.points[k].address - g.address

\* The point in place k, cut out of registers.
Cut(g, k, regs) == SubSeq(regs, Offset(g, k) + 1, Offset(g, k) + g.points[k].quantity)

\* A point that lies in a read is cut out of it.
LEMMA OffsetFacts ==
    ASSUME NEW g \in GroupRec, Spans(g), NEW k \in 1..Len(g.points)
    PROVE  /\ g.points[k] \in Points /\ g.quantity \in Nat /\ g.address \in Nat
           /\ g.points[k].quantity \in 1..4 /\ Offset(g, k) \in Nat
           /\ Offset(g, k) + g.points[k].quantity <= g.quantity
           /\ g.points[k].address = g.address + Offset(g, k)
<1>1. g.points \in Seq(Points) /\ g.quantity \in Nat /\ g.address \in Nat
  BY LengthsAssumption, SpaceAssumption DEF GroupRec, Higher
<1>2. g.points[k] \in Points
  BY <1>1
<1>3. g.points[k].address \in Nat /\ g.points[k].quantity \in 1..4
  BY <1>2, PointFacts, SpaceAssumption
<1>4. /\ g.address <= g.points[k].address
      /\ g.points[k].address + g.points[k].quantity <= g.address + g.quantity
  BY DEF Spans
<1>5. Offset(g, k) = g.points[k].address - g.address
  BY DEF Offset
<1>6. Offset(g, k) \in Nat /\ g.points[k].address = g.address + Offset(g, k)
  BY <1>1, <1>3, <1>4, <1>5
<1>7. Offset(g, k) + g.points[k].quantity <= g.quantity
  <2>1. g.points[k].quantity \in Nat
    BY <1>3
  <2> QED BY <1>1, <1>4, <1>6, <2>1
<1> QED BY <1>1, <1>2, <1>3, <1>6, <1>7

\* A read returns words.
LEMMA ReadType ==
    ASSUME MemoryOK, NEW u \in Unit, NEW g \in GroupRec, g.address + g.quantity <= Space
    PROVE  Read(u, g) \in [1..g.quantity -> Word]
<1>1. g.quantity \in Nat /\ g.address \in Nat /\ g.table \in Table
  BY LengthsAssumption, SpaceAssumption DEF GroupRec, Higher
<1>2. \A i \in 1..g.quantity : g.address + i - 1 \in 0..(Space - 1)
  BY <1>1, SpaceAssumption
<1>3. \A a \in 0..(Space - 1) : memory[u][g.table][a] \in Word
  <2>1. memory[u] \in [Table -> [0..(Space - 1) -> Word]]
    BY DEF MemoryOK
  <2>2. memory[u][g.table] \in [0..(Space - 1) -> Word]
    BY <1>1, <2>1
  <2> QED BY <2>2
<1> QED BY <1>2, <1>3 DEF Read

\* Turning registers around keeps what it does not turn around.
LEMMA ReverseFacts ==
    ASSUME NEW n \in Nat, NEW regs \in [1..n -> Word],
           NEW first \in Nat, NEW q \in Nat, first + q <= n
    PROVE  /\ ReverseIn(regs, first, q) \in [1..n -> Word]
           /\ \A i \in 1..n : ReverseIn(regs, first, q)[i] =
                 IF i > first /\ i <= first + q THEN regs[2 * first + q + 1 - i] ELSE regs[i]
<1>1. regs \in Seq(Word) /\ Len(regs) = n
  OBVIOUS
<1>2. \A i \in 1..n : i > first /\ i <= first + q => 2 * first + q + 1 - i \in 1..n
  OBVIOUS
<1> QED BY <1>1, <1>2 DEF ReverseIn

\* The values of a group come out of its registers one after the other, each from what those
\* before it have left.
LEMMA ValuesAreComputed ==
    ASSUME MemoryOK, NEW u \in Unit, NEW g \in GroupRec, g.address + g.quantity <= Space, Spans(g)
    PROVE  \E after \in [0..Len(g.points) -> [1..g.quantity -> Word]] :
              /\ after[0] = Read(u, g)
              /\ \A k \in 1..Len(g.points) :
                    after[k] = ReverseIn(after[k - 1], Offset(g, k), g.points[k].quantity)
              /\ Values(u, g) = [k \in 1..Len(g.points) |-> Decode(g.points[k], Cut(g, k, after[k]))]
<1> DEFINE N == Len(g.points)
           X == [1..g.quantity -> Word]
           F == [k \in 1..N |-> [regs \in X |-> ReverseIn(regs, Offset(g, k), g.points[k].quantity)]]
           Steps(f) == [k \in 0..N |-> IF k = 0 THEN Read(u, g)
                                       ELSE ReverseIn(f[k - 1], Offset(g, k), g.points[k].quantity)]
           h == CHOOSE f : f = Steps(f)
<1>1. N \in Nat
  BY DEF GroupRec
<1>2. Read(u, g) \in X
  BY ReadType
<1>3. \A k \in 1..N : \A regs \in X : ReverseIn(regs, Offset(g, k), g.points[k].quantity) \in X
  <2> TAKE k \in 1..N
  <2> TAKE regs \in X
  <2>1. /\ g.points[k].quantity \in Nat /\ Offset(g, k) \in Nat /\ g.quantity \in Nat
        /\ Offset(g, k) + g.points[k].quantity <= g.quantity
    <3>1. /\ g.points[k].quantity \in 1..4 /\ Offset(g, k) \in Nat /\ g.quantity \in Nat
          /\ Offset(g, k) + g.points[k].quantity <= g.quantity
      BY OffsetFacts
    <3> QED BY <3>1
  <2> QED BY <2>1, ReverseFacts
<1>4. F \in [1..N -> [X -> X]]
  BY <1>3
<1>5. PICK f \in [0..N -> X] : f[0] = Read(u, g) /\ \A k \in 1..N : f[k] = F[k][f[k - 1]]
  <2> HIDE DEF F, X, N
  <2> DEFINE a == Read(u, g)
  <2> HIDE DEF a
  <2>1. a \in X /\ N \in Nat /\ F \in [1..N -> [X -> X]]
    BY <1>1, <1>2, <1>4 DEF a
  <2> HIDE DEF Steps, h
  <2>2. \E f \in [0..N -> X] : f[0] = a /\ \A k \in 1..N : f[k] = F[k][f[k - 1]]
    BY <2>1, Recursion, SMTT(60)
  <2> QED BY <2>2 DEF a
<1>6. \A k \in 1..N : f[k] = ReverseIn(f[k - 1], Offset(g, k), g.points[k].quantity)
  <2> TAKE k \in 1..N
  <2>1. f[k - 1] \in X
    BY <1>1
  <2> HIDE DEF X
  <2> QED BY <1>5, <2>1
<1>7. f = Steps(f)
  BY <1>1, <1>5, <1>6
<1>8. h = Steps(h)
  <2> HIDE DEF Steps
  <2> QED BY <1>7, Zenon
<1>9. h[0] = Read(u, g) /\ \A k \in 1..N : h[k] = ReverseIn(h[k - 1], Offset(g, k), g.points[k].quantity)
  <2> HIDE DEF h
  <2> QED BY <1>1, <1>8
<1>10. h \in [0..N -> X]
  <2>1. \A k \in 0..N : k \in {j \in 0..N : h[j] \in X}
    <3> DEFINE S == {j \in 0..N : h[j] \in X}
    <3>1. 0 \in S
      <4>1. 0 \in 0..N /\ h[0] \in X
        <5> HIDE DEF h, X
        <5> QED BY <1>1, <1>2, <1>9
      <4> HIDE DEF h, X
      <4> QED BY <4>1
    <3>2. ASSUME NEW k \in 1..N, k - 1 \in S PROVE k \in S
      <4> HIDE DEF h, X
      <4>1. h[k - 1] \in X /\ k \in 0..N
        BY <1>1, <3>2
      <4>2. h[k] \in X
        BY <1>3, <1>9, <4>1
      <4> QED BY <4>1, <4>2
    <3> HIDE DEF S, h
    <3>3. \A k \in 0..N : k \in S
      BY <1>1, <3>1, <3>2, StepByStep
    <3> QED BY <3>3 DEF S
  <2>2. h = [k \in 0..N |-> h[k]]
    <3> HIDE DEF h
    <3> QED BY <1>8
  <2> HIDE DEF h, X
  <2> QED BY <2>1, <2>2
<1>11. Values(u, g) = [k \in 1..N |-> Decode(g.points[k], Cut(g, k, h[k]))]
  BY Zenon DEF Values, Offset, Cut
<1> HIDE DEF h, X
<1> QED BY <1>9, <1>10, <1>11 DEF X

-----------------------------------------------------------------------------
(* Whose the groups are *)

\* A group belongs to the device that began it, and holds points of its unit and table.
Owner(g) == g.points[1].device
HomeOf(g, u) == \A k \in 1..Len(g.points) : unitOf[g.points[k].device] = u /\ g.points[k].table = g.table

\* Groups that one device began have different indexes, and its next one will have another.
IndexesDiffer(gs, d, n) ==
    /\ \A i \in 1..Len(gs) : Owner(gs[i]) = d => gs[i].index < n
    /\ \A i, j \in 1..Len(gs) : Owner(gs[i]) = Owner(gs[j]) /\ gs[i].index = gs[j].index => i = j

\* The groups of a unit are of its own devices, each with its own indexes.
OwnersInv ==
    /\ PlacesInv
    /\ IsFiniteSet(added)
    /\ \A p, q \in added : p.device = q.device /\ p.name = q.name => p = q
    /\ \A u \in Unit : /\ IndexesDiffer(groups[u], building, groupIndex)
                       /\ \A i \in 1..Len(groups[u]) : HomeOf(groups[u][i], u)

\* What the grouping keeps of every group.
LEMMA GroupFacts ==
    ASSUME GroupsInv, NEW u \in Unit, NEW i \in 1..Len(groups[u])
    PROVE  /\ groups[u][i] \in GroupRec /\ GroupOK(groups[u][i])
           /\ groups[u][i].points \in Seq(Points) /\ Len(groups[u][i].points) \in Nat
           /\ 1 \in 1..Len(groups[u][i].points)
           /\ \A k \in 1..Len(groups[u][i].points) : groups[u][i].points[k] \in added
           /\ groups[u][i].index \in Nat
<1> DEFINE g == groups[u][i]
<1>1. g \in GroupRec /\ GroupOK(g) /\ \A k \in 1..Len(g.points) : g.points[k] \in added
  <2>1. groups[u] \in Seq(GroupRec)
    BY DEF GroupsInv, TypeOK
  <2>2. groups[u][i] \in GroupRec
    BY <2>1
  <2> QED BY <2>2 DEF GroupsInv
<1> HIDE DEF g
<1>2. g.points \in Seq(Points) /\ g.index \in Nat
  BY <1>1 DEF GroupRec
<1>3. Len(g.points) \in Nat /\ Len(g.points) > 0
  BY <1>1, <1>2 DEF GroupOK
<1> QED BY <1>1, <1>2, <1>3 DEF g

\* Joining keeps a group's owner, index and home.
LEMMA JoinedHome ==
    ASSUME NEW g \in GroupRec, NEW p \in Points, Len(g.points) > 0, Fits(g, p), NEW u,
           unitOf[p.device] = u, HomeOf(g, u)
    PROVE  /\ HomeOf(Joined(g, p), u)
           /\ Owner(Joined(g, p)) = Owner(g) /\ Joined(g, p).index = g.index
<1> DEFINE new == Joined(g, p)
           pts == g.points
<1>1. pts \in Seq(Points) /\ Len(pts) \in Nat
  BY DEF GroupRec
<1>2. new.points = Append(pts, p) /\ new.index = g.index /\ new.table = g.table
  BY DEF Joined, GroupRec
<1>3. p.table = g.table
  BY DEF Fits
<1> HIDE DEF new, pts
<1>4. /\ Len(new.points) = Len(pts) + 1 /\ new.points[Len(pts) + 1] = p
      /\ \A k \in 1..Len(pts) : new.points[k] = pts[k]
  BY <1>1, <1>2
<1>5. Owner(new) = Owner(g)
  <2>1. 1 \in 1..Len(pts)
    BY <1>1 DEF pts
  <2> QED BY <1>4, <2>1 DEF Owner, pts
<1>6. ASSUME NEW k \in 1..Len(new.points)
      PROVE  unitOf[new.points[k].device] = u /\ new.points[k].table = new.table
  <2>1. CASE k = Len(pts) + 1
    BY <1>2, <1>3, <1>4, <2>1
  <2>2. CASE k \in 1..Len(pts)
    BY <1>2, <1>4, <2>2 DEF HomeOf, pts
  <2> QED BY <1>1, <1>4, <2>1, <2>2
<1> QED BY <1>2, <1>5, <1>6 DEF HomeOf, new

\* A point either joins one group or begins one at the end.
LEMMA GroupsAfter ==
    ASSUME GroupsInv, NEW p \in Points, createPointGroup(p)
    PROVE  LET gs == groups[unitOf[p.device]]  hs == groups'[unitOf[p.device]]
           IN  /\ \A u \in Unit : u # unitOf[p.device] => groups'[u] = groups[u]
               /\ \/ \E n \in 1..Len(gs) :
                        /\ Fits(gs[n], p) /\ Len(hs) = Len(gs) /\ groupIndex' = groupIndex
                        /\ \A i \in 1..Len(gs) : hs[i] = IF i = n THEN Joined(gs[n], p) ELSE gs[i]
                  \/ /\ Len(hs) = Len(gs) + 1 /\ groupIndex' = groupIndex + 1
                     /\ \A i \in 1..(Len(gs) + 1) :
                           hs[i] = IF i = Len(gs) + 1 THEN NewGroup(groupIndex, p) ELSE gs[i]
<1> DEFINE v == unitOf[p.device]
           gs == groups[v]
<1>1. /\ groups \in [Unit -> Seq(GroupRec)] /\ groupIndex \in Nat /\ v \in Unit
      /\ gs \in Seq(GroupRec) /\ Len(gs) \in Nat
  BY PointFacts DEF GroupsInv, TypeOK
<1>2. \A u \in Unit : u # v => groups'[u] = groups[u]
  BY <1>1 DEF createPointGroup
<1>3. CASE \E n \in 1..Len(gs) : /\ Fits(gs[n], p) /\ groupIndex' = groupIndex
                                 /\ groups' = [groups EXCEPT ![v][n] = Joined(gs[n], p)]
  <2>1. PICK n \in 1..Len(gs) : /\ Fits(gs[n], p) /\ groupIndex' = groupIndex
                                /\ groups' = [groups EXCEPT ![v][n] = Joined(gs[n], p)]
    BY <1>3
  <2>2. groups'[v] = [gs EXCEPT ![n] = Joined(gs[n], p)]
    BY <1>1, <2>1
  <2>3. /\ Len(groups'[v]) = Len(gs)
        /\ \A i \in 1..Len(gs) : groups'[v][i] = IF i = n THEN Joined(gs[n], p) ELSE gs[i]
    BY <1>1, <2>1, <2>2
  <2> QED BY <1>2, <2>1, <2>3
<1>4. CASE /\ groups' = [groups EXCEPT ![v] = Append(gs, NewGroup(groupIndex, p))]
           /\ groupIndex' = groupIndex + 1
  <2> DEFINE new == NewGroup(groupIndex, p)
  <2>1. new \in GroupRec
    BY <1>1, NewGroupOK
  <2>2. groups'[v] = Append(gs, new)
    BY <1>1, <1>4
  <2>3. /\ Len(groups'[v]) = Len(gs) + 1
        /\ \A i \in 1..(Len(gs) + 1) : groups'[v][i] = IF i = Len(gs) + 1 THEN new ELSE gs[i]
    BY <1>1, <2>1, <2>2
  <2> QED BY <1>2, <1>4, <2>3
<1> QED BY <1>3, <1>4 DEF createPointGroup

\* A point that is added keeps all that.
LEMMA OwnersOfAdded ==
    ASSUME OwnersInv, NEW p \in Points, createPointGroup(p), NEW u \in Unit
    PROVE  /\ IndexesDiffer(groups'[u], building', groupIndex')
           /\ \A i \in 1..Len(groups'[u]) : HomeOf(groups'[u][i], u)
<1> DEFINE v == unitOf[p.device]
           gs == groups[v]
           hs == groups'[v]
<1>1. GroupsInv /\ building' = building /\ building = p.device /\ v \in Unit
  BY PointFacts DEF OwnersInv, PlacesInv, createPointGroup
<1>2. groupIndex \in Nat /\ Len(gs) \in Nat
  BY <1>1 DEF GroupsInv, TypeOK
<1>3. /\ IndexesDiffer(gs, p.device, groupIndex)
      /\ \A i \in 1..Len(gs) : /\ HomeOf(gs[i], v) /\ gs[i] \in GroupRec
                              /\ Len(gs[i].points) > 0 /\ gs[i].index \in Nat
  <2>1. IndexesDiffer(gs, p.device, groupIndex) /\ \A i \in 1..Len(gs) : HomeOf(gs[i], v)
    BY <1>1 DEF OwnersInv
  <2>2. \A i \in 1..Len(gs) : gs[i] \in GroupRec /\ Len(gs[i].points) > 0 /\ gs[i].index \in Nat
    <3> TAKE i \in 1..Len(gs)
    <3>1. gs[i] \in GroupRec /\ 1 \in 1..Len(gs[i].points) /\ Len(gs[i].points) \in Nat /\ gs[i].index \in Nat
      BY <1>1, GroupFacts
    <3> HIDE DEF gs
    <3> QED BY <3>1
  <2> QED BY <2>1, <2>2
<1>4. /\ u # v => groups'[u] = groups[u]
      /\ \/ \E n \in 1..Len(gs) :
               /\ Fits(gs[n], p) /\ Len(hs) = Len(gs) /\ groupIndex' = groupIndex
               /\ \A i \in 1..Len(gs) : hs[i] = IF i = n THEN Joined(gs[n], p) ELSE gs[i]
         \/ /\ Len(hs) = Len(gs) + 1 /\ groupIndex' = groupIndex + 1
            /\ \A i \in 1..(Len(gs) + 1) :
                  hs[i] = IF i = Len(gs) + 1 THEN NewGroup(groupIndex, p) ELSE gs[i]
  BY <1>1, GroupsAfter
<1>5. CASE u # v
  <2>1. /\ IndexesDiffer(groups[u], building, groupIndex)
        /\ \A i \in 1..Len(groups[u]) : HomeOf(groups[u][i], u)
    BY DEF OwnersInv
  <2>2. ASSUME NEW i \in 1..Len(groups[u]) PROVE Owner(groups[u][i]) # p.device
    <3>1. 1 \in 1..Len(groups[u][i].points)
      BY <1>1, GroupFacts
    <3>2. unitOf[Owner(groups[u][i])] = u
      BY <2>1, <3>1 DEF HomeOf, Owner
    <3> QED BY <1>5, <3>2
  <2> QED BY <1>1, <1>4, <1>5, <2>1, <2>2 DEF IndexesDiffer
<1>6. CASE u = v
  <2> HIDE DEF v, gs, hs
  <2>1. CASE \E n \in 1..Len(gs) :
               /\ Fits(gs[n], p) /\ Len(hs) = Len(gs) /\ groupIndex' = groupIndex
               /\ \A i \in 1..Len(gs) : hs[i] = IF i = n THEN Joined(gs[n], p) ELSE gs[i]
    <3>1. PICK n \in 1..Len(gs) :
               /\ Fits(gs[n], p) /\ Len(hs) = Len(gs) /\ groupIndex' = groupIndex
               /\ \A i \in 1..Len(gs) : hs[i] = IF i = n THEN Joined(gs[n], p) ELSE gs[i]
      BY <2>1
    <3>2. /\ HomeOf(Joined(gs[n], p), v)
          /\ Owner(Joined(gs[n], p)) = Owner(gs[n]) /\ Joined(gs[n], p).index = gs[n].index
      BY <1>3, <3>1, JoinedHome DEF v
    <3>3. \A i \in 1..Len(hs) : HomeOf(hs[i], v) /\ Owner(hs[i]) = Owner(gs[i]) /\ hs[i].index = gs[i].index
      BY <1>3, <3>1, <3>2
    <3>4. IndexesDiffer(hs, p.device, groupIndex')
      BY <1>3, <3>1, <3>3 DEF IndexesDiffer
    <3> QED BY <1>1, <1>6, <3>3, <3>4 DEF v, hs
  <2>2. CASE /\ Len(hs) = Len(gs) + 1 /\ groupIndex' = groupIndex + 1
             /\ \A i \in 1..(Len(gs) + 1) :
                   hs[i] = IF i = Len(gs) + 1 THEN NewGroup(groupIndex, p) ELSE gs[i]
    <3> DEFINE new == NewGroup(groupIndex, p)
               m == Len(gs) + 1
    <3>1. /\ new.points = <<p>> /\ new.index = groupIndex /\ new.table = p.table /\ Owner(new) = p.device
      BY DEF NewGroup, Owner
    <3>2. HomeOf(new, v)
      BY <3>1 DEF HomeOf, v
    <3>3. hs[m] = new /\ (\A i \in 1..Len(gs) : hs[i] = gs[i])
      BY <1>2, <2>2
    <3>4. \A i \in 1..Len(hs) : i = m \/ i \in 1..Len(gs)
      BY <1>2, <2>2
    <3> HIDE DEF new, m
    <3>5. \A i \in 1..Len(hs) : HomeOf(hs[i], v)
      BY <1>3, <3>2, <3>3, <3>4
    <3>6. \A i \in 1..Len(gs) : Owner(gs[i]) = p.device => gs[i].index < groupIndex /\ gs[i].index \in Nat
      BY <1>3 DEF IndexesDiffer
    <3>7. \A i \in 1..Len(hs) : Owner(hs[i]) = p.device => hs[i].index < groupIndex'
      <4> TAKE i \in 1..Len(hs)
      <4>1. CASE i = m
        BY <1>2, <2>2, <3>1, <3>3, <4>1
      <4>2. CASE i \in 1..Len(gs)
        BY <1>2, <2>2, <3>3, <3>6, <4>2
      <4> QED BY <3>4, <4>1, <4>2
    <3>8. ASSUME NEW i \in 1..Len(hs), NEW j \in 1..Len(hs),
                 Owner(hs[i]) = Owner(hs[j]), hs[i].index = hs[j].index
          PROVE  i = j
      <4>1. ~(i = m /\ j \in 1..Len(gs))
        BY <1>2, <3>1, <3>3, <3>6, <3>8
      <4>2. ~(j = m /\ i \in 1..Len(gs))
        BY <1>2, <3>1, <3>3, <3>6, <3>8
      <4>3. CASE i \in 1..Len(gs) /\ j \in 1..Len(gs)
        BY <1>3, <3>3, <3>8, <4>3 DEF IndexesDiffer
      <4> QED BY <3>4, <4>1, <4>2, <4>3
    <3>9. IndexesDiffer(hs, p.device, groupIndex')
      BY <3>7, <3>8 DEF IndexesDiffer
    <3> QED BY <1>1, <1>6, <3>5, <3>9 DEF v, hs
  <2> QED BY <1>4, <2>1, <2>2
<1> QED BY <1>5, <1>6

\* The groups stay those of the devices that began them.
LEMMA OwnersStep == OwnersInv /\ [Next]_vars => OwnersInv'
<1> SUFFICES ASSUME OwnersInv, [Next]_vars PROVE OwnersInv'
  OBVIOUS
<1>1. PlacesInv' /\ GroupsInv /\ added \subseteq Points
  BY PlacesStep DEF OwnersInv, PlacesInv, GroupsInv, TypeOK
<1>2. ASSUME NEW p \in Points, createPointGroup(p) PROVE OwnersInv'
  <2>1. added' = added \cup {p} /\ \A q \in added : q.device = p.device => q.name # p.name
    BY <1>2 DEF createPointGroup
  <2>2. IsFiniteSet(added')
    BY <2>1, FS_AddElement DEF OwnersInv
  <2>3. \A a, b \in added' : a.device = b.device /\ a.name = b.name => a = b
    BY <2>1 DEF OwnersInv
  <2> QED BY <1>1, <1>2, <2>2, <2>3, OwnersOfAdded DEF OwnersInv
<1>3. \A u \in Unit : \A i \in 1..Len(groups[u]) : \E p \in added : Owner(groups[u][i]) = p.device
  BY <1>1, GroupFacts DEF Owner
<1>4. ASSUME UNCHANGED <<added, groups>>, \A p \in added : p.device # building' PROVE OwnersInv'
  BY <1>1, <1>3, <1>4 DEF OwnersInv, IndexesDiffer
<1>5. ASSUME NEW d \in Device, BeginDevice(d) PROVE OwnersInv'
  BY <1>4, <1>5 DEF BeginDevice
<1>6. CASE StartCollecting
  BY <1>1, <1>4, <1>6, PointFacts, UnitsAssumption DEF StartCollecting
<1>7. CASE UNCHANGED grouping
  BY <1>1, <1>7 DEF grouping, OwnersInv
<1>8. \/ \E p \in Points : createPointGroup(p)
      \/ \E d \in Device : BeginDevice(d)
      \/ StartCollecting
      \/ UNCHANGED grouping
  BY DEF Next, Group, Collect, ReadRequest, BatchWrite, vars
<1> QED BY <1>2, <1>5, <1>6, <1>7, <1>8

-----------------------------------------------------------------------------
(* What a read tells *)

\* The registers of a point are cut out in reverse, unless another point has turned some around.
LEMMA CutFacts ==
    ASSUME NEW g \in GroupRec, Spans(g), NEW k \in 1..Len(g.points), NEW regs \in [1..g.quantity -> Word]
    PROVE  /\ Cut(g, k, regs) \in [1..g.points[k].quantity -> Word]
           /\ \A i \in 1..g.points[k].quantity : Cut(g, k, regs)[i] = regs[Offset(g, k) + i]
<1> DEFINE q == g.points[k].quantity
           o == Offset(g, k)
           c == SubSeq(regs, o + 1, o + q)
<1>1. q \in 1..4 /\ o \in Nat /\ o + q <= g.quantity /\ g.quantity \in Nat
  BY OffsetFacts
<1> HIDE DEF q, o
<1>2. o + 1 \in Int /\ o + q \in Int /\ \A i \in (o + 1)..(o + q) : regs[i] \in Word
  BY <1>1
<1>3. /\ c \in Seq(Word) /\ Len(c) = IF o + 1 <= o + q THEN (o + q) - (o + 1) + 1 ELSE 0
      /\ \A i \in 1..((o + q) - (o + 1) + 1) : c[i] = regs[(o + 1) + i - 1]
  BY <1>2, SubSeqProperties
<1> HIDE DEF c
<1>4. Len(c) = q /\ \A i \in 1..q : c[i] = regs[o + i]
  BY <1>1, <1>3
<1>5. c \in [1..q -> Word]
  BY <1>3, <1>4
<1>6. Cut(g, k, regs) = c
  BY DEF Cut, c, o, q
<1> QED BY <1>4, <1>5, <1>6 DEF o, q

\* Something is told of a point.
LEMMA ValuesType ==
    ASSUME MemoryOK, NEW u \in Unit, NEW g \in GroupRec, g.address + g.quantity <= Space, Spans(g),
           NEW k \in 1..Len(g.points)
    PROVE  Values(u, g)[k] # NoValue
<1>1. PICK after \in [0..Len(g.points) -> [1..g.quantity -> Word]] :
          Values(u, g) = [j \in 1..Len(g.points) |-> Decode(g.points[j], Cut(g, j, after[j]))]
  BY ValuesAreComputed
<1>2. g.points[k] \in Points /\ g.points[k].quantity \in Quantity
  BY OffsetFacts, PointsAssumption DEF PointRec
<1>3. after[k] \in [1..g.quantity -> Word]
  BY DEF GroupRec
<1>4. Cut(g, k, after[k]) \in [1..g.points[k].quantity -> Word]
  BY <1>3, CutFacts
<1>5. Values(u, g)[k] = Decode(g.points[k], Cut(g, k, after[k]))
  BY <1>1
<1>6. Ordered(g.points[k], Cut(g, k, after[k])) =
         [i \in 1..g.points[k].quantity |-> Turned(g.points[k], Cut(g, k, after[k])[Partner(g.points[k], i)])]
  BY <1>2, <1>4, OrderedIs
<1>7. \A i \in 1..g.points[k].quantity :
         Turned(g.points[k], Cut(g, k, after[k])[Partner(g.points[k], i)]) \in Word
  BY <1>2, <1>4, PartnerFacts, TurnedTwice
<1>8. Ordered(g.points[k], Cut(g, k, after[k])) \in [1..g.points[k].quantity -> Word]
  BY <1>6, <1>7
<1>9. CASE ~g.points[k].narrow
  <2>1. Values(u, g)[k] \in [1..g.points[k].quantity -> Word]
    BY <1>5, <1>8, <1>9 DEF Decode
  <2> QED BY <1>2, <2>1, ValuesAssumption
<1>10. CASE g.points[k].narrow
  <2>1. g.points[k].quantity = 4
    BY <1>2, <1>10, PointsAssumption
  <2>2. Values(u, g)[k] \in [1..2 -> Word]
    <3> DEFINE v == Ordered(g.points[k], Cut(g, k, after[k]))
    <3>1. v[3] \in Word /\ v[4] \in Word
      BY <1>8, <2>1
    <3>2. Values(u, g)[k] = <<v[3], v[4]>>
      BY <1>5, <1>10 DEF Decode, Narrowed
    <3> QED BY <3>1, <3>2
  <2>3. 2 \in Quantity
    BY DEF Quantity
  <2> QED BY <2>2, <2>3, ValuesAssumption
<1> QED BY <1>9, <1>10

\* A point has one place in the groups of a unit.
LEMMA OnePlace ==
    ASSUME PlacesInv, NEW u \in Unit, NEW i, NEW k, NEW j, NEW l, NEW q,
           Place(groups[u], i, k, q), Place(groups[u], j, l, q)
    PROVE  i = j /\ k = l
BY Zenon DEF PlacesInv

\* A point over which no other of several registers lies finds its registers as they were read.
LEMMA ValuesAreHeld ==
    ASSUME OwnersInv, MemoryOK, NEW u \in Unit, NEW n \in 1..Len(groups[u]), Spans(groups[u][n]),
           NEW k \in 1..Len(groups[u][n].points), ~Disturbed(groups[u][n].points[k])
    PROVE  Values(u, groups[u][n])[k] = Told(groups[u][n].points[k])
<1> DEFINE g == groups[u][n]
           p == g.points[k]
           q == p.quantity
           o == Offset(g, k)
           N == Len(g.points)
<1>1. /\ g \in GroupRec /\ g.address + g.quantity <= Space
      /\ \A j \in 1..N : g.points[j] \in added
      /\ HomeOf(g, u)
  BY GroupFacts DEF OwnersInv, PlacesInv, GroupOK
<1>2. \A j \in 1..N : g.points[j] = p => j = k
  <2> SUFFICES ASSUME NEW j \in 1..N, g.points[j] = p PROVE j = k
    OBVIOUS
  <2>1. Place(groups[u], n, k, p) /\ Place(groups[u], n, j, p)
    BY DEF Place
  <2>2. PlacesInv
    BY DEF OwnersInv
  <2> HIDE DEF g, p
  <2> QED BY <2>1, <2>2, OnePlace, Zenon
<1>3. /\ p \in Points /\ p \in added /\ unitOf[p.device] = u /\ p.table = g.table
      /\ N \in Nat /\ g.quantity \in Nat /\ g.address \in Nat
      /\ q \in Nat /\ o \in Nat /\ o + q <= g.quantity /\ p.address = g.address + o
  <2>1. /\ p \in Points /\ q \in 1..4 /\ g.quantity \in Nat /\ g.address \in Nat /\ o \in Nat
        /\ o + q <= g.quantity /\ p.address = g.address + o
    BY <1>1, OffsetFacts
  <2>2. N \in Nat
    BY <1>1 DEF GroupRec
  <2>3. p \in added /\ unitOf[p.device] = u /\ p.table = g.table
    BY <1>1 DEF HomeOf
  <2>4. q \in Nat
    BY <2>1
  <2> QED BY <2>1, <2>2, <2>3, <2>4
<1>4. \A j \in 1..N : /\ g.points[j].quantity \in Nat /\ g.points[j].quantity > 0 /\ Offset(g, j) \in Nat
                      /\ Offset(g, j) + g.points[j].quantity <= g.quantity
                      /\ g.points[j].address = g.address + Offset(g, j)
                      /\ unitOf[g.points[j].device] = u /\ g.points[j].table = g.table
                      /\ g.points[j] \in added
  <2> TAKE j \in 1..N
  <2>1. /\ g.points[j].quantity \in 1..4 /\ Offset(g, j) \in Nat
        /\ Offset(g, j) + g.points[j].quantity <= g.quantity
        /\ g.points[j].address = g.address + Offset(g, j)
    BY <1>1, OffsetFacts
  <2> QED BY <2>1, <1>1 DEF HomeOf
<1>5. \A j \in 1..N : j # k /\ g.points[j].quantity > 1 => ~Overlap(p, g.points[j])
  BY <1>1, <1>2 DEF Disturbed
<1>6. Spans(g) /\ ~Disturbed(p)
  OBVIOUS
<1>7. PICK after \in [0..N -> [1..g.quantity -> Word]] :
         /\ after[0] = Read(u, g)
         /\ \A j \in 1..N : after[j] = ReverseIn(after[j - 1], Offset(g, j), g.points[j].quantity)
         /\ Values(u, g) = [j \in 1..N |-> Decode(g.points[j], Cut(g, j, after[j]))]
  BY <1>1, <1>6, ValuesAreComputed
<1> HIDE DEF g, p, q, o, N
<1>8. Read(u, g) = [i \in 1..g.quantity |-> memory[u][g.table][g.address + i - 1]]
  BY DEF Read
<1>9. k \in 1..N
  BY DEF N, g
<1>10. \A j \in 0..(k - 1) : \A i \in (o + 1)..(o + q) : after[j][i] = Read(u, g)[i]
  <2> DEFINE S == {j \in 0..(k - 1) : \A i \in (o + 1)..(o + q) : after[j][i] = Read(u, g)[i]}
  <2>1. 0 \in S
    BY <1>7, <1>9, <1>3
  <2>2. ASSUME NEW j \in 1..(k - 1), j - 1 \in S PROVE j \in S
    <3> DEFINE r == g.points[j]
               m == r.quantity
               f == Offset(g, j)
    <3>1. j \in 1..N /\ j # k /\ j - 1 \in 0..N /\ j \in 0..(k - 1)
      BY <1>3, <1>9
    <3>2. m \in Nat /\ m > 0 /\ f \in Nat /\ f + m <= g.quantity /\ r.address = g.address + f
          /\ unitOf[r.device] = u /\ r.table = g.table
      BY <1>4, <3>1
    <3>3. after[j - 1] \in [1..g.quantity -> Word] /\ after[j] = ReverseIn(after[j - 1], f, m)
      BY <1>7, <3>1
    <3>4. m > 1 => ~Overlap(p, r)
      BY <1>5, <3>1
    <3> HIDE DEF r, m, f
    <3>5. \A i \in 1..g.quantity : after[j][i] =
             IF i > f /\ i <= f + m THEN after[j - 1][2 * f + m + 1 - i] ELSE after[j - 1][i]
      <4> DEFINE regs == after[j - 1]
      <4> HIDE DEF regs
      <4>1. regs \in [1..g.quantity -> Word] /\ after[j] = ReverseIn(regs, f, m)
        BY <3>3 DEF regs
      <4> DEFINE n1 == g.quantity
      <4>2. n1 \in Nat /\ regs \in [1..n1 -> Word] /\ f \in Nat /\ m \in Nat /\ f + m <= n1
        BY <1>3, <3>2, <4>1
      <4> HIDE DEF n1
      <4>3. \A i \in 1..n1 : ReverseIn(regs, f, m)[i] =
               IF i > f /\ i <= f + m THEN regs[2 * f + m + 1 - i] ELSE regs[i]
        BY <4>2, ReverseFacts
      <4> QED BY <4>1, <4>3 DEF regs, n1
    <3>6. ASSUME NEW i \in (o + 1)..(o + q) PROVE after[j][i] = Read(u, g)[i]
      <4>1. after[j - 1][i] = Read(u, g)[i]
        BY <2>2
      <4>2. i \in 1..g.quantity
        BY <1>3
      <4>3. CASE i > f /\ i <= f + m
        <5>1. Overlap(p, r)
          <6>1. i \in Int /\ o + 1 <= i /\ i <= o + q /\ f + 1 <= i /\ i <= f + m
            BY <1>3, <3>2, <4>3
          <6>2. \A a \in Nat : a + o < (a + f) + m /\ a + f < (a + o) + q
            BY <1>3, <3>2, <6>1
          <6>3. p.address < r.address + m /\ r.address < p.address + q
            BY <1>3, <3>2, <6>2
          <6> QED BY <1>3, <3>2, <6>3 DEF Overlap, m, q
        <5>2. m = 1 /\ i = f + 1
          BY <3>2, <3>4, <4>3, <5>1
        <5> QED BY <3>2, <3>5, <4>1, <4>2, <4>3, <5>2
      <4>4. CASE ~(i > f /\ i <= f + m)
        BY <3>5, <4>1, <4>2, <4>4
      <4> QED BY <4>3, <4>4
    <3> QED BY <3>1, <3>6
  <2>3. k - 1 \in Nat
    BY <1>3, <1>9
  <2> HIDE DEF S
  <2>4. \A j \in 0..(k - 1) : j \in S
    BY <2>1, <2>2, <2>3, StepByStep
  <2> QED BY <2>4 DEF S
<1>11. /\ after[k - 1] \in [1..g.quantity -> Word] /\ after[k] \in [1..g.quantity -> Word]
       /\ after[k] = ReverseIn(after[k - 1], o, q) /\ k - 1 \in 0..(k - 1)
  BY <1>3, <1>7, <1>9 DEF o, q, p
<1>12. \A i \in 1..q : after[k][o + i] = memory[u][p.table][p.address + q - i]
  <2> TAKE i \in 1..q
  <2>1. o + i \in 1..g.quantity /\ o + i > o /\ o + i <= o + q
    BY <1>3
  <2>2. after[k][o + i] = after[k - 1][2 * o + q + 1 - (o + i)]
    <3> DEFINE regs == after[k - 1]
    <3> HIDE DEF regs
    <3>1. regs \in [1..g.quantity -> Word] /\ after[k] = ReverseIn(regs, o, q)
      BY <1>11 DEF regs
    <3> DEFINE n1 == g.quantity
    <3>2. n1 \in Nat /\ regs \in [1..n1 -> Word] /\ o \in Nat /\ q \in Nat /\ o + q <= n1
      BY <1>3, <3>1
    <3> HIDE DEF n1
    <3>3. \A x \in 1..n1 : ReverseIn(regs, o, q)[x] =
             IF x > o /\ x <= o + q THEN regs[2 * o + q + 1 - x] ELSE regs[x]
      BY <3>2, ReverseFacts
    <3> QED BY <2>1, <3>1, <3>3 DEF regs, n1
  <2>3. 2 * o + q + 1 - (o + i) = o + q + 1 - i /\ o + q + 1 - i \in (o + 1)..(o + q)
    BY <1>3
  <2>4. after[k - 1][o + q + 1 - i] = Read(u, g)[o + q + 1 - i]
    BY <1>10, <1>11, <2>3
  <2>5. o + q + 1 - i \in 1..g.quantity /\ g.address + (o + q + 1 - i) - 1 = p.address + q - i
    <3>1. (g.address + o) + q - i = g.address + (o + q + 1 - i) - 1
      BY <1>3
    <3>2. o + q + 1 - i \in 1..g.quantity
      BY <1>3
    <3> QED BY <1>3, <3>1, <3>2
  <2>6. Read(u, g)[o + q + 1 - i] = memory[u][g.table][g.address + (o + q + 1 - i) - 1]
    BY <1>8, <2>5
  <2> QED BY <1>3, <2>2, <2>3, <2>4, <2>5, <2>6
<1>13. /\ Cut(g, k, after[k]) \in [1..q -> Word]
       /\ \A i \in 1..q : Cut(g, k, after[k])[i] = memory[u][p.table][p.address + q - i]
  <2>1. /\ Cut(g, k, after[k]) \in [1..g.points[k].quantity -> Word]
        /\ \A i \in 1..g.points[k].quantity : Cut(g, k, after[k])[i] = after[k][Offset(g, k) + i]
    BY <1>1, <1>6, <1>9, <1>11, CutFacts DEF N
  <2> QED BY <2>1, <1>12 DEF q, p, o
<1>14. Ordered(p, Cut(g, k, after[k])) = [i \in 1..q |-> Turned(p, Cut(g, k, after[k])[Partner(p, i)])]
  BY <1>3, <1>13, OrderedIs DEF q
<1>15. Held(p) = [i \in 1..q |-> Turned(p, memory[u][p.table][RegisterOf(p, i)])]
  BY <1>3 DEF Held, Turned, q
<1>16. \A i \in 1..q : Cut(g, k, after[k])[Partner(p, i)] = memory[u][p.table][RegisterOf(p, i)]
  BY <1>3, <1>13, PartnerFacts DEF q
<1>17. Values(u, g)[k] = Told(p)
  <2>1. Values(u, g)[k] = Decode(p, Cut(g, k, after[k]))
    BY <1>7, <1>9 DEF p
  <2>2. Ordered(p, Cut(g, k, after[k])) = Held(p)
    BY <1>14, <1>15, <1>16
  <2> QED BY <2>1, <2>2 DEF Decode, Told
<1> QED BY <1>17 DEF p, g

-----------------------------------------------------------------------------
(* What writes do *)

Memories == [Table -> [0..(Space - 1) -> Word]]
Writes == [table : Table, address : Nat, value : Seq(Word)]

\* The write puts the word into the register; one of the first n does.
Covers(x, t, a, w) == /\ x.table = t
                      /\ a >= x.address /\ a < x.address + Len(x.value)
                      /\ w = x.value[a - x.address + 1]
Puts(ws, n, t, a, w) == \E k \in 1..n : Covers(ws[k], t, a, w)

\* What one write does.
After(mem, w) == [mem EXCEPT ![w.table] = [a \in 0..(Space - 1) |->
                    IF a >= w.address /\ a < w.address + Len(w.value)
                    THEN w.value[a - w.address + 1] ELSE @[a]]]

\* A write puts words.
LEMMA WriteWord ==
    ASSUME NEW w \in Writes, NEW a \in Nat, a >= w.address, a < w.address + Len(w.value)
    PROVE  w.value[a - w.address + 1] \in Word
<1> DEFINE v == w.value
<1>1. v \in Seq(Word) /\ w.address \in Nat
  BY DEF Writes
<1> HIDE DEF v
<1>2. a - w.address + 1 \in 1..Len(v)
  BY <1>1 DEF v
<1>3. v[a - w.address + 1] \in Word
  BY <1>1, <1>2
<1> QED BY <1>3 DEF v

\* One write changes its registers and no others.
LEMMA AfterFacts ==
    ASSUME NEW mem \in Memories, NEW w \in Writes
    PROVE  /\ After(mem, w) \in Memories
           /\ \A t \in Table : \A a \in 0..(Space - 1) :
                 After(mem, w)[t][a] =
                    IF w.table = t /\ a >= w.address /\ a < w.address + Len(w.value)
                    THEN w.value[a - w.address + 1] ELSE mem[t][a]
<1>1. w.table \in Table
  BY DEF Writes
<1> DEFINE row == [a \in 0..(Space - 1) |->
                    IF a >= w.address /\ a < w.address + Len(w.value)
                    THEN w.value[a - w.address + 1] ELSE mem[w.table][a]]
<1>2. After(mem, w) = [mem EXCEPT ![w.table] = row]
  BY DEF After
<1>3. \A a \in 0..(Space - 1) : row[a] \in Word
  <2> TAKE a \in 0..(Space - 1)
  <2>1. a \in Nat
    BY SpaceAssumption
  <2>2. mem[w.table][a] \in Word
    <3>1. mem[w.table] \in [0..(Space - 1) -> Word]
      BY <1>1 DEF Memories
    <3> QED BY <3>1
  <2> QED BY <2>1, <2>2, WriteWord
<1>4. row \in [0..(Space - 1) -> Word]
  BY <1>3
<1>5. \A t \in Table : After(mem, w)[t] = IF t = w.table THEN row ELSE mem[t]
  <2> HIDE DEF row
  <2> QED BY <1>1, <1>2 DEF Memories
<1>6. After(mem, w) \in Memories
  <2> HIDE DEF row
  <2> QED BY <1>1, <1>2, <1>4 DEF Memories
<1>7. \A t \in Table : \A a \in 0..(Space - 1) :
         After(mem, w)[t][a] =
            IF w.table = t /\ a >= w.address /\ a < w.address + Len(w.value)
            THEN w.value[a - w.address + 1] ELSE mem[t][a]
  <2> TAKE t \in Table
  <2> TAKE a \in 0..(Space - 1)
  <2>1. row[a] = IF a >= w.address /\ a < w.address + Len(w.value)
                 THEN w.value[a - w.address + 1] ELSE mem[w.table][a]
    OBVIOUS
  <2> HIDE DEF row
  <2>2. CASE t = w.table
    BY <1>5, <2>1, <2>2
  <2>3. CASE t # w.table
    BY <1>5, <2>3
  <2> QED BY <2>2, <2>3
<1> QED BY <1>6, <1>7

\* A register that none of the writes puts a word into is left alone; if all are done, one that
\* all put the same word into has it.
LEMMA WrittenFacts ==
    ASSUME NEW mem \in Memories, NEW ws \in Seq(Writes), NEW ok
    PROVE  /\ Written(mem, ws, ok) \in Memories
           /\ \A t \in Table : \A a \in 0..(Space - 1) :
                 (~\E w : Puts(ws, Len(ws), t, a, w)) => Written(mem, ws, ok)[t][a] = mem[t][a]
           /\ \A t \in Table : \A a \in 0..(Space - 1) : \A x :
                 /\ ok = 1..Len(ws)
                 /\ Puts(ws, Len(ws), t, a, x)
                 /\ \A w : Puts(ws, Len(ws), t, a, w) => w = x
                 => Written(mem, ws, ok)[t][a] = x
<1> DEFINE N == Len(ws)
           F == [k \in 1..N |-> [m \in Memories |-> IF k \notin ok THEN m ELSE After(m, ws[k])]]
           Steps(f) == [k \in 0..N |-> IF k = 0 THEN mem ELSE IF k \notin ok THEN f[k - 1]
                                       ELSE After(f[k - 1], ws[k])]
           h == CHOOSE f : f = Steps(f)
<1>1. N \in Nat /\ \A k \in 1..N : ws[k] \in Writes
  OBVIOUS
<1>2. \A k \in 1..N : \A m \in Memories : After(m, ws[k]) \in Memories
  BY <1>1, AfterFacts
<1>3. F \in [1..N -> [Memories -> Memories]]
  BY <1>2
<1> HIDE DEF N
<1>4. PICK f \in [0..N -> Memories] : f[0] = mem /\ \A k \in 1..N : f[k] = F[k][f[k - 1]]
  <2> DEFINE X == Memories
             a == mem
  <2> HIDE DEF F, X, a
  <2>1. a \in X /\ N \in Nat /\ F \in [1..N -> [X -> X]]
    BY <1>1, <1>3 DEF X, a
  <2>2. \E f \in [0..N -> X] : f[0] = a /\ \A k \in 1..N : f[k] = F[k][f[k - 1]]
    BY <2>1, Recursion, SMTT(60)
  <2> QED BY <2>2 DEF X, a
<1>5. f = Steps(f)
  <2>1. \A k \in 1..N : f[k - 1] \in Memories /\ f[k] = IF k \notin ok THEN f[k - 1] ELSE After(f[k - 1], ws[k])
    BY <1>1, <1>4
  <2> QED BY <1>4, <2>1
<1>6. h = Steps(h)
  <2> HIDE DEF Steps
  <2> QED BY <1>5, Zenon
<1>7. Written(mem, ws, ok) = h[N]
  BY Zenon DEF Written, After, N
<1> HIDE DEF h
<1>8. h[0] = mem /\ \A k \in 1..N : h[k] = IF k \notin ok THEN h[k - 1] ELSE After(h[k - 1], ws[k])
  BY <1>1, <1>6
<1>9. \A k \in 0..N : h[k] \in Memories
  <2> DEFINE S == {k \in 0..N : h[k] \in Memories}
  <2>1. 0 \in S
    BY <1>1, <1>8
  <2>2. ASSUME NEW k \in 1..N, k - 1 \in S PROVE k \in S
    <3> DEFINE m == h[k - 1]
    <3>1. m \in Memories /\ k \in 0..N /\ h[k] = IF k \notin ok THEN m ELSE After(m, ws[k])
      BY <1>1, <1>8, <2>2
    <3> HIDE DEF m
    <3>2. h[k] \in Memories
      BY <1>2, <3>1
    <3> QED BY <3>1, <3>2
  <2> HIDE DEF S
  <2>3. \A k \in 0..N : k \in S
    BY <1>1, <2>1, <2>2, StepByStep
  <2> QED BY <2>3 DEF S
<1>10. ASSUME NEW t \in Table, NEW a \in 0..(Space - 1), NEW k \in 1..N
       PROVE  /\ k \notin ok => h[k][t][a] = h[k - 1][t][a]
              /\ k \in ok => h[k][t][a] =
                    IF ws[k].table = t /\ a >= ws[k].address /\ a < ws[k].address + Len(ws[k].value)
                    THEN ws[k].value[a - ws[k].address + 1] ELSE h[k - 1][t][a]
  <2>1. CASE k \notin ok
    BY <1>8, <2>1
  <2>2. CASE k \in ok
    <3> DEFINE m == h[k - 1]
               x == ws[k]
    <3>1. m \in Memories /\ x \in Writes /\ h[k] = After(m, x)
      BY <1>1, <1>8, <1>9, <2>2
    <3> HIDE DEF m, x
    <3>2. After(m, x)[t][a] = IF x.table = t /\ a >= x.address /\ a < x.address + Len(x.value)
                              THEN x.value[a - x.address + 1] ELSE m[t][a]
      BY <3>1, AfterFacts
    <3> QED BY <2>2, <3>1, <3>2 DEF m, x
  <2> QED BY <2>1, <2>2
<1>11. ASSUME NEW t \in Table, NEW a \in 0..(Space - 1), ~\E w : Puts(ws, N, t, a, w)
       PROVE  h[N][t][a] = mem[t][a]
  <2> DEFINE S == {k \in 0..N : h[k][t][a] = mem[t][a]}
  <2>1. 0 \in S
    BY <1>1, <1>8
  <2>2. ASSUME NEW k \in 1..N, k - 1 \in S PROVE k \in S
    <3>1. ~(ws[k].table = t /\ a >= ws[k].address /\ a < ws[k].address + Len(ws[k].value))
      BY <1>11 DEF Puts, Covers
    <3>2. h[k][t][a] = h[k - 1][t][a]
      BY <1>10, <3>1
    <3> QED BY <1>1, <2>2, <3>2
  <2> HIDE DEF S
  <2>3. \A k \in 0..N : k \in S
    BY <1>1, <2>1, <2>2, StepByStep
  <2>4. N \in S
    BY <1>1, <2>3
  <2> QED BY <2>4 DEF S
<1>12. ASSUME NEW t \in Table, NEW a \in 0..(Space - 1), NEW x, ok = 1..N, Puts(ws, N, t, a, x),
              \A w : Puts(ws, N, t, a, w) => w = x
       PROVE  h[N][t][a] = x
  <2> DEFINE Done(n) == Puts(ws, n, t, a, x) => h[n][t][a] = x
             S == {k \in 0..N : Done(k)}
  <2>1. 0 \in S
    BY <1>1 DEF Puts, Covers
  <2>2. ASSUME NEW k \in 1..N, k - 1 \in S PROVE k \in S
    <3> DEFINE hit == ws[k].table = t /\ a >= ws[k].address /\ a < ws[k].address + Len(ws[k].value)
    <3>1. CASE hit
      <4>1. Puts(ws, N, t, a, ws[k].value[a - ws[k].address + 1])
        BY <3>1 DEF Puts, Covers
      <4>2. h[k][t][a] = ws[k].value[a - ws[k].address + 1]
        BY <1>10, <1>12, <3>1
      <4> QED BY <1>1, <1>12, <4>1, <4>2
    <3>2. CASE ~hit
      <4>1. Puts(ws, k, t, a, x) => Puts(ws, k - 1, t, a, x)
        <5> SUFFICES ASSUME Puts(ws, k, t, a, x) PROVE Puts(ws, k - 1, t, a, x)
          OBVIOUS
        <5>1. PICK j \in 1..k : /\ ws[j].table = t
                                /\ a >= ws[j].address /\ a < ws[j].address + Len(ws[j].value)
                                /\ x = ws[j].value[a - ws[j].address + 1]
          BY DEF Puts, Covers
        <5>2. j \in 1..(k - 1)
          BY <1>1, <3>2, <5>1
        <5> QED BY <5>1, <5>2 DEF Puts, Covers
      <4>2. h[k][t][a] = h[k - 1][t][a]
        BY <1>10, <1>12, <3>2
      <4> QED BY <1>1, <2>2, <4>1, <4>2
    <3> QED BY <3>1, <3>2
  <2> HIDE DEF S
  <2>3. \A k \in 0..N : k \in S
    BY <1>1, <2>1, <2>2, StepByStep
  <2>4. N \in S
    BY <1>1, <2>3
  <2> QED BY <1>12, <2>4 DEF S
<1>13. h[N] \in Memories
  BY <1>1, <1>9
<1> QED BY <1>7, <1>11, <1>12, <1>13 DEF N

\* One more write puts its own words as well.
LEMMA AppendedPuts ==
    ASSUME NEW s \in Seq(Writes), NEW v \in Writes, NEW t, NEW a, NEW w
    PROVE  /\ Append(s, v) \in Seq(Writes)
           /\ Puts(Append(s, v), Len(Append(s, v)), t, a, w) <=> Puts(s, Len(s), t, a, w) \/ Covers(v, t, a, w)
<1> DEFINE r == Append(s, v)
           n == Len(s)
<1>1. r \in Seq(Writes) /\ Len(r) = n + 1 /\ n \in Nat /\ r[n + 1] = v /\ \A k \in 1..n : r[k] = s[k]
  OBVIOUS
<1> HIDE DEF r, n
<1>2. Puts(r, n + 1, t, a, w) <=> Puts(s, n, t, a, w) \/ Covers(v, t, a, w)
  <2>1. ASSUME Puts(r, n + 1, t, a, w) PROVE Puts(s, n, t, a, w) \/ Covers(v, t, a, w)
    <3>1. PICK k \in 1..(n + 1) : Covers(r[k], t, a, w)
      BY <2>1 DEF Puts
    <3>2. k = n + 1 \/ k \in 1..n
      BY <1>1
    <3> QED BY <1>1, <3>1, <3>2 DEF Puts
  <2>2. ASSUME Puts(s, n, t, a, w) PROVE Puts(r, n + 1, t, a, w)
    <3>1. PICK k \in 1..n : Covers(s[k], t, a, w)
      BY <2>2 DEF Puts
    <3>2. k \in 1..(n + 1)
      BY <1>1
    <3> QED BY <1>1, <3>1, <3>2 DEF Puts
  <2>3. ASSUME Covers(v, t, a, w) PROVE Puts(r, n + 1, t, a, w)
    <3>1. n + 1 \in 1..(n + 1)
      BY <1>1
    <3> QED BY <1>1, <2>3, <3>1 DEF Puts
  <2> QED BY <2>1, <2>2, <2>3
<1> QED BY <1>1, <1>2 DEF r, n

\* One write of adjoining registers puts what two would.
LEMMA JoinedCovers ==
    ASSUME NEW x \in Writes, NEW v \in Writes, x.table = v.table, x.address + Len(x.value) = v.address,
           NEW t, NEW a \in Nat, NEW w
    PROVE  /\ [x EXCEPT !.value = @ \o v.value] \in Writes
           /\ [x EXCEPT !.value = @ \o v.value].table = x.table
           /\ Covers([x EXCEPT !.value = @ \o v.value], t, a, w) <=> Covers(x, t, a, w) \/ Covers(v, t, a, w)
<1> DEFINE y == [x EXCEPT !.value = @ \o v.value]
           xv == x.value
           vv == v.value
           xn == Len(xv)
           vn == Len(vv)
           xa == x.address
           va == v.address
<1>1. /\ xv \in Seq(Word) /\ vv \in Seq(Word) /\ xa \in Nat /\ va \in Nat /\ x.table \in Table
      /\ xa + xn = va
  BY DEF Writes
<1>2. /\ y.table = x.table /\ y.address = xa /\ y.value = xv \o vv
      /\ y = [table |-> x.table, address |-> xa, value |-> xv \o vv]
  <2> DEFINE tb == x.table
             vw == xv \o vv
  <2>1. x = [table |-> tb, address |-> xa, value |-> xv]
    BY DEF Writes
  <2>2. y = [x EXCEPT !.value = vw]
    OBVIOUS
  <2> HIDE DEF tb, xa, xv, vv, vw, y
  <2>3. y = [table |-> tb, address |-> xa, value |-> vw]
    BY <2>1, <2>2
  <2>4. y.table = tb /\ y.address = xa /\ y.value = vw
    BY <2>3
  <2> QED BY <2>3, <2>4 DEF tb, vw
<1>3. /\ xv \o vv \in Seq(Word) /\ Len(xv \o vv) = xn + vn /\ xn \in Nat /\ vn \in Nat
      /\ \A i \in 1..(xn + vn) : (xv \o vv)[i] = IF i <= xn THEN xv[i] ELSE vv[i - xn]
  <2> HIDE DEF xv, vv
  <2>1. xv \in Seq(Word) /\ vv \in Seq(Word)
    BY <1>1
  <2> QED BY <2>1, ConcatProperties, LenProperties
<1>4. y \in Writes
  BY <1>1, <1>2, <1>3 DEF Writes
<1>5. /\ Covers(x, t, a, w) <=> x.table = t /\ a >= xa /\ a < xa + xn /\ w = xv[a - xa + 1]
      /\ Covers(v, t, a, w) <=> x.table = t /\ a >= va /\ a < va + vn /\ w = vv[a - va + 1]
      /\ Covers(y, t, a, w) <=> x.table = t /\ a >= xa /\ a < xa + (xn + vn) /\ w = (xv \o vv)[a - xa + 1]
  BY <1>2, <1>3 DEF Covers
<1> HIDE DEF y, xv, vv, xn, vn, xa, va
<1>6. Covers(y, t, a, w) <=> Covers(x, t, a, w) \/ Covers(v, t, a, w)
  <2>1. CASE a >= xa /\ a < va
    <3>1. a - xa + 1 \in 1..(xn + vn) /\ a - xa + 1 <= xn /\ ~(a >= va) /\ a < xa + xn /\ a < xa + (xn + vn)
      BY <1>1, <1>3, <2>1
    <3>2. (xv \o vv)[a - xa + 1] = xv[a - xa + 1]
      BY <1>3, <3>1
    <3> QED BY <1>5, <2>1, <3>1, <3>2
  <2>2. CASE a >= va /\ a < va + vn
    <3>1. /\ a - xa + 1 \in 1..(xn + vn) /\ ~(a - xa + 1 <= xn)
          /\ ~(a < xa + xn) /\ a < xa + (xn + vn) /\ a >= xa
          /\ (a - xa + 1) - xn = a - va + 1
      BY <1>1, <1>3, <2>2
    <3>2. (xv \o vv)[a - xa + 1] = vv[a - va + 1]
      BY <1>3, <3>1
    <3> QED BY <1>5, <2>2, <3>1, <3>2
  <2>3. CASE ~(a >= xa /\ a < va) /\ ~(a >= va /\ a < va + vn)
    <3>1. /\ ~(a >= xa /\ a < xa + xn) /\ ~(a >= va /\ a < va + vn) /\ ~(a >= xa /\ a < xa + (xn + vn))
      BY <1>1, <1>3, <2>3
    <3> QED BY <1>5, <3>1
  <2> QED BY <2>1, <2>2, <2>3
<1> QED BY <1>2, <1>4, <1>6 DEF y

\* What the next value makes of the writes, and what is known of them: the write that values are
\* merged into is one of holding registers.
MergeStep(m, v) ==
    IF v.table # "HOLDING_REGISTER" THEN [m EXCEPT !.out = Append(@, v)]
    ELSE IF m.pre # 0 /\ Mergeable(m.out[m.pre], v)
    THEN [m EXCEPT !.out[m.pre].value = @ \o v.value]
    ELSE [out |-> Append(m.out, v), pre |-> Len(m.out) + 1]

Merging == {m \in [out : Seq(Writes), pre : Nat] :
               m.pre # 0 => m.pre \in 1..Len(m.out) /\ m.out[m.pre].table = "HOLDING_REGISTER"}

\* Merging one value adds its words and keeps the others where they are.
LEMMA MergeStepFacts ==
    ASSUME NEW m \in Merging, NEW v \in Writes
    PROVE  /\ MergeStep(m, v) \in Merging
           /\ \A t, w : \A a \in Nat : Puts(MergeStep(m, v).out, Len(MergeStep(m, v).out), t, a, w)
                                          <=> Puts(m.out, Len(m.out), t, a, w) \/ Covers(v, t, a, w)
<1> DEFINE s == m.out
           n == m.pre
           r == MergeStep(m, v)
<1>1. s \in Seq(Writes) /\ n \in Nat /\ m = [out |-> s, pre |-> n] /\ Len(s) \in Nat
      /\ (n # 0 => n \in 1..Len(s) /\ s[n].table = "HOLDING_REGISTER")
  BY DEF Merging
<1>2. /\ Append(s, v) \in Seq(Writes) /\ Len(Append(s, v)) = Len(s) + 1
      /\ Append(s, v)[Len(s) + 1] = v /\ \A k \in 1..Len(s) : Append(s, v)[k] = s[k]
  <2> HIDE DEF s
  <2> QED BY <1>1
<1>3. CASE v.table # "HOLDING_REGISTER"
  <2>1. r = [out |-> Append(s, v), pre |-> n]
    BY <1>1, <1>3 DEF MergeStep
  <2>2. r \in Merging
    <3> HIDE DEF s, n, r
    <3> QED BY <1>1, <1>2, <2>1 DEF Merging
  <2> QED BY <1>1, <2>1, <2>2, AppendedPuts
<1>4. CASE v.table = "HOLDING_REGISTER" /\ ~(n # 0 /\ Mergeable(s[n], v))
  <2>1. r = [out |-> Append(s, v), pre |-> Len(s) + 1]
    BY <1>1, <1>4 DEF MergeStep
  <2>2. r \in Merging
    <3> HIDE DEF s, n, r
    <3> QED BY <1>1, <1>2, <1>4, <2>1 DEF Merging
  <2> QED BY <1>1, <2>1, <2>2, AppendedPuts
<1>5. CASE v.table = "HOLDING_REGISTER" /\ n # 0 /\ Mergeable(s[n], v)
  <2> DEFINE x == s[n]
             y == [x EXCEPT !.value = @ \o v.value]
  <2>1. x \in Writes /\ x.table = v.table /\ x.address + Len(x.value) = v.address /\ n \in 1..Len(s)
    BY <1>1, <1>5 DEF Mergeable
  <2>2. r = [out |-> [s EXCEPT ![n] = y], pre |-> n]
    BY <1>1, <1>5 DEF MergeStep
  <2> HIDE DEF s, n, r, x
  <2>3. /\ y \in Writes /\ y.table = x.table
        /\ \A t, w : \A a \in Nat : Covers(y, t, a, w) <=> Covers(x, t, a, w) \/ Covers(v, t, a, w)
    <3>1. y \in Writes /\ y.table = x.table
      BY <2>1, JoinedCovers
    <3>2. ASSUME NEW t, NEW w, NEW a \in Nat
          PROVE  Covers(y, t, a, w) <=> Covers(x, t, a, w) \/ Covers(v, t, a, w)
      BY <2>1, JoinedCovers
    <3> QED BY <3>1, <3>2
  <2> DEFINE q == [s EXCEPT ![n] = y]
  <2> HIDE DEF y
  <2>4. q \in Seq(Writes) /\ Len(q) = Len(s) /\ \A k \in 1..Len(s) : q[k] = IF k = n THEN y ELSE s[k]
    BY <1>1, <2>1, <2>3
  <2> HIDE DEF q
  <2>5. r = [out |-> q, pre |-> n]
    BY <2>2 DEF q, y
  <2>6. r \in Merging
    BY <1>1, <1>5, <2>1, <2>3, <2>4, <2>5 DEF Merging
  <2>7. ASSUME NEW t, NEW w, NEW a \in Nat
        PROVE  Puts(q, Len(q), t, a, w) <=> Puts(s, Len(s), t, a, w) \/ Covers(v, t, a, w)
    <3>1. ASSUME Puts(q, Len(q), t, a, w) PROVE Puts(s, Len(s), t, a, w) \/ Covers(v, t, a, w)
      <4>1. PICK k \in 1..Len(s) : Covers(q[k], t, a, w)
        BY <2>4, <3>1 DEF Puts
      <4>2. CASE k = n
        BY <2>1, <2>3, <2>4, <4>1, <4>2 DEF Puts, x
      <4>3. CASE k # n
        BY <2>4, <4>1, <4>3 DEF Puts
      <4> QED BY <4>2, <4>3
    <3>2. ASSUME Puts(s, Len(s), t, a, w) PROVE Puts(q, Len(q), t, a, w)
      <4>1. PICK k \in 1..Len(s) : Covers(s[k], t, a, w)
        BY <3>2 DEF Puts
      <4>2. Covers(q[k], t, a, w)
        BY <2>3, <2>4, <4>1 DEF x
      <4> QED BY <2>4, <4>2 DEF Puts
    <3>3. ASSUME Covers(v, t, a, w) PROVE Puts(q, Len(q), t, a, w)
      BY <2>1, <2>3, <2>4, <3>3 DEF Puts
    <3> QED BY <3>1, <3>2, <3>3
  <2> QED BY <2>5, <2>6, <2>7 DEF r, s
<1> QED BY <1>3, <1>4, <1>5

\* Merging writes neither adds nor loses nor moves a word, whatever the order of the values.
LEMMA MergedFacts ==
    ASSUME NEW vs \in Seq(Writes)
    PROVE  /\ Merged(vs) \in Seq(Writes)
           /\ \A t, w : \A a \in Nat : Puts(Merged(vs), Len(Merged(vs)), t, a, w) <=> Puts(vs, Len(vs), t, a, w)
<1> DEFINE N == Len(vs)
           X == Merging
           start == [out |-> <<>>, pre |-> 0]
           F == [k \in 1..N |-> [m \in X |-> MergeStep(m, vs[k])]]
           Steps(f) == [k \in 0..N |-> IF k = 0 THEN start ELSE MergeStep(f[k - 1], vs[k])]
           h == CHOOSE f : f = Steps(f)
<1>1. N \in Nat
  OBVIOUS
<1>2. \A k \in 1..N : vs[k] \in Writes
  OBVIOUS
<1> HIDE DEF N
<1>3. start \in X
  BY DEF Merging
<1> HIDE DEF start
<1>4. \A k \in 1..N : \A m \in X : MergeStep(m, vs[k]) \in X
  BY <1>2, MergeStepFacts
<1>5. F \in [1..N -> [X -> X]]
  BY <1>4
<1>6. PICK f \in [0..N -> X] : f[0] = start /\ \A k \in 1..N : f[k] = F[k][f[k - 1]]
  <2> HIDE DEF F, X
  <2>0. start \in X /\ N \in Nat /\ F \in [1..N -> [X -> X]]
    BY <1>1, <1>3, <1>5
  <2>1. \E f \in [0..N -> X] : f[0] = start /\ \A k \in 1..N : f[k] = F[k][f[k - 1]]
    BY <2>0, Recursion, SMTT(60)
  <2> QED BY <2>1
<1>7. f = Steps(f)
  <2>1. \A k \in 1..N : f[k - 1] \in X
    <3> HIDE DEF X
    <3> QED BY <1>1, <1>6
  <2>2. \A k \in 1..N : f[k] = MergeStep(f[k - 1], vs[k])
    <3> HIDE DEF X
    <3> QED BY <1>6, <2>1
  <2> QED BY <1>6, <2>2
<1>8. h = Steps(h)
  <2> HIDE DEF Steps
  <2> QED BY <1>7, Zenon
<1>9. Merged(vs) = h[N].out
  BY Zenon DEF Merged, MergeStep, N, start
<1> HIDE DEF h
<1>10. h[0] = start /\ \A k \in 1..N : h[k] = MergeStep(h[k - 1], vs[k])
  BY <1>1, <1>8
<1>11. \A k \in 0..N : /\ h[k] \in X
                       /\ \A t, w : \A a \in Nat :
                             Puts(h[k].out, Len(h[k].out), t, a, w) <=> Puts(vs, k, t, a, w)
  <2> DEFINE Done(k) == /\ h[k] \in X
                        /\ \A t, w : \A a \in Nat :
                              Puts(h[k].out, Len(h[k].out), t, a, w) <=> Puts(vs, k, t, a, w)
             S == {k \in 0..N : Done(k)}
  <2>1. 0 \in S
    <3>1. h[0].out = <<>> /\ Len(h[0].out) = 0
      BY <1>10 DEF start
    <3>2. \A t, w : \A a \in Nat : ~Puts(h[0].out, Len(h[0].out), t, a, w) /\ ~Puts(vs, 0, t, a, w)
      BY <3>1 DEF Puts
    <3>3. Done(0)
      BY <1>3, <1>10, <3>2
    <3> HIDE DEF Done
    <3> QED BY <1>1, <3>3
  <2>2. ASSUME NEW k \in 1..N, k - 1 \in S PROVE k \in S
    <3> DEFINE m == h[k - 1]
               r == h[k]
    <3>1. m \in Merging /\ vs[k] \in Writes /\ r = MergeStep(m, vs[k]) /\ k - 1 \in 0..N /\ k \in 0..N
      BY <1>1, <1>2, <1>10, <2>2
    <3>2. \A t, w : \A a \in Nat : Puts(m.out, Len(m.out), t, a, w) <=> Puts(vs, k - 1, t, a, w)
      BY <2>2
    <3> HIDE DEF m, r
    <3>3. /\ r \in Merging
          /\ \A t, w : \A a \in Nat : Puts(r.out, Len(r.out), t, a, w)
                                         <=> Puts(m.out, Len(m.out), t, a, w) \/ Covers(vs[k], t, a, w)
      BY <3>1, MergeStepFacts
    <3>4. \A t, a, w : Puts(vs, k, t, a, w) <=> Puts(vs, k - 1, t, a, w) \/ Covers(vs[k], t, a, w)
      <4> TAKE t, a, w
      <4>1. \A j \in 1..k : j = k \/ j \in 1..(k - 1)
        BY <1>1
      <4>2. \A j \in 1..(k - 1) : j \in 1..k
        BY <1>1
      <4>3. k \in 1..k
        BY <1>1
      <4> QED BY <4>1, <4>2, <4>3 DEF Puts
    <3>5. Done(k)
      BY <3>2, <3>3, <3>4 DEF r
    <3> HIDE DEF Done
    <3> QED BY <3>1, <3>5
  <2> HIDE DEF S
  <2>3. \A k \in 0..N : k \in S
    BY <1>1, <2>1, <2>2, StepByStep
  <2> QED BY <2>3 DEF S
<1>12. /\ h[N] \in Merging
       /\ \A t, w : \A a \in Nat : Puts(h[N].out, Len(h[N].out), t, a, w) <=> Puts(vs, N, t, a, w)
  BY <1>1, <1>11
<1>13. h[N].out \in Seq(Writes)
  BY <1>12 DEF Merging
<1> QED BY <1>9, <1>12, <1>13 DEF N

\* Sorting values leaves none out.
LEMMA SortedFacts ==
    ASSUME NEW S, IsFiniteSet(S), NEW f \in Sorted(S)
    PROVE  /\ Cardinality(S) \in Nat /\ f \in [1..Cardinality(S) -> S] /\ Len(f) = Cardinality(S)
           /\ \A p \in S : \E i \in 1..Cardinality(S) : f[i] = p
<1> DEFINE n == Cardinality(S)
           I == 1..n
<1>1. n \in Nat
  BY FS_CardinalityType
<1>2. f \in [I -> S] /\ \A i, j \in I : i < j => f[i] # f[j]
  BY DEF Sorted
<1>3. \A i, j \in I : f[i] = f[j] => i = j
  <2> HIDE DEF n
  <2> QED BY <1>1, <1>2
<1> HIDE DEF I
<1>4. f \in Injection(I, S)
  BY <1>2, <1>3 DEF Injection, IsInjective
<1>5. Cardinality(I) = n
  <2>1. 1 \in Int /\ n \in Int /\ (IF 1 > n THEN 0 ELSE n - 1 + 1) = n
    <3> HIDE DEF n
    <3> QED BY <1>1
  <2>2. Cardinality(1..n) = IF 1 > n THEN 0 ELSE n - 1 + 1
    <3> HIDE DEF n
    <3> QED BY <2>1, FS_Interval
  <2> QED BY <2>1, <2>2 DEF I
<1>6. f \in Surjection(I, S)
  BY <1>4, <1>5, FS_Injection
<1>7. \A p \in S : \E i \in I : f[i] = p
  BY <1>6 DEF Surjection
<1>8. Len(f) = n
  <2> HIDE DEF n
  <2> QED BY <1>1, <1>2 DEF I
<1> QED BY <1>1, <1>2, <1>7, <1>8 DEF I

\* The write of a value puts the words of the value into the registers of its point.
LEMMA WriteValueFacts ==
    ASSUME NEW p \in Points
    PROVE  /\ WriteValue(p) \in Writes
           /\ \A t, a, w : Covers(WriteValue(p), t, a, w) <=>
                              /\ p.table = t /\ a >= p.address /\ a < p.address + p.quantity
                              /\ w = Encode(p, valueOf[p])[a - p.address + 1]
<1> DEFINE e == Encode(p, valueOf[p])
           q == p.quantity
<1>1. e \in [1..q -> Word]
  BY EncodeIs
<1>2. q \in Nat /\ p.address \in Nat /\ p.table \in Table
  BY PointFacts, SpaceAssumption
<1>3. WriteValue(p) = [table |-> p.table, address |-> p.address, value |-> e]
  BY DEF WriteValue
<1> HIDE DEF e, q
<1>4. e \in Seq(Word) /\ Len(e) = q
  BY <1>1, <1>2
<1>5. WriteValue(p) \in Writes
  BY <1>2, <1>3, <1>4 DEF Writes
<1>6. \A t, a, w : Covers(WriteValue(p), t, a, w) <=>
                      p.table = t /\ a >= p.address /\ a < p.address + q /\ w = e[a - p.address + 1]
  BY <1>3, <1>4 DEF Covers
<1> QED BY <1>5, <1>6 DEF e, q

\* The values of a request put the words of its points, and no others.
LEMMA ValuesPut ==
    ASSUME NEW S \in SUBSET Points, IsFiniteSet(S), NEW f \in Sorted(S)
    PROVE  LET vs == [i \in 1..Len(f) |-> WriteValue(f[i])]
           IN  /\ vs \in Seq(Writes)
               /\ \A t, a, w : Puts(vs, Len(vs), t, a, w) <=> \E p \in S : Covers(WriteValue(p), t, a, w)
<1> DEFINE n == Cardinality(S)
           vs == [i \in 1..Len(f) |-> WriteValue(f[i])]
<1>1. /\ n \in Nat /\ f \in [1..n -> S] /\ Len(f) = n
      /\ \A p \in S : \E i \in 1..n : f[i] = p
  BY SortedFacts
<1> HIDE DEF n
<1>2. \A i \in 1..n : f[i] \in S /\ f[i] \in Points /\ WriteValue(f[i]) \in Writes
  BY <1>1, WriteValueFacts
<1>3. vs \in Seq(Writes) /\ Len(vs) = n /\ \A i \in 1..n : vs[i] = WriteValue(f[i])
  BY <1>1, <1>2
<1> HIDE DEF vs
<1>4. \A t, a, w : Puts(vs, Len(vs), t, a, w) <=> \E p \in S : Covers(WriteValue(p), t, a, w)
  <2> TAKE t, a, w
  <2>1. ASSUME Puts(vs, n, t, a, w) PROVE \E p \in S : Covers(WriteValue(p), t, a, w)
    BY <1>2, <1>3, <2>1 DEF Puts
  <2>2. ASSUME NEW p \in S, Covers(WriteValue(p), t, a, w) PROVE Puts(vs, n, t, a, w)
    <3>1. PICK i \in 1..n : f[i] = p
      BY <1>1
    <3> QED BY <1>3, <2>2, <3>1 DEF Puts
  <2> QED BY <1>3, <2>1, <2>2
<1> QED BY <1>3, <1>4 DEF vs

\* Two points that have a register in common overlap.
LEMMA CommonRegister ==
    ASSUME NEW p \in Points, NEW q \in Points, unitOf[p.device] = unitOf[q.device], p.table = q.table,
           NEW a \in Nat, a >= p.address, a < p.address + p.quantity, a >= q.address, a < q.address + q.quantity
    PROVE  Overlap(p, q)
<1>1. /\ p.address \in Nat /\ p.quantity \in Nat /\ q.address \in Nat /\ q.quantity \in Nat
  BY PointFacts, SpaceAssumption
<1> QED BY <1>1 DEF Overlap

\* What steps keep of the registers and of what was written.
WritesInv == OwnersInv /\ MemoryOK /\ WriteReadsBack

\* A request to write keeps what can be read back, and adds its own values.
LEMMA BatchWriteStep ==
    ASSUME WritesInv, NEW d \in Device, NEW S \in SUBSET {p \in added : p.device = d /\ p.table \in Writable},
           BatchWrite(d, S)
    PROVE  MemoryOK' /\ WriteReadsBack'
<1> DEFINE u == unitOf[d]
           mem == memory[u]
<1>1. /\ GroupsInv /\ added \subseteq Points /\ written \subseteq added /\ IsFiniteSet(added) /\ MemoryOK
      /\ \A p \in written : unitOf[p.device] # 0 /\ ~(p.byteSwap /\ p.quantity > 1) => Held(p) = valueOf[p]
  BY DEF WritesInv, OwnersInv, PlacesInv, GroupsInv, TypeOK, WriteReadsBack
<1>2. /\ S \in SUBSET Points /\ S \subseteq added /\ IsFiniteSet(S)
      /\ \A p \in S : p.device = d
  BY <1>1, FS_Subset
<1>3. u \in Unit /\ mem \in Memories /\ memory \in [Unit -> Memories]
  BY <1>1, UnitsAssumption DEF MemoryOK, Memories
<1>4. PICK f \in Sorted(S) :
         LET writes == IF u = 0 THEN <<>> ELSE Merged([i \in 1..Len(f) |-> WriteValue(f[i])])
         IN  \E ok \in SUBSET (1..Len(writes)), failed \in BOOLEAN :
               /\ ok # 1..Len(writes) => failed
               /\ memory' = [memory EXCEPT ![u] = Written(@, writes, ok)]
               /\ written' = {p \in written : \A q \in S : ~Overlap(p, q)} \cup
                             {p \in S : ~failed /\ \A q \in S \ {p} : ~Overlap(p, q)}
  BY DEF BatchWrite
<1> DEFINE vs == [i \in 1..Len(f) |-> WriteValue(f[i])]
           ws == IF u = 0 THEN <<>> ELSE Merged(vs)
<1>5. PICK ok \in SUBSET (1..Len(ws)), failed \in BOOLEAN :
               /\ ok # 1..Len(ws) => failed
               /\ memory' = [memory EXCEPT ![u] = Written(@, ws, ok)]
               /\ written' = {p \in written : \A q \in S : ~Overlap(p, q)} \cup
                             {p \in S : ~failed /\ \A q \in S \ {p} : ~Overlap(p, q)}
  BY <1>4
<1>6. /\ vs \in Seq(Writes)
      /\ \A t, a, w : Puts(vs, Len(vs), t, a, w) <=> \E p \in S : Covers(WriteValue(p), t, a, w)
  BY <1>2, ValuesPut
<1> HIDE DEF vs, mem, u
<1>7. /\ ws \in Seq(Writes)
      /\ \A t, w : \A a \in Nat : Puts(ws, Len(ws), t, a, w) <=>
                                     u # 0 /\ \E p \in S : Covers(WriteValue(p), t, a, w)
  <2>1. CASE u = 0
    <3>1. ws = <<>> /\ Len(ws) = 0 /\ ws \in Seq(Writes)
      BY <2>1
    <3> QED BY <2>1, <3>1 DEF Puts
  <2>2. CASE u # 0
    <3>1. ws = Merged(vs)
      BY <2>2
    <3> HIDE DEF ws
    <3> QED BY <1>6, <2>2, <3>1, MergedFacts
  <2> QED BY <2>1, <2>2
<1> HIDE DEF ws
<1> DEFINE new == Written(mem, ws, ok)
<1>8. /\ new \in Memories
      /\ \A t \in Table : \A a \in 0..(Space - 1) :
            (~\E w : Puts(ws, Len(ws), t, a, w)) => new[t][a] = mem[t][a]
      /\ \A t \in Table : \A a \in 0..(Space - 1) : \A x :
            ok = 1..Len(ws) /\ Puts(ws, Len(ws), t, a, x) /\ (\A w : Puts(ws, Len(ws), t, a, w) => w = x)
               => new[t][a] = x
  BY <1>3, <1>7, WrittenFacts
<1>9. memory' = [memory EXCEPT ![u] = new]
  BY <1>5 DEF mem
<1> HIDE DEF new
<1>10. MemoryOK'
  BY <1>3, <1>8, <1>9 DEF MemoryOK, Memories
<1>11. memory'[u] = new /\ \A v \in Unit : v # u => memory'[v] = memory[v]
  BY <1>3, <1>9
<1>12. ASSUME NEW p \in added
       PROVE  /\ p \in Points /\ p.table \in Table /\ p.quantity \in Nat /\ p.address \in Nat
              /\ unitOf[p.device] \in Unit
              /\ Held(p) = [i \in 1..p.quantity |->
                               Turned(p, memory[unitOf[p.device]][p.table][RegisterOf(p, i)])]
              /\ Held(p)' = [i \in 1..p.quantity |->
                                Turned(p, memory'[unitOf[p.device]][p.table][RegisterOf(p, i)])]
              /\ \A i \in 1..p.quantity :
                    /\ RegisterOf(p, i) \in 0..(Space - 1) /\ RegisterOf(p, i) \in Nat
                    /\ RegisterOf(p, i) >= p.address /\ RegisterOf(p, i) < p.address + p.quantity
  <2>1. p \in Points
    BY <1>1
  <2>2. /\ p.table \in Table /\ p.quantity \in Nat /\ p.address \in Nat /\ unitOf[p.device] \in Unit
        /\ p.address + p.quantity <= Space
    BY <2>1, PointFacts, SpaceAssumption
  <2>3. \A i \in 1..p.quantity :
                    /\ RegisterOf(p, i) \in 0..(Space - 1) /\ RegisterOf(p, i) \in Nat
                    /\ RegisterOf(p, i) >= p.address /\ RegisterOf(p, i) < p.address + p.quantity
    <3> TAKE i \in 1..p.quantity
    <3>1. RegisterOf(p, i) \in p.address..(p.address + p.quantity - 1)
      BY <2>1, PartnerFacts
    <3> QED BY <2>2, <3>1, SpaceAssumption
  <2> QED BY <2>1, <2>2, <2>3 DEF Held, Turned
<1>13. ASSUME NEW p \in written, \A q \in S : ~Overlap(p, q),
              unitOf[p.device] # 0, ~(p.byteSwap /\ p.quantity > 1)
       PROVE  Held(p)' = valueOf[p]
  <2>1. p \in added /\ p \in Points
    BY <1>1
  <2>2. ASSUME NEW i \in 1..p.quantity
        PROVE  memory'[unitOf[p.device]][p.table][RegisterOf(p, i)]
                  = memory[unitOf[p.device]][p.table][RegisterOf(p, i)]
    <3> DEFINE a == RegisterOf(p, i)
    <3>1. a \in 0..(Space - 1) /\ a \in Nat /\ a >= p.address /\ a < p.address + p.quantity
      BY <1>12, <2>1
    <3> HIDE DEF a
    <3>2. CASE unitOf[p.device] # u
      BY <1>11, <1>12, <2>1, <3>2
    <3>3. CASE unitOf[p.device] = u
      <4>1. ASSUME NEW q \in S, NEW w, Covers(WriteValue(q), p.table, a, w) PROVE FALSE
        <5>1. q \in Points /\ unitOf[q.device] = u
          BY <1>2 DEF u
        <5>2. q.table = p.table /\ a >= q.address /\ a < q.address + q.quantity
          BY <4>1, <5>1, WriteValueFacts
        <5>3. Overlap(p, q)
          BY <2>1, <3>1, <3>3, <5>1, <5>2, CommonRegister
        <5> QED BY <1>13, <5>3
      <4>2. ~\E w : Puts(ws, Len(ws), p.table, a, w)
        BY <1>7, <3>1, <4>1
      <4>3. new[p.table][a] = mem[p.table][a]
        BY <1>8, <1>12, <2>1, <3>1, <4>2
      <4> QED BY <1>11, <3>3, <4>3 DEF mem, a
    <3> QED BY <3>2, <3>3 DEF a
  <2>3. Held(p)' = Held(p)
    BY <1>12, <2>1, <2>2
  <2> QED BY <1>1, <1>13, <2>3
<1>14. ASSUME NEW p \in S, ~failed, \A q \in S \ {p} : ~Overlap(p, q),
              unitOf[p.device] # 0, ~(p.byteSwap /\ p.quantity > 1)
       PROVE  Held(p)' = valueOf[p]
  <2>1. p \in added /\ p \in Points /\ unitOf[p.device] = u /\ u # 0 /\ ok = 1..Len(ws)
    BY <1>2, <1>5, <1>14 DEF u
  <2>2. ASSUME NEW i \in 1..p.quantity
        PROVE  Turned(p, memory'[u][p.table][RegisterOf(p, i)]) = valueOf[p][i]
    <3> DEFINE a == RegisterOf(p, i)
               j == p.quantity + 1 - Partner(p, i)
               x == Encode(p, valueOf[p])[j]
    <3>1. a \in 0..(Space - 1) /\ a \in Nat /\ a >= p.address /\ a < p.address + p.quantity
      BY <1>12, <2>1
    <3>2. a - p.address + 1 = j
      <4>1. a = p.address + p.quantity - Partner(p, i) /\ Partner(p, i) \in 1..p.quantity
        BY <2>1, PartnerFacts
      <4>2. p.address \in Nat /\ p.quantity \in Nat
        BY <1>12, <2>1
      <4>3. \A b \in Nat : \A c \in Nat : \A e \in 1..c : (b + c - e) - b + 1 = c + 1 - e
        OBVIOUS
      <4> QED BY <4>1, <4>2, <4>3
    <3>3. Turned(p, x) = valueOf[p][i]
      BY <1>14, <2>1, EncodeIs
    <3> HIDE DEF a, j
    <3>4. Covers(WriteValue(p), p.table, a, x)
      BY <2>1, <3>1, <3>2, WriteValueFacts
    <3>5. Puts(ws, Len(ws), p.table, a, x)
      BY <1>7, <2>1, <3>1, <3>4
    <3>6. ASSUME NEW w, Puts(ws, Len(ws), p.table, a, w) PROVE w = x
      <4>1. PICK q \in S : Covers(WriteValue(q), p.table, a, w)
        BY <1>7, <3>1, <3>6
      <4>2. q \in Points /\ unitOf[q.device] = u
        BY <1>2 DEF u
      <4>3. /\ q.table = p.table /\ a >= q.address /\ a < q.address + q.quantity
            /\ w = Encode(q, valueOf[q])[a - q.address + 1]
        BY <4>1, <4>2, WriteValueFacts
      <4>4. Overlap(p, q)
        BY <2>1, <3>1, <4>2, <4>3, CommonRegister
      <4>5. q = p
        BY <1>14, <4>4
      <4> QED BY <3>2, <4>3, <4>5
    <3> HIDE DEF x
    <3>7. new[p.table][a] = x
      BY <1>8, <1>12, <2>1, <3>1, <3>5, <3>6
    <3> QED BY <1>11, <3>3, <3>7 DEF a
  <2>3. Held(p)' = [i \in 1..p.quantity |-> valueOf[p][i]]
    BY <1>12, <2>1, <2>2
  <2>4. valueOf[p] = [i \in 1..p.quantity |-> valueOf[p][i]]
    BY <2>1, ValuesAssumption
  <2> QED BY <2>3, <2>4
<1>15. WriteReadsBack'
  <2>1. \A p : Held(p)' = Held(p)'
    OBVIOUS
  <2>2. ASSUME NEW p \in written', unitOf[p.device] # 0, ~(p.byteSwap /\ p.quantity > 1)
        PROVE  Held(p)' = valueOf[p]
    BY <1>5, <1>13, <1>14, <2>2
  <2> QED BY <2>2 DEF WriteReadsBack
<1> QED BY <1>10, <1>15

\* There are no groups at first, and the registers hold words.
LEMMA InitOwners == Init => OwnersInv /\ MemoryOK
<1> SUFFICES ASSUME Init PROVE OwnersInv /\ MemoryOK
  OBVIOUS
<1>1. GroupsInv /\ added = {} /\ \A u \in Unit : groups[u] = <<>>
  BY InitGroups DEF Init
<1>2. \A u \in Unit : \A i, k, q : ~Place(groups[u], i, k, q)
  BY <1>1 DEF Place
<1>3. PlacesInv
  BY <1>1, <1>2 DEF PlacesInv
<1>4. IsFiniteSet(added)
  BY <1>1, FS_EmptySet
<1>5. \A u \in Unit : /\ IndexesDiffer(groups[u], building, groupIndex)
                     /\ \A i \in 1..Len(groups[u]) : HomeOf(groups[u][i], u)
  BY <1>1 DEF IndexesDiffer
<1>6. \A a \in 0..(Space - 1) : Untouched(a) \in Word
  BY SpaceAssumption DEF Untouched, Word
<1>7. MemoryOK
  BY <1>6 DEF Init, MemoryOK
<1> QED BY <1>1, <1>3, <1>4, <1>5, <1>7 DEF OwnersInv

\* Nothing else changes what the slaves hold.
LEMMA WritesStep == WritesInv /\ [Next]_vars => WritesInv'
<1> SUFFICES ASSUME WritesInv, [Next]_vars PROVE WritesInv'
  OBVIOUS
<1>1. OwnersInv'
  BY OwnersStep DEF WritesInv
<1>2. ASSUME NEW d \in Device, NEW S \in SUBSET {p \in added : p.device = d /\ p.table \in Writable},
             BatchWrite(d, S)
      PROVE  MemoryOK' /\ WriteReadsBack'
  BY <1>2, BatchWriteStep
<1>3. ASSUME UNCHANGED <<memory, written>> PROVE MemoryOK' /\ WriteReadsBack'
  <2>1. MemoryOK' /\ \A p \in Points : Held(p)' = Held(p)
    BY <1>3 DEF WritesInv, MemoryOK, Held
  <2>2. written' = written /\ written \subseteq Points
    BY <1>3 DEF WritesInv, OwnersInv, PlacesInv, GroupsInv, TypeOK
  <2>3. \A p \in written : unitOf[p.device] # 0 /\ ~(p.byteSwap /\ p.quantity > 1) => Held(p) = valueOf[p]
    BY DEF WritesInv, WriteReadsBack
  <2>4. \A p \in written' : unitOf[p.device] # 0 /\ ~(p.byteSwap /\ p.quantity > 1) => Held(p)' = valueOf[p]
    BY <2>1, <2>2, <2>3
  <2> QED BY <2>1, <2>4 DEF WriteReadsBack
<1>4. \/ \E d \in Device : \E S \in SUBSET {p \in added : p.device = d /\ p.table \in Writable} :
            BatchWrite(d, S)
      \/ UNCHANGED <<memory, written>>
  BY DEF Next, Group, createPointGroup, BeginDevice, StartCollecting, Collect, ReadRequest, vars
<1> QED BY <1>1, <1>2, <1>3, <1>4 DEF WritesInv

\* What callers write can be read back until its registers are written again, however the values
\* of a request were sorted and merged (batchWriteEncode, adapter.go:97-146), but for unit 0 and
\* values of several registers with byteSwap.
THEOREM WritesAlwaysReadBack == Spec => []WriteReadsBack
<1>1. Init => WritesInv
  <2>1. Init => WriteReadsBack
    BY DEF Init, WriteReadsBack
  <2> QED BY <2>1, InitOwners DEF WritesInv
<1>2. WritesInv => WriteReadsBack
  BY DEF WritesInv
<1> QED BY <1>1, <1>2, WritesStep, PTL DEF Spec

-----------------------------------------------------------------------------
(* Reads are true *)

\* What a read tells of a point is what the point's registers hold, and it tells of every point
\* of the groups that are read.
LEMMA SendFacts ==
    ASSUME OwnersInv, MemoryOK, NEW u \in Unit, NEW is \in Seq(1..Len(groups[u])), sendReadCommand(u, is)
    PROVE  /\ \A p \in added : reported'[p] # NoValue /\ ~Disturbed(p) => reported'[p] = Told(p)
           /\ \A n \in 1..Len(is) : \A k \in 1..Len(groups[u][is[n]].points) :
                 reported'[groups[u][is[n]].points[k]] # NoValue
<1> DEFINE reports == UNION {Reports(u, groups[u][is[n]]) : n \in 1..Len(is)}
           told(p) == \E r \in reports : r[1] = p
           one(p) == CHOOSE r \in reports : r[1] = p
<1>1. GroupsInv /\ added \subseteq Points
  BY DEF OwnersInv, PlacesInv, GroupsInv, TypeOK
<1>2. /\ \A n \in 1..Len(is) : Spans(groups[u][is[n]])
      /\ reported' = [p \in Points |-> IF told(p) THEN one(p)[2] ELSE NoValue]
  BY DEF sendReadCommand
<1>3. \A n \in 1..Len(is) : is[n] \in 1..Len(groups[u])
  OBVIOUS
<1>4. ASSUME NEW r \in reports
      PROVE  \E n \in 1..Len(is) : \E k \in 1..Len(groups[u][is[n]].points) :
                r = <<groups[u][is[n]].points[k], Values(u, groups[u][is[n]])[k]>>
  BY DEF Reports
<1>5. ASSUME NEW n \in 1..Len(is), NEW k \in 1..Len(groups[u][is[n]].points)
      PROVE  <<groups[u][is[n]].points[k], Values(u, groups[u][is[n]])[k]>> \in reports
  BY DEF Reports
<1> HIDE DEF reports
<1>6. ASSUME NEW i \in 1..Len(groups[u]), Spans(groups[u][i]), NEW k \in 1..Len(groups[u][i].points)
      PROVE  /\ Values(u, groups[u][i])[k] # NoValue
             /\ ~Disturbed(groups[u][i].points[k]) =>
                   Values(u, groups[u][i])[k] = Told(groups[u][i].points[k])
  <2>1. groups[u][i] \in GroupRec /\ groups[u][i].address + groups[u][i].quantity <= Space
    BY <1>1, GroupFacts DEF GroupOK
  <2>2. Values(u, groups[u][i])[k] # NoValue
    BY <1>6, <2>1, ValuesType
  <2>3. ~Disturbed(groups[u][i].points[k]) => Values(u, groups[u][i])[k] = Told(groups[u][i].points[k])
    BY <1>6, ValuesAreHeld
  <2> QED BY <2>2, <2>3
<1>7. ASSUME NEW p \in Points, told(p)
      PROVE  /\ reported'[p] # NoValue
             /\ ~Disturbed(p) => reported'[p] = Told(p)
  <2>1. one(p) \in reports /\ one(p)[1] = p
    BY <1>7
  <2>2. PICK n \in 1..Len(is) : \E k \in 1..Len(groups[u][is[n]].points) :
              one(p) = <<groups[u][is[n]].points[k], Values(u, groups[u][is[n]])[k]>>
    BY <1>4, <2>1
  <2>3. PICK k \in 1..Len(groups[u][is[n]].points) :
              one(p) = <<groups[u][is[n]].points[k], Values(u, groups[u][is[n]])[k]>>
    BY <2>2
  <2>4. reported'[p] = one(p)[2]
    BY <1>2, <1>7
  <2> HIDE DEF one
  <2>5. groups[u][is[n]].points[k] = p /\ one(p)[2] = Values(u, groups[u][is[n]])[k]
    BY <2>1, <2>3
  <2> QED BY <1>2, <1>3, <1>6, <2>4, <2>5
<1>8. ASSUME NEW p \in added, reported'[p] # NoValue, ~Disturbed(p) PROVE reported'[p] = Told(p)
  <2>1. p \in Points /\ told(p)
    BY <1>1, <1>2, <1>8
  <2> QED BY <1>7, <1>8, <2>1
<1>9. ASSUME NEW n \in 1..Len(is), NEW k \in 1..Len(groups[u][is[n]].points)
      PROVE  reported'[groups[u][is[n]].points[k]] # NoValue
  <2> DEFINE p == groups[u][is[n]].points[k]
  <2>1. p \in Points
    BY <1>1, <1>3, GroupFacts
  <2>2. told(p)
    BY <1>5
  <2> HIDE DEF p
  <2> QED BY <1>7, <2>1, <2>2 DEF p
<1> QED BY <1>8, <1>9

\* A set of numbers that is not empty has a least one.
LEMMA FirstFacts ==
    ASSUME NEW H \in SUBSET Nat, H # {}
    PROVE  First(H) \in H
<1> DEFINE R == OpToRel(<, Nat)
<1>1. IsWellFoundedOn(OpToRel(<, Nat), Nat)
  BY NatLessThanWellFounded, Zenon
<1>2. \A x, y \in Nat : y < x => <<y, x>> \in R
  BY DEF OpToRel
<1> HIDE DEF R
<1>3. PICK m \in H : \A k \in H : <<k, m>> \notin R
  BY <1>1, WFMin, Zenon DEF R
<1>4. \A j \in H : m <= j
  <2> TAKE j \in H
  <2>1. j \in Nat /\ m \in Nat /\ <<j, m>> \notin R
    BY <1>3
  <2>2. ~(j < m)
    BY <1>2, <2>1
  <2> QED BY <2>1, <2>2
<1> QED BY <1>4 DEF First

\* What the next name adds to the groups of a request.
WithGroupOf(u, s, m) ==
    IF \/ Holding(u, m) = {}
       \/ \E n \in 1..Len(s) : groups[u][s[n]].index = groups[u][First(Holding(u, m))].index
    THEN s
    ELSE Append(s, First(Holding(u, m)))

\* A group with the index of the one that has the name is among the first n.
Found(u, s, m) == \E n \in 1..Len(s) : groups[u][s[n]].index = groups[u][First(Holding(u, m))].index

\* A step finds the group of its name and keeps those that were found.
LEMMA WithGroupOfFacts ==
    ASSUME NEW u, NEW s \in Seq(1..Len(groups[u])), NEW m
    PROVE  /\ WithGroupOf(u, s, m) \in Seq(1..Len(groups[u]))
           /\ Holding(u, m) # {} => First(Holding(u, m)) \in Holding(u, m) /\ Found(u, WithGroupOf(u, s, m), m)
           /\ \A l : Found(u, s, l) => Found(u, WithGroupOf(u, s, m), l)
<1> DEFINE f == First(Holding(u, m))
           I == 1..Len(groups[u])
           r == WithGroupOf(u, s, m)
<1>1. Holding(u, m) \subseteq I /\ Holding(u, m) \subseteq Nat
  BY DEF Holding
<1>2. Holding(u, m) # {} => f \in Holding(u, m) /\ f \in I
  BY <1>1, FirstFacts
<1>3. CASE Holding(u, m) = {} \/ Found(u, s, m)
  <2>1. r = s
    BY <1>3 DEF WithGroupOf, Found
  <2> QED BY <1>2, <1>3, <2>1
<1>4. CASE Holding(u, m) # {} /\ ~Found(u, s, m)
  <2>1. r = Append(s, f)
    BY <1>4 DEF WithGroupOf, Found
  <2>2. f \in I
    BY <1>2, <1>4
  <2> HIDE DEF f, I, r
  <2>3. s \in Seq(I)
    BY DEF I
  <2>4. /\ r \in Seq(I) /\ Len(r) = Len(s) + 1 /\ r[Len(s) + 1] = f
        /\ \A n \in 1..Len(s) : r[n] = s[n] /\ n \in 1..Len(r)
        /\ Len(s) + 1 \in 1..Len(r)
    BY <2>1, <2>2, <2>3
  <2>5. Found(u, r, m)
    BY <2>4 DEF Found, f
  <2>6. \A l : Found(u, s, l) => Found(u, r, l)
    BY <2>4 DEF Found
  <2> QED BY <1>2, <2>4, <2>5, <2>6 DEF I, r, f
<1> QED BY <1>3, <1>4

\* A request finds a group with the index of the one it wants for every name that any has.
LEMMA GroupsOfFacts ==
    ASSUME NEW d, NEW names \in Seq(STRING)
    PROVE  /\ GroupsOf(d, names) \in Seq(1..Len(groups[unitOf[d]]))
           /\ \A k \in 1..Len(names) :
                 Holding(unitOf[d], names[k]) # {} => Found(unitOf[d], GroupsOf(d, names), names[k])
<1> DEFINE u == unitOf[d]
           X == Seq(1..Len(groups[u]))
           N == Len(names)
           F == [k \in 1..N |-> [s \in X |-> WithGroupOf(u, s, names[k])]]
           Steps(f) == [k \in 0..N |-> IF k = 0 THEN <<>> ELSE WithGroupOf(u, f[k - 1], names[k])]
           h == CHOOSE f : f = Steps(f)
           a == <<>>
<1>1. N \in Nat
  OBVIOUS
<1>2. \A k \in 1..N : \A s \in X : WithGroupOf(u, s, names[k]) \in X
  BY WithGroupOfFacts
<1>3. a \in X
  OBVIOUS
<1> HIDE DEF N, a
<1>4. F \in [1..N -> [X -> X]]
  <2> HIDE DEF X
  <2> QED BY <1>2
<1>5. PICK f \in [0..N -> X] : f[0] = a /\ \A k \in 1..N : f[k] = F[k][f[k - 1]]
  <2> HIDE DEF F, X
  <2>0. a \in X /\ N \in Nat /\ F \in [1..N -> [X -> X]]
    BY <1>1, <1>3, <1>4
  <2>1. \E f \in [0..N -> X] : f[0] = a /\ \A k \in 1..N : f[k] = F[k][f[k - 1]]
    BY <2>0, Recursion, SMTT(60)
  <2> QED BY <2>1
<1>6. f = Steps(f)
  <2>1. \A k \in 1..N : f[k - 1] \in X
    <3> HIDE DEF X
    <3> QED BY <1>1, <1>5
  <2>2. \A k \in 1..N : f[k] = WithGroupOf(u, f[k - 1], names[k])
    <3> HIDE DEF X, u
    <3> QED BY <1>5, <2>1
  <2> HIDE DEF X, u
  <2> QED BY <1>5, <2>2 DEF a
<1>7. h = Steps(h)
  <2> HIDE DEF Steps
  <2> QED BY <1>6, Zenon
<1>8. GroupsOf(d, names) = h[N]
  BY Zenon DEF GroupsOf, WithGroupOf, N
<1> HIDE DEF h
<1>9. h[0] = a /\ \A k \in 1..N : h[k] = WithGroupOf(u, h[k - 1], names[k])
  <2> HIDE DEF u
  <2> QED BY <1>1, <1>7 DEF a
<1> DEFINE Wanted(k) == Holding(u, names[k]) # {}
           Done(k) == h[k] \in X /\ \A j \in 1..k : Wanted(j) => Found(u, h[k], names[j])
           S == {k \in 0..N : Done(k)}
<1> HIDE DEF u, X
<1>10. 0 \in S
  <2>1. Done(0)
    BY <1>3, <1>9
  <2> HIDE DEF Done
  <2> QED BY <1>1, <2>1
<1>11. ASSUME NEW k \in 1..N, k - 1 \in S PROVE k \in S
  <2> DEFINE s == h[k - 1]
             m == names[k]
  <2>1. s \in X /\ h[k] = WithGroupOf(u, s, m) /\ \A j \in 1..(k - 1) : Wanted(j) => Found(u, s, names[j])
    BY <1>9, <1>11
  <2> HIDE DEF s, m
  <2>2. /\ h[k] \in X
        /\ Holding(u, m) # {} => Found(u, h[k], m)
        /\ \A l : Found(u, s, l) => Found(u, h[k], l)
    BY <2>1, WithGroupOfFacts DEF X
  <2>3. \A j \in 1..k : j = k \/ j \in 1..(k - 1)
    BY <1>1
  <2>4. Done(k)
    BY <2>1, <2>2, <2>3 DEF m
  <2>5. k \in 0..N
    BY <1>1
  <2> HIDE DEF Done
  <2> QED BY <2>4, <2>5
<1>12. Done(N)
  <2> HIDE DEF S
  <2>1. \A k \in 0..N : k \in S
    BY <1>1, <1>10, <1>11, StepByStep
  <2>2. N \in S
    BY <1>1, <2>1
  <2> QED BY <2>2 DEF S
<1> QED BY <1>8, <1>12 DEF N, u, X

\* What steps keep of the last read.
ReadsInv ==
    /\ WritesInv
    /\ ~started => request = {} /\ \A p \in Points : reported[p] = NoValue
    /\ ReportsWhatIsHeld
    /\ request \subseteq added
    /\ RequestsReadTheirPoints

\* What a request for points has read, if none of its reads failed.
LEMMA RequestFacts ==
    ASSUME OwnersInv, MemoryOK, NEW d \in Device, NEW names \in Seq(STRING), ReadRequest(d, names),
           NEW p \in request', \A q \in added : unitOf[q.device] = unitOf[p.device] => q.device = p.device
    PROVE  reported'[p] # NoValue
<1> DEFINE is == GroupsOf(d, names)
           u == unitOf[d]
<1>1. PICK n \in 0..Len(is) :
         /\ sendReadCommand(u, SubSeq(is, 1, n))
         /\ request' = {q \in added : q.device = d /\ n = Len(is) /\ \E k \in 1..Len(names) : q.name = names[k]}
  BY DEF ReadRequest
<1>2. PICK k \in 1..Len(names) : p.name = names[k]
  BY <1>1
<1>3. p \in added /\ p.device = d /\ n = Len(is)
  BY <1>1
<1>4. /\ GroupsInv /\ added \subseteq Points /\ p \in Points /\ u \in Unit
      /\ \A x, y \in added : x.device = y.device /\ x.name = y.name => x = y
      /\ \A i \in 1..Len(groups[u]) : HomeOf(groups[u][i], u)
      /\ \A i, j \in 1..Len(groups[u]) :
            Owner(groups[u][i]) = Owner(groups[u][j]) /\ groups[u][i].index = groups[u][j].index => i = j
  BY <1>3, UnitsAssumption DEF OwnersInv, PlacesInv, GroupsInv, TypeOK, IndexesDiffer
<1>5. /\ is \in Seq(1..Len(groups[u]))
      /\ Holding(u, p.name) # {} => Found(u, is, p.name)
  BY <1>2, GroupsOfFacts
<1>6. \A i \in 1..Len(groups[u]) : \A l \in 1..Len(groups[u][i].points) :
         groups[u][i].points[l] \in added /\ groups[u][i].points[l].device = d
  <2> TAKE i \in 1..Len(groups[u])
  <2> TAKE l \in 1..Len(groups[u][i].points)
  <2>1. groups[u][i].points[l] \in added
    BY <1>4, GroupFacts
  <2>2. unitOf[groups[u][i].points[l].device] = u
    BY <1>4 DEF HomeOf
  <2> QED BY <1>3, <2>1, <2>2
<1> HIDE DEF is
<1>7. PICK i, l : i \in 1..Len(groups[u]) /\ l \in 1..Len(groups[u][i].points) /\ groups[u][i].points[l] = p
  <2>1. PICK i, l : Place(groups[unitOf[p.device]], i, l, p)
    BY <1>3 DEF OwnersInv, PlacesInv
  <2>2. Place(groups[u], i, l, p)
    BY <1>3, <2>1
  <2> QED BY <2>2 DEF Place
<1>8. Holding(u, p.name) # {} /\ Holding(u, p.name) \subseteq 1..Len(groups[u])
  BY <1>7 DEF Holding
<1> DEFINE m == First(Holding(u, p.name))
<1>9. m \in Holding(u, p.name)
  <2>1. Holding(u, p.name) \in SUBSET Nat
    BY <1>8
  <2> QED BY <1>8, <2>1, FirstFacts
<1> HIDE DEF m
<1>10. PICK j \in 1..Len(groups[u][m].points) : groups[u][m].points[j].name = p.name
  BY <1>9 DEF Holding
<1>11. m \in 1..Len(groups[u]) /\ groups[u][m].points[j] = p
  <2>1. m \in 1..Len(groups[u])
    BY <1>8, <1>9
  <2>2. groups[u][m].points[j] \in added /\ groups[u][m].points[j].device = d
    BY <1>6, <2>1
  <2> DEFINE y == groups[u][m].points[j]
  <2>3. y \in added /\ y.device = p.device /\ y.name = p.name
    BY <1>3, <1>10, <2>2
  <2> HIDE DEF y
  <2>4. y = p
    BY <1>3, <1>4, <2>3
  <2> QED BY <2>1, <2>4 DEF y
<1>12. PICK x \in 1..Len(is) : groups[u][is[x]].index = groups[u][m].index
  BY <1>5, <1>8 DEF Found, m
<1>13. is[x] \in 1..Len(groups[u])
  BY <1>5
<1>14. Owner(groups[u][is[x]]) = d /\ Owner(groups[u][m]) = d
  <2>1. 1 \in 1..Len(groups[u][is[x]].points) /\ 1 \in 1..Len(groups[u][m].points)
    BY <1>4, <1>11, <1>13, GroupFacts
  <2> QED BY <1>6, <1>11, <1>13, <2>1 DEF Owner
<1>15. is[x] = m
  BY <1>4, <1>11, <1>12, <1>13, <1>14
<1>16. SubSeq(is, 1, n) = is
  <2> DEFINE I == 1..Len(groups[u])
  <2> HIDE DEF I
  <2>1. is \in Seq(I)
    BY <1>5 DEF I
  <2> QED BY <1>3, <2>1
<1>17. sendReadCommand(u, is)
  BY <1>1, <1>16
<1>18. reported'[groups[u][is[x]].points[j]] # NoValue
  <2>1. \A n1 \in 1..Len(is) : \A k1 \in 1..Len(groups[u][is[n1]].points) :
           reported'[groups[u][is[n1]].points[k1]] # NoValue
    BY <1>4, <1>5, <1>17, SendFacts
  <2>2. j \in 1..Len(groups[u][is[x]].points)
    BY <1>15
  <2> QED BY <2>1, <2>2
<1> QED BY <1>11, <1>15, <1>18

\* Every step keeps what reads have told true.
LEMMA ReadsStep == ReadsInv /\ [Next]_vars => ReadsInv'
<1> SUFFICES ASSUME ReadsInv, [Next]_vars PROVE ReadsInv'
  OBVIOUS
<1>1. /\ WritesInv' /\ OwnersInv /\ MemoryOK
      /\ added \subseteq Points /\ added' \subseteq Points
  <2>1. WritesInv' /\ WritesInv
    BY WritesStep DEF ReadsInv
  <2> QED BY <2>1 DEF WritesInv, OwnersInv, PlacesInv, GroupsInv, TypeOK
<1>2. ASSUME request' = {}, \A p \in Points : reported'[p] = NoValue PROVE ReadsInv'
  <2>1. ReportsWhatIsHeld'
    BY <1>1, <1>2 DEF ReportsWhatIsHeld
  <2>2. RequestsReadTheirPoints'
    BY <1>2 DEF RequestsReadTheirPoints
  <2> QED BY <1>1, <1>2, <2>1, <2>2 DEF ReadsInv
<1>3. ASSUME ~started, UNCHANGED <<reported, request>> PROVE ReadsInv'
  BY <1>2, <1>3 DEF ReadsInv
<1>4. ASSUME started, UNCHANGED <<grouping, memory>>,
             \A p \in added : reported'[p] # NoValue /\ ~Disturbed(p) => reported'[p] = Told(p),
             request' \subseteq added, RequestsReadTheirPoints'
      PROVE  ReadsInv'
  <2>1. added' = added /\ started' = started
    BY <1>4 DEF grouping
  <2>2. \A p \in added : (Disturbed(p)' <=> Disturbed(p)) /\ Told(p)' = Told(p)
    BY <1>4, <2>1 DEF Disturbed, Told, Held
  <2>3. ReportsWhatIsHeld'
    BY <1>4, <2>1, <2>2 DEF ReportsWhatIsHeld
  <2> QED BY <1>1, <1>4, <2>1, <2>3 DEF ReadsInv
<1>5. ASSUME NEW u \in Unit, NEW i \in 1..Len(groups[u]), Collect(u, i) PROVE ReadsInv'
  <2>1. <<i>> \in Seq(1..Len(groups[u])) /\ sendReadCommand(u, <<i>>)
    BY <1>5 DEF Collect
  <2>2. \A p \in added : reported'[p] # NoValue /\ ~Disturbed(p) => reported'[p] = Told(p)
    BY <1>1, <2>1, SendFacts
  <2>3. started /\ UNCHANGED <<grouping, memory>> /\ request' = {}
    BY <1>5 DEF Collect
  <2>4. RequestsReadTheirPoints'
    BY <2>3 DEF RequestsReadTheirPoints
  <2> QED BY <1>4, <2>2, <2>3, <2>4
<1>6. ASSUME NEW p \in added, NEW q \in added, ReadRequest(p.device, <<p.name, q.name>>) PROVE ReadsInv'
  <2> DEFINE d == p.device
             names == <<p.name, q.name>>
             u == unitOf[d]
             is == GroupsOf(d, names)
  <2>1. d \in Device /\ u \in Unit /\ names \in Seq(STRING)
    BY <1>1, PointsAssumption, UnitsAssumption DEF PointRec
  <2>2. started /\ UNCHANGED <<grouping, memory>> /\ ReadRequest(d, names)
    BY <1>6 DEF ReadRequest
  <2>3. PICK n \in 0..Len(is) : sendReadCommand(u, SubSeq(is, 1, n)) /\ request' \subseteq added
    BY <1>6 DEF ReadRequest
  <2> HIDE DEF names, d
  <2>4. is \in Seq(1..Len(groups[u]))
    BY <2>1, GroupsOfFacts
  <2> HIDE DEF is
  <2>5. SubSeq(is, 1, n) \in Seq(1..Len(groups[u]))
    BY <2>4
  <2>6. \A r \in added : reported'[r] # NoValue /\ ~Disturbed(r) => reported'[r] = Told(r)
    BY <1>1, <2>1, <2>3, <2>5, SendFacts
  <2>7. RequestsReadTheirPoints'
    <3>1. added' = added
      BY <2>2 DEF grouping
    <3>2. ASSUME NEW r \in request', \A x \in added : unitOf[x.device] = unitOf[r.device] => x.device = r.device
          PROVE  reported'[r] # NoValue
      BY <1>1, <2>1, <2>2, <3>2, RequestFacts
    <3> QED BY <3>1, <3>2 DEF RequestsReadTheirPoints
  <2> QED BY <1>4, <2>2, <2>3, <2>6, <2>7
<1>7. ASSUME NEW d \in Device, NEW S, BatchWrite(d, S) PROVE ReadsInv'
  BY <1>2, <1>7 DEF BatchWrite
<1>8. CASE UNCHANGED vars
  <2>1. UNCHANGED <<added, started, memory, reported, request>>
    BY <1>8 DEF vars, grouping
  <2>2. \A p \in added : (Disturbed(p)' <=> Disturbed(p)) /\ Told(p)' = Told(p)
    BY <2>1 DEF Disturbed, Told, Held
  <2>3. ReportsWhatIsHeld' /\ RequestsReadTheirPoints'
    BY <2>1, <2>2 DEF ReadsInv, ReportsWhatIsHeld, RequestsReadTheirPoints
  <2> QED BY <1>1, <2>1, <2>3 DEF ReadsInv
<1>9. \/ ~started /\ UNCHANGED <<reported, request>>
      \/ \E u \in Unit : \E i \in 1..Len(groups[u]) : Collect(u, i)
      \/ \E p, q \in added : ReadRequest(p.device, <<p.name, q.name>>)
      \/ \E d \in Device : \E S : BatchWrite(d, S)
      \/ UNCHANGED vars
  <2>1. CASE (\E d \in Device : BeginDevice(d)) \/ Group \/ StartCollecting
    BY <2>1 DEF BeginDevice, Group, createPointGroup, StartCollecting
  <2>2. CASE \E d \in Device : \E S \in SUBSET {p \in added : p.device = d /\ p.table \in Writable} :
                Cardinality(S) \in 1..MaxBatch /\ BatchWrite(d, S)
    BY <2>2
  <2> QED BY <2>1, <2>2 DEF Next
<1> QED BY <1>3, <1>5, <1>6, <1>7, <1>8, <1>9

\* What a read tells of a point is what its registers hold, whatever group it is in and whatever else
\* is cut out of the same registers in place, and a request that was answered has read every point
\* it named (Encode, adapter.go:52-88; sendReadCommand, connector.go:276-334), for all points and
\* devices, but where points share registers and where devices share a unit; of an INT64 the code
\* tells the low half, and the theorem says no more.
THEOREM ReadsAreAlwaysTrue == Spec => []ReadsAreTrue
<1>1. Init => ReadsInv
  <2> SUFFICES ASSUME Init PROVE ReadsInv
    OBVIOUS
  <2>1. OwnersInv /\ MemoryOK /\ WriteReadsBack
    BY InitOwners DEF Init, WriteReadsBack
  <2>2. request = {} /\ added = {} /\ \A p \in Points : reported[p] = NoValue
    BY DEF Init
  <2>3. ReportsWhatIsHeld /\ RequestsReadTheirPoints
    BY <2>2 DEF ReportsWhatIsHeld, RequestsReadTheirPoints
  <2> QED BY <2>1, <2>2, <2>3 DEF ReadsInv, WritesInv
<1>2. ReadsInv => ReadsAreTrue
  BY DEF ReadsInv, ReadsAreTrue
<1> QED BY <1>1, <1>2, ReadsStep, PTL DEF Spec
=============================================================================
