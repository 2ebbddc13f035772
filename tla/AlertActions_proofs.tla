------------------------ MODULE AlertActions_proofs -------------------------
(***************************************************************************)
(* Proofs about AlertActions: types, ignored users, the group, and the     *)
(* LCRs that alerts hold.                                                  *)
(*                                                                         *)
(* BaseInv says where the daemon is: whatever is set is in the list of its *)
(* alert, the members' nodes of users know their user, and a report is     *)
(* under way on a node that is not ignored, set already if the alert is    *)
(* being cleared.  On it rest three arguments.  A member's node of a user  *)
(* has the user's mark unless a call of the user has left a period or the  *)
(* mark was switched (MarksInv).  A step that sets a member tells the      *)
(* group when it is written down, a pass that clears by time sets none     *)
(* (GroupInv), and while the group is looked at each object that asks for  *)
(* it is in line or has been raised (LooksInv).  And the nodes that hold   *)
(* the LCR of a user, in their order, each keep what was there when they   *)
(* were raised (StackOf): raising reads the LCR before it is overwritten,  *)
(* and nobody else writes it in between without spoiling the order         *)
(* (SavedInv).                                                             *)
(***************************************************************************)
EXTENDS AlertActions, FiniteSetTheorems, SequenceTheorems, WellFoundedInduction, TLAPS

-----------------------------------------------------------------------------
(***************************************************************************)
(* Constants, nodes and calls.                                             *)
(***************************************************************************)
\* The constants, one at a time.
LEMMA Constants ==
    /\ Alerts \subseteq Nat /\ Users \subseteq Nat /\ Devices \subseteq Nat /\ Objects \subseteq Nat
    /\ 0 \notin Alerts /\ IsFiniteSet(Objects) /\ IsFiniteSet(Alerts)
    /\ \A a \in Alerts : Config[a] \in AlertType
    /\ \A d \in Devices : Owner[d] \in Users
    /\ more_than \in Nat /\ less_than \in 0 .. more_than + 1 /\ MaxEvents \in Nat
    /\ Group \in Alerts /\ Members \subseteq Alerts /\ Alerts = Members \cup {Group}
    /\ Group \notin Members
<1>1. Alerts = 1 .. Len(Config) /\ Len(Config) \in Nat
  BY ConstAssumption DEF Alerts
<1>2. IsFiniteSet(1 .. Len(Config))
  BY <1>1, FS_Interval
<1>3. Alerts \subseteq Nat /\ 0 \notin Alerts
  BY <1>1
<1>4. IsFiniteSet(Objects)
  BY ConstAssumption, FS_Union DEF Objects
<1>5. \A a \in Alerts : Config[a] \in AlertType
  BY ConstAssumption DEF Alerts
<1>6. Group \in Alerts
  <2>1. Config \in Seq(AlertType) /\ Config # <<>>
    BY ConstAssumption
  <2>2. Len(Config) > 0
    BY <1>1, <2>1, EmptySeq
  <2> QED
    BY <1>1, <2>2 DEF Group
<1>7. Members \subseteq Alerts /\ Alerts = Members \cup {Group} /\ Group \notin Members
  BY <1>6 DEF Members
<1> QED
  BY <1>1, <1>2, <1>3, <1>4, <1>5, <1>6, <1>7, ConstAssumption DEF Objects

\* What is set in an alert.
LEMMA Settings ==
    ASSUME NEW a \in Alerts
    PROVE  /\ Config[a].check \in {"user", "device"} /\ Config[a].lcr \in Nat
           /\ Config[a].back \in {-1} \cup Nat /\ Config[a].block \in BOOLEAN
           /\ Config[a].timed \in BOOLEAN
<1>1. Config[a] \in AlertType
  BY Constants
<1> QED
  BY <1>1 DEF AlertType

\* What is in a node.
LEMMA NodeFields ==
    ASSUME NEW n \in Node
    PROVE  n.user \in Nat /\ n.saved \in Nat /\ n.ignore \in BOOLEAN /\ n.set \in BOOLEAN
  BY DEF Node

\* The nodes g are the nodes f, but that one keeps the LCR l.
Saved(f, g, a, o, l) ==
    /\ g \in [Alerts -> [Objects -> Node]]
    /\ g[a][o].saved = l
    /\ g[a][o].user = f[a][o].user /\ g[a][o].set = f[a][o].set
    /\ g[a][o].ignore = f[a][o].ignore
    /\ \A x \in Alerts, y \in Objects : <<x, y>> # <<a, o>> => g[x][y] = f[x][y]

\* A node that keeps an LCR, and no other.
LEMMA NodeSaves ==
    ASSUME NEW f \in [Alerts -> [Objects -> Node]], NEW a \in Alerts, NEW o \in Objects,
           NEW l \in Nat, NEW g, g = [f EXCEPT ![a][o].saved = l]
    PROVE  Saved(f, g, a, o, l)
<1> DEFINE n == [f[a][o] EXCEPT !.saved = l]
<1>0. f[a][o] \in Node
  OBVIOUS
<1>1. n \in Node /\ n.saved = l /\ n.user = f[a][o].user /\ n.set = f[a][o].set
      /\ n.ignore = f[a][o].ignore
  <2> DEFINE m == f[a][o]
  <2>1. m \in Node
    BY <1>0
  <2> HIDE DEF m
  <2> QED
    BY <2>1 DEF Node, n, m
<1>2. g = [f EXCEPT ![a] = [f[a] EXCEPT ![o] = n]]
  OBVIOUS
<1> HIDE DEF n
<1>3. g[a][o] = n
  BY <1>2
<1>4. g \in [Alerts -> [Objects -> Node]]
  BY <1>1, <1>2
<1>5. \A x \in Alerts, y \in Objects : <<x, y>> # <<a, o>> => g[x][y] = f[x][y]
  BY <1>2
<1> QED
  BY <1>1, <1>3, <1>4, <1>5 DEF Saved

\* The objects an alert may have a node of.
Kind(a) == IF a = Group THEN Objects ELSE IF Config[a].check = "user" THEN Users ELSE Devices

\* Those of a member.
LEMMA KindMeans ==
    ASSUME NEW a \in Members
    PROVE  /\ a \in Alerts /\ a # Group
           /\ Kind(a) = IF Config[a].check = "user" THEN Users ELSE Devices
  BY Constants DEF Kind

\* What a call leaves of a node.
LEMMA TouchedMeans ==
    ASSUME TypeOK, NEW a \in Members, NEW o \in Kind(a), NEW b \in BOOLEAN
    PROVE  /\ o \in Objects /\ Touched(a, o, b) \in Node
           /\ Touched(a, o, b).set = node[a][o].set
           /\ Touched(a, o, b).saved = node[a][o].saved
           /\ Touched(a, o, b).user =
                IF Config[a].check = "device" /\ o \in Nodes(a) THEN Owner[o] ELSE o
           /\ Config[a].check = "user" /\ b => Touched(a, o, b).ignore = ignores[o]
<1> DEFINE user == IF Config[a].check = "device" /\ o \in Nodes(a) THEN Owner[o] ELSE o
<1> DEFINE ignore == b /\ Config[a].check = "user" /\ ignores[o]
<1> DEFINE n == node[a][o]
<1>1. Config[a].check \in {"user", "device"} /\ a \in Alerts
  BY Settings, Constants
<1>2. o \in Objects /\ o \in Nat
  BY Constants, KindMeans DEF Objects
<1>3. user \in Nat
  BY <1>1, <1>2, Constants, KindMeans
<1>4. n \in Node
  BY <1>1, <1>2 DEF TypeOK
<1>5. ignore \in BOOLEAN
  OBVIOUS
<1>6. Config[a].check = "user" /\ b => ignore = ignores[o]
  <2>1. Config[a].check = "user" => ignores[o] \in BOOLEAN
    BY KindMeans DEF TypeOK
  <2> QED
    BY <2>1
<1>7. Touched(a, o, b) = [n EXCEPT !.user = user, !.ignore = ignore]
  BY DEF Touched
<1> HIDE DEF n, user, ignore
<1>8. /\ [n EXCEPT !.user = user, !.ignore = ignore] \in Node
      /\ [n EXCEPT !.user = user, !.ignore = ignore].set = n.set
      /\ [n EXCEPT !.user = user, !.ignore = ignore].saved = n.saved
      /\ [n EXCEPT !.user = user, !.ignore = ignore].user = user
      /\ [n EXCEPT !.user = user, !.ignore = ignore].ignore = ignore
  BY <1>3, <1>4, <1>5 DEF Node
<1> QED
  BY <1>2, <1>6, <1>7, <1>8 DEF n, user

\* A set of numbers has a least one.
LEMMA LeastNumber ==
    ASSUME NEW S \in SUBSET Nat, S # {}
    PROVE  \E m \in S : \A n \in S : m <= n
<1>1. PICK m \in S : \A n \in S : ~(<<n, m>> \in OpToRel(<, Nat))
  BY WFMin, NatLessThanWellFounded
<1>2. \A n \in S : ~(n < m)
  BY <1>1 DEF OpToRel
<1> QED
  BY <1>2

\* What Min is.
LEMMA MinMeans ==
    ASSUME NEW S \in SUBSET Nat, S # {}
    PROVE  Min(S) \in S /\ \A n \in S : Min(S) <= n
  BY LeastNumber DEF Min

\* The sequences in which calls may come.
LEMMA CallsInOrder ==
    ASSUME NEW In \in SetToAllKPermutations(Devices)
    PROVE  \E m \in Nat : In \in [1 .. m -> Devices]
<1>1. PICK S \in SUBSET Devices : In \in SetToSeqs(S)
  BY DEF SetToAllKPermutations
<1>2. Cardinality(S) \in Nat
  BY <1>1, ConstAssumption, FS_Subset, FS_CardinalityType
<1>3. In \in [1 .. Cardinality(S) -> S]
  BY <1>1 DEF SetToSeqs
<1> QED
  BY <1>2, <1>3

\* Where the nodes of an alert are after the calls of s.
LEMMA PlacedMeans ==
    ASSUME TypeOK, NEW a \in Alerts, NEW In \in SetToAllKPermutations(Devices)
    PROVE  /\ Placed(a, In) \in [Objects -> Nat]
           /\ \A o \in Nodes(a) : Placed(a, In)[o] = place[a][o]
           /\ \A o \in Objects : Placed(a, In)[o] > 0 => o \in Nodes(a) \/ o \in Of(a, ToSet(In))
           /\ ToSet(In) \subseteq Devices
<1>1. PICK m \in Nat : In \in [1 .. m -> Devices]
  BY CallsInOrder
<1>2. ToSet(In) \subseteq Devices
  BY <1>1 DEF ToSet
<1> DEFINE at(o) == {i \in DOMAIN In : ObjectOf(a, In[i]) = o}
<1> DEFINE T(o) == Nodes(a) \cup {ObjectOf(a, In[i]) : i \in 1 .. Min(at(o))}
<1>3. \A i \in 1 .. m : ObjectOf(a, In[i]) \in Objects
  BY <1>1, Constants DEF ObjectOf, Objects
<1>4. ASSUME NEW o \in Objects, at(o) # {} PROVE Cardinality(T(o)) \in Nat
  <2>1. at(o) \in SUBSET Nat
    BY <1>1
  <2>2. Min(at(o)) \in at(o)
    BY <1>4, <2>1, MinMeans
  <2>3. Min(at(o)) \in 1 .. m
    BY <1>1, <2>2
  <2>4. T(o) \in SUBSET Objects
    BY <1>3, <2>3 DEF Nodes
  <2> QED
    BY <2>4, Constants, FS_Subset, FS_CardinalityType
<1>5. \A o \in Objects : place[a][o] \in Nat
  BY DEF TypeOK
<1>6. \A o \in Objects : Placed(a, In)[o] =
         IF o \in Nodes(a) \/ at(o) = {} THEN place[a][o] ELSE Cardinality(T(o))
  BY DEF Placed
<1>7. Placed(a, In) = [o \in Objects |-> Placed(a, In)[o]]
  BY DEF Placed
<1>8. \A o \in Objects : at(o) # {} => o \in Of(a, ToSet(In))
  BY DEF Of, ToSet
<1> HIDE DEF at, T
<1>9. \A o \in Objects : Placed(a, In)[o] \in Nat
  BY <1>4, <1>5, <1>6
<1>10. \A o \in Objects : o \notin Nodes(a) => ~(place[a][o] > 0)
  BY DEF Nodes
<1>11. \A o \in Objects : Placed(a, In)[o] > 0 => o \in Nodes(a) \/ o \in Of(a, ToSet(In))
  BY <1>6, <1>8, <1>10
<1>12. \A o \in Nodes(a) : Placed(a, In)[o] = place[a][o]
  BY <1>6 DEF Nodes
<1> QED
  BY <1>2, <1>7, <1>9, <1>11, <1>12

-----------------------------------------------------------------------------
(***************************************************************************)
(* The nodes, and the report the daemon is working on.                     *)
(***************************************************************************)
\* A node that is set is in the list; nodes of users know their user.
NodesInv ==
    \A a \in Alerts : \A o \in Objects :
      /\ place[a][o] > 0 => o \in Kind(a)
      /\ place[a][o] > 0 /\ Config[a].check = "user" /\ a # Group => node[a][o].user = o
      /\ node[a][o].set => place[a][o] > 0

\* What is left of a pass, and the report that the daemon is working on.
PassInv ==
    /\ pc \notin {"check", "group", "clear"} => todo = {} /\ job = NoJob
    /\ \A n \in todo : /\ place[n[1]][n[2]] > 0
                       /\ pc = "clear" => node[n[1]][n[2]].set
                       /\ pc = "group" => n[1] = Group
                       /\ pc = "check" => n[1] # Group
    /\ job # NoJob =>
         /\ job.a \in Alerts /\ job.o \in Objects /\ place[job.a][job.o] > 0
         /\ <<job.a, job.o>> \notin todo
         /\ job.step \in {"block", "read", "write", "record"}
         /\ node[job.a][job.o].set = (job.report <=> job.step = "record")
         /\ ~node[job.a][job.o].ignore
         /\ job.step = "read" => job.report
         /\ job.step \in {"read", "write"} => Routes(job.a, job.o, job.report)
         /\ pc = "clear" => ~job.report
         /\ pc = "group" => job.a = Group
         /\ pc = "check" => job.a # Group

\* The objects of calls are of the kind of the alert.
LEMMA OfKind ==
    ASSUME NEW a \in Members, NEW D \in SUBSET Devices, NEW o \in Of(a, D)
    PROVE  o \in Kind(a) /\ o \in Objects
  BY Settings, Constants, KindMeans DEF Of, ObjectOf, Objects

\* What calls make of the nodes.
Updated(Out, In) ==
    /\ place' \in [Alerts -> [Objects -> Nat]]
    /\ node' \in [Alerts -> [Objects -> Node]]
    /\ \A a \in Alerts : \A o \in Objects :
         /\ node'[a][o].set = node[a][o].set /\ node'[a][o].saved = node[a][o].saved
         /\ place[a][o] > 0 => place'[a][o] = place[a][o]
         /\ place'[a][o] > 0 =>
              o \in Kind(a) /\ (place[a][o] > 0 \/ (a # Group /\ o \in Of(a, ToSet(In))))
         /\ a # Group /\ o \in Of(a, ToSet(In)) => node'[a][o] = Touched(a, o, TRUE)
         /\ o \notin Of(a, ToSet(In)) /\ o \notin Of(a, Out) => node'[a][o] = node[a][o]
         /\ \/ node'[a][o] = node[a][o]
            \/ a # Group /\ o \in Kind(a) /\ \E b \in BOOLEAN : node'[a][o] = Touched(a, o, b)

\* The nodes after the calls.
LEMMA UpdateMeans ==
    ASSUME TypeOK, NodesInv, NEW Out \in SUBSET Devices,
           NEW In \in SetToAllKPermutations(Devices), Update(Out, In)
    PROVE  Updated(Out, In)
<1>0. \A a \in Alerts : a # Group => a \in Members
  BY Constants
<1>1. \A a \in Alerts : ToSet(In) \subseteq Devices
  BY PlacedMeans
<1>2. place' \in [Alerts -> [Objects -> Nat]]
  <2>1. \A a \in Alerts : place[a] \in [Objects -> Nat] /\ Placed(a, In) \in [Objects -> Nat]
    BY PlacedMeans DEF TypeOK
  <2>2. place' = [a \in Alerts |-> IF a = Group THEN place[a] ELSE Placed(a, In)]
    BY DEF Update
  <2> QED
    BY <2>1, <2>2
<1>3. ASSUME NEW a \in Alerts, NEW o \in Objects
      PROVE  /\ place[a][o] > 0 => place'[a][o] = place[a][o]
             /\ place'[a][o] > 0 =>
                  o \in Kind(a) /\ (place[a][o] > 0 \/ (a # Group /\ o \in Of(a, ToSet(In))))
  <2>1. place'[a] = IF a = Group THEN place[a] ELSE Placed(a, In)
    BY DEF Update
  <2>2. o \in Nodes(a) <=> place[a][o] > 0
    BY DEF Nodes
  <2>3. place[a][o] > 0 => o \in Kind(a)
    BY DEF NodesInv
  <2>4. a # Group /\ o \in Of(a, ToSet(In)) => o \in Kind(a)
    BY <1>0, <1>1, OfKind
  <2>5. CASE a = Group
    BY <2>1, <2>3, <2>5
  <2>6. CASE a # Group
    BY <2>1, <2>2, <2>3, <2>4, <2>6, PlacedMeans
  <2> QED
    BY <2>5, <2>6
<1>4. ASSUME NEW a \in Alerts, NEW o \in Objects
      PROVE  /\ a # Group /\ o \in Of(a, ToSet(In)) => node'[a][o] = Touched(a, o, TRUE)
             /\ o \notin Of(a, ToSet(In)) /\ o \notin Of(a, Out) => node'[a][o] = node[a][o]
             /\ \/ node'[a][o] = node[a][o]
                \/ a # Group /\ o \in Kind(a) /\ \E b \in BOOLEAN : node'[a][o] = Touched(a, o, b)
  <2>1. node'[a][o] = IF a = Group THEN node[a][o]
                      ELSE IF o \in Of(a, ToSet(In)) THEN Touched(a, o, TRUE)
                      ELSE IF o \in Of(a, Out) THEN Touched(a, o, FALSE) ELSE node[a][o]
    BY DEF Update
  <2>2. a # Group /\ (o \in Of(a, ToSet(In)) \/ o \in Of(a, Out)) => o \in Kind(a)
    BY <1>0, <1>1, OfKind
  <2>3. CASE a = Group
    BY <2>1, <2>3
  <2>4. CASE a # Group
    BY <2>1, <2>2, <2>4
  <2> QED
    BY <2>3, <2>4
<1>5. ASSUME NEW a \in Alerts, NEW o \in Objects
      PROVE  /\ node'[a][o] \in Node /\ node'[a][o].set = node[a][o].set
             /\ node'[a][o].saved = node[a][o].saved
  <2>1. CASE node'[a][o] = node[a][o]
    BY <2>1 DEF TypeOK
  <2>2. CASE a # Group /\ o \in Kind(a) /\ \E b \in BOOLEAN : node'[a][o] = Touched(a, o, b)
    BY <1>0, <2>2, TouchedMeans
  <2> QED
    BY <1>4, <2>1, <2>2
<1>6. node' \in [Alerts -> [Objects -> Node]]
  <2>1. node' = [a \in Alerts |-> [o \in Objects |-> node'[a][o]]]
    BY DEF Update
  <2> QED
    BY <1>5, <2>1
<1> QED
  BY <1>2, <1>3, <1>4, <1>5, <1>6 DEF Updated

\* What holds of the nodes and of the daemon's work in every state.
BaseInv == TypeOK /\ NodesInv /\ PassInv

\* The node a report is about.
LEMMA JobAt ==
    ASSUME BaseInv, job # NoJob
    PROVE  /\ job.a \in Alerts /\ job.o \in Objects /\ job.report \in BOOLEAN
           /\ job.a \in Nat /\ job.o \in Nat
           /\ pc \in {"check", "group", "clear"} /\ This \in Node
           /\ This.set = (job.report <=> job.step = "record")
<1>1. job.a \in Alerts /\ job.o \in Objects /\ pc \in {"check", "group", "clear"}
      /\ This.set = (job.report <=> job.step = "record")
  BY DEF BaseInv, PassInv, TypeOK, This
<1>2. job.report \in BOOLEAN /\ job.a \in Nat /\ job.o \in Nat
  BY DEF BaseInv, TypeOK, Job
<1>3. This \in Node
  BY <1>1 DEF BaseInv, TypeOK, This
<1> QED
  BY <1>1, <1>2, <1>3

\* The job at another step.
LEMMA JobMovesOn ==
    ASSUME NEW j \in Job, NEW s \in {"block", "read", "write", "record"},
           NEW k, k = [j EXCEPT !.step = s]
    PROVE  /\ k \in Job /\ k # NoJob /\ k.step = s
           /\ k.a = j.a /\ k.o = j.o /\ k.report = j.report
  BY DEF Job, NoJob

\* What a step of a report makes of the nodes n.
Advanced(j, n, next) ==
    /\ job' \in Job /\ job' # NoJob /\ job'.step = next
    /\ job'.a = j.a /\ job'.o = j.o /\ job'.report = j.report
    /\ changed' = changed
    /\ node' \in [Alerts -> [Objects -> Node]]
    /\ node'[j.a][j.o].set = (j.report <=> next = "record")
    /\ node'[j.a][j.o].user = n[j.a][j.o].user
    /\ node'[j.a][j.o].saved = n[j.a][j.o].saved
    /\ node'[j.a][j.o].ignore = n[j.a][j.o].ignore
    /\ \A x \in Alerts, y \in Objects : <<x, y>> # <<j.a, j.o>> => node'[x][y] = n[x][y]

\* A step of a report: from the nodes n to node'.
LEMMA AdvanceMeans ==
    ASSUME NEW j \in Job, j.a \in Alerts, j.o \in Objects,
           NEW n \in [Alerts -> [Objects -> Node]],
           n[j.a][j.o].set = ~j.report,
           NEW next \in {"block", "read", "write", "record"}, Advance(j, n, next)
    PROVE  Advanced(j, n, next)
<1>1. job' = [j EXCEPT !.step = next] /\ changed' = changed
  BY DEF Advance
<1>2. /\ job' \in Job /\ job' # NoJob /\ job'.step = next
      /\ job'.a = j.a /\ job'.o = j.o /\ job'.report = j.report
  BY <1>1, JobMovesOn
<1>3. j.report \in BOOLEAN
  BY DEF Job
<1>4. CASE next = "record"
  <2> DEFINE m == [n[j.a][j.o] EXCEPT !.set = j.report]
  <2>1. n[j.a][j.o] \in Node
    OBVIOUS
  <2>2. /\ m \in Node /\ m.set = j.report /\ m.user = n[j.a][j.o].user
        /\ m.saved = n[j.a][j.o].saved /\ m.ignore = n[j.a][j.o].ignore
    <3> DEFINE k == n[j.a][j.o]
    <3> DEFINE b == j.report
    <3>1. k \in Node /\ b \in BOOLEAN
      BY <1>3, <2>1
    <3> HIDE DEF k, b
    <3> QED
      BY <3>1 DEF Node, k, b, m
  <2>3. node' = [n EXCEPT ![j.a] = [n[j.a] EXCEPT ![j.o] = m]]
    BY <1>4 DEF Advance
  <2> HIDE DEF m
  <2>4. node'[j.a][j.o] = m
    BY <2>3
  <2>5. node' \in [Alerts -> [Objects -> Node]]
    BY <2>2, <2>3
  <2>6. \A x \in Alerts, y \in Objects : <<x, y>> # <<j.a, j.o>> => node'[x][y] = n[x][y]
    BY <2>3
  <2>7. node'[j.a][j.o].set = (j.report <=> next = "record")
    BY <1>3, <1>4, <2>2, <2>4
  <2> QED
    BY <1>1, <1>2, <2>2, <2>4, <2>5, <2>6, <2>7 DEF Advanced
<1>5. CASE next # "record"
  <2>1. node' = n
    BY <1>5 DEF Advance
  <2> QED
    BY <1>1, <1>2, <1>3, <1>5, <2>1 DEF Advanced
<1> QED
  BY <1>4, <1>5

\* The steps of a report between its first and its last.
LEMMA ReportSteps ==
    ASSUME BaseInv, Block \/ ReadLcr \/ WriteLcr
    PROVE  /\ job # NoJob
           /\ job' \in Job /\ job' # NoJob
           /\ job'.a = job.a /\ job'.o = job.o /\ job'.report = job.report
           /\ job'.step \in {"read", "write", "record"}
           /\ job'.step = "read" => job.report
           /\ job'.step \in {"read", "write"} => Routes(job.a, job.o, job.report)
           /\ changed' = changed
           /\ node' \in [Alerts -> [Objects -> Node]]
           /\ node'[job.a][job.o].set = (job.report <=> job'.step = "record")
           /\ node'[job.a][job.o].user = This.user
           /\ node'[job.a][job.o].ignore = This.ignore
           /\ job.step # "read" => node'[job.a][job.o].saved = This.saved
           /\ job.step = "read" /\ This.user \in Users =>
                node'[job.a][job.o].saved = lcr[This.user]
           /\ job.step = "block" =>
                /\ job'.step = "record" <=> ~Routes(job.a, job.o, job.report)
                /\ job'.step = "write" => ~job.report
           /\ job.step = "write" => job'.step = "record"
           /\ \A x \in Alerts, y \in Objects :
                <<x, y>> # <<job.a, job.o>> => node'[x][y] = node[x][y]
           /\ UNCHANGED <<ignores, pc, todo, place, left, own, quiet, untold>>
<1>1. job # NoJob /\ job.step \in {"block", "read", "write"}
  BY DEF Block, ReadLcr, WriteLcr, NoJob
<1>2. /\ job.a \in Alerts /\ job.o \in Objects /\ job \in Job /\ job.report \in BOOLEAN
      /\ node \in [Alerts -> [Objects -> Node]] /\ This = node[job.a][job.o]
      /\ This.set = ~job.report
  <2>1. This.set = ~job.report
    <3>1. This.set \in BOOLEAN /\ job.report \in BOOLEAN
      BY <1>1, JobAt, NodeFields
    <3>2. This.set = (job.report <=> FALSE)
      BY <1>1, JobAt
    <3> QED
      BY <3>1, <3>2
  <2>2. job \in Job /\ node \in [Alerts -> [Objects -> Node]]
    BY DEF BaseInv, TypeOK
  <2>3. job.a \in Alerts /\ job.o \in Objects /\ job.report \in BOOLEAN
    BY <1>1, JobAt
  <2>4. This = node[job.a][job.o]
    BY DEF This
  <2> QED
    BY <2>1, <2>2, <2>3, <2>4, Zenon
<1>3. UNCHANGED <<ignores, pc, todo, place, left, own, quiet, untold>>
  <2>1. Block => UNCHANGED <<ignores, pc, todo, place, left, own, quiet, untold>>
    BY DEF Block, history
  <2>2. ReadLcr => UNCHANGED <<ignores, pc, todo, place, left, own, quiet, untold>>
    BY DEF ReadLcr, users, history
  <2>3. WriteLcr => UNCHANGED <<ignores, pc, todo, place, left, own, quiet, untold>>
    BY DEF WriteLcr
  <2> QED
    BY <2>1, <2>2, <2>3
<1>4. CASE Block
  <2> DEFINE next == AfterBlock(job.a, job.o, job.report)
  <2>1. /\ next \in {"read", "write", "record"}
        /\ next = "read" => job.report
        /\ next \in {"read", "write"} => Routes(job.a, job.o, job.report)
        /\ next = "record" <=> ~Routes(job.a, job.o, job.report)
        /\ next = "write" => ~job.report
    BY DEF AfterBlock
  <2>2. Advance(job, node, next) /\ job.step = "block"
    BY <1>4 DEF Block
  <2> HIDE DEF next
  <2>3. Advanced(job, node, next)
    BY <1>2, <2>1, <2>2, AdvanceMeans
  <2> QED
    BY <1>1, <1>2, <1>3, <2>1, <2>2, <2>3 DEF Advanced
<1>5. CASE ReadLcr
  <2> DEFINE saved == IF This.user \in Users THEN lcr[This.user] ELSE This.saved
  <2> DEFINE next == IF saved < 1 /\ Config[job.a].back = -1 THEN "record" ELSE "write"
  <2> DEFINE n == [node EXCEPT ![job.a][job.o].saved = saved]
  <2>1. Advance(job, n, next) /\ job.step = "read"
    BY <1>5 DEF ReadLcr
  <2>2. Routes(job.a, job.o, job.report)
    BY <1>1, <2>1 DEF BaseInv, PassInv
  <2>3. saved \in Nat
    BY <1>1, JobAt, NodeFields DEF BaseInv, TypeOK
  <2>4. next \in {"write", "record"}
    OBVIOUS
  <2> HIDE DEF next, saved
  <2>5. /\ n \in [Alerts -> [Objects -> Node]]
        /\ n[job.a][job.o].set = ~job.report
        /\ n[job.a][job.o].user = This.user
        /\ n[job.a][job.o].ignore = This.ignore
        /\ n[job.a][job.o].saved = saved
        /\ \A x \in Alerts, y \in Objects : <<x, y>> # <<job.a, job.o>> => n[x][y] = node[x][y]
    <3> DEFINE a == job.a
    <3> DEFINE o == job.o
    <3> DEFINE f == node
    <3>1. f \in [Alerts -> [Objects -> Node]] /\ a \in Alerts /\ o \in Objects
          /\ n = [f EXCEPT ![a][o].saved = saved]
      BY <1>2
    <3> HIDE DEF a, o, f, n
    <3>2. Saved(f, n, a, o, saved)
      BY <2>3, <3>1, NodeSaves
    <3> QED
      BY <1>2, <3>2 DEF a, o, f, Saved
  <2> HIDE DEF n
  <2>6. /\ job' \in Job /\ job' # NoJob /\ job'.step = next
        /\ job'.a = job.a /\ job'.o = job.o /\ job'.report = job.report
        /\ changed' = changed
        /\ node' \in [Alerts -> [Objects -> Node]]
        /\ node'[job.a][job.o].set = (job.report <=> next = "record")
        /\ node'[job.a][job.o].user = n[job.a][job.o].user
        /\ node'[job.a][job.o].ignore = n[job.a][job.o].ignore
        /\ node'[job.a][job.o].saved = n[job.a][job.o].saved
        /\ \A x \in Alerts, y \in Objects : <<x, y>> # <<job.a, job.o>> => node'[x][y] = n[x][y]
    <3>1. next \in {"block", "read", "write", "record"}
      BY <2>4
    <3>2. Advanced(job, n, next)
      BY <1>2, <2>1, <2>5, <3>1, AdvanceMeans
    <3> QED
      BY <3>2 DEF Advanced
  <2>7. This.user \in Users => saved = lcr[This.user]
    BY DEF saved
  <2> QED
    BY <1>1, <1>3, <2>1, <2>2, <2>4, <2>5, <2>6, <2>7
<1>6. CASE WriteLcr
  <2>1. Advance(job, node, "record") /\ job.step = "write"
    BY <1>6 DEF WriteLcr
  <2>2. Advanced(job, node, "record")
    BY <1>2, <2>1, AdvanceMeans
  <2> QED
    BY <1>1, <1>2, <1>3, <2>1, <2>2 DEF Advanced
<1> QED
  BY <1>4, <1>5, <1>6

\* The nodes that hold the LCRs of users.
Stacks == [Users -> Seq(Alerts \X Objects)]

\* The orders that are left when some are given up.
LEMMA SpoilTyped ==
    ASSUME NEW S, NEW r \in Stacks, spoilt \in SUBSET Users, Spoil(S, r)
    PROVE  /\ raised' \in Stacks /\ spoilt' \in SUBSET Users
           /\ spoilt' = spoilt \cup (S \cap Users)
           /\ \A u \in Users : raised'[u] = IF u \in spoilt' THEN <<>> ELSE r[u]
<1>1. spoilt' = spoilt \cup (S \cap Users)
  BY DEF Spoil
<1>2. raised' = [u \in Users |-> IF u \in spoilt \cup S THEN <<>> ELSE r[u]]
  BY DEF Spoil
<1>3. <<>> \in Seq(Alerts \X Objects)
  OBVIOUS
<1>4. \A u \in Users : r[u] \in Seq(Alerts \X Objects)
  BY DEF Stacks
<1> QED
  BY <1>1, <1>2, <1>3, <1>4 DEF Stacks

\* Without its last element.
LEMMA FrontMeans ==
    ASSUME NEW T, NEW s \in Seq(T), s # <<>>
    PROVE  /\ Front(s) \in Seq(T) /\ Len(Front(s)) = Len(s) - 1 /\ Len(s) > 0
           /\ \A i \in 1 .. Len(s) - 1 : Front(s)[i] = s[i]
           /\ Last(s) = s[Len(s)] /\ Last(s) \in T
<1>1. Len(s) \in Nat /\ Len(s) > 0
  BY EmptySeq, LenProperties
<1>2. 1 \in 1 .. Len(s) + 1 /\ Len(s) - 1 \in 0 .. Len(s)
  BY <1>1
<1>3. Front(s) = SubSeq(s, 1, Len(s) - 1)
  BY DEF Front
<1>4. /\ Front(s) \in Seq(T)
      /\ Len(Front(s)) = Len(s) - 1
      /\ \A i \in 1 .. Len(s) - 1 : Front(s)[i] = s[i]
  <2> DEFINE k == Len(s) - 1
  <2>1. k \in Nat /\ k \in Int /\ 1 \in Int
    BY <1>1
  <2>2. \A i \in 1 .. k : s[i] \in T
    BY <1>1, ElementOfSeq
  <2> HIDE DEF k
  <2>3. /\ SubSeq(s, 1, k) \in Seq(T)
        /\ Len(SubSeq(s, 1, k)) = IF 1 <= k THEN k - 1 + 1 ELSE 0
        /\ \A i \in 1 .. k - 1 + 1 : SubSeq(s, 1, k)[i] = s[1 + i - 1]
    BY <2>1, <2>2, SubSeqProperties
  <2>4. (IF 1 <= k THEN k - 1 + 1 ELSE 0) = k /\ k - 1 + 1 = k
    BY <2>1
  <2>5. \A i \in 1 .. k : 1 + i - 1 = i
    BY <2>1
  <2>6. Front(s) = SubSeq(s, 1, k)
    BY <1>3 DEF k
  <2>7. Len(Front(s)) = k /\ \A i \in 1 .. k : Front(s)[i] = s[i]
    BY <2>3, <2>4, <2>5, <2>6
  <2> QED
    BY <2>3, <2>6, <2>7 DEF k
<1>5. Last(s) = s[Len(s)] /\ Last(s) \in T
  BY <1>1, ElementOfSeq DEF Last
<1> QED
  BY <1>1, <1>4, <1>5

\* The types at the start.
LEMMA TypeInit ==
    ASSUME Init
    PROVE  TypeOK
<1>1. lcr \in [Users -> Nat] /\ own \in [Users -> Nat]
  BY ConstAssumption DEF Init
<1>2. blocked \in [Users -> BOOLEAN] /\ ignores \in [Users -> BOOLEAN]
  <2>1. PICK S \in SUBSET MayIgnore : ignores = [u \in Users |-> u \in S]
    BY DEF Init
  <2>2. \A u \in Users : (u \in S) \in BOOLEAN
    OBVIOUS
  <2> QED
    BY <2>1, <2>2 DEF Init
<1>3. pc = "off" /\ todo = {} /\ job \in Job /\ left \in Nat /\ changed \in BOOLEAN
  BY Constants DEF Init, NoJob, Job
<1>4. NoNode \in Node
  BY DEF NoNode, Node
<1>5. place \in [Alerts -> [Objects -> Nat]] /\ node \in [Alerts -> [Objects -> Node]]
  BY <1>4 DEF Init
<1>6. raised \in [Users -> Seq(Alerts \X Objects)]
  BY DEF Init
<1>7. spoilt \subseteq Users /\ quiet \subseteq Users /\ untold \subseteq Objects
  BY DEF Init
<1> QED
  BY <1>1, <1>2, <1>3, <1>5, <1>6, <1>7 DEF TypeOK

\* All of it holds at first.
LEMMA BaseInit ==
    ASSUME Init
    PROVE  BaseInv
<1>1. TypeOK
  BY TypeInit
<1>2. \A a \in Alerts, o \in Objects : place[a][o] = 0 /\ ~node[a][o].set
  BY DEF Init, NoNode
<1>3. pc = "off" /\ todo = {} /\ job = NoJob
  BY DEF Init
<1> QED
  BY <1>1, <1>2, <1>3 DEF BaseInv, NodesInv, PassInv

\* The places stay, and a node that is set is in its list.
LEMMA NodesKept ==
    ASSUME NodesInv, place' = place,
           \A x \in Alerts, y \in Objects :
             /\ node'[x][y].user = node[x][y].user
             /\ node'[x][y].set => node[x][y].set \/ place[x][y] > 0
    PROVE  NodesInv'
  BY DEF NodesInv, Kind

\* The steps of a report keep the rest of the types.
LEMMA ReportTyped ==
    ASSUME BaseInv, Block \/ ReadLcr \/ WriteLcr
    PROVE  TypeOK'
<1>1. /\ job' \in Job /\ changed' = changed /\ node' \in [Alerts -> [Objects -> Node]]
      /\ UNCHANGED <<ignores, pc, todo, place, left, own, quiet, untold>> /\ job # NoJob
  BY ReportSteps
<1>2. raised \in Stacks /\ spoilt \in SUBSET Users
  BY DEF BaseInv, TypeOK, Stacks
<1>3. lcr' \in [Users -> Nat] /\ blocked' \in [Users -> BOOLEAN] /\ raised' \in Stacks
      /\ spoilt' \in SUBSET Users
  <2>1. CASE Block
    <3>1. job.report \in BOOLEAN
      BY <1>1, JobAt
    <3>2. lcr' = lcr /\ raised' = raised /\ spoilt' = spoilt
          /\ blocked' = [u \in Users |-> IF u = job.o THEN job.report ELSE blocked[u]]
      BY <2>1 DEF Block, history
    <3>3. \A u \in Users : blocked[u] \in BOOLEAN
      BY DEF BaseInv, TypeOK
    <3>4. blocked' \in [Users -> BOOLEAN]
      BY <3>1, <3>2, <3>3
    <3> QED
      BY <1>2, <3>2, <3>4 DEF BaseInv, TypeOK
  <2>2. CASE ReadLcr
    BY <1>2, <2>2 DEF ReadLcr, users, history, BaseInv, TypeOK
  <2>3. CASE WriteLcr
    <3> DEFINE target == Target(job.a, job.o, job.report)
    <3> DEFINE n == <<job.a, job.o>>
    <3> DEFINE r == [raised EXCEPT ![This.user] = IF job.report THEN Append(@, n) ELSE Front(@)]
    <3> DEFINE S == Spoils(This.user, UserOf(job.a, job.o), n, job.report)
    <3>1. blocked' = blocked
      BY <2>3 DEF WriteLcr
    <3>2. CASE ~(target > 0 /\ This.user \in Users)
      BY <1>2, <2>3, <3>1, <3>2 DEF WriteLcr, BaseInv, TypeOK
    <3>3. CASE target > 0 /\ This.user \in Users
      <4>1. lcr' = [lcr EXCEPT ![This.user] = target] /\ Spoil(S, r)
        BY <2>3, <3>3 DEF WriteLcr
      <4>2. job.a \in Alerts /\ job.o \in Objects /\ This \in Node
        BY <1>1, JobAt
      <4>3. target \in Nat
        <5>1. Config[job.a].lcr \in Nat /\ Config[job.a].back \in {-1} \cup Nat
          BY <4>2, Settings
        <5>2. node[job.a][job.o].saved \in Nat
          BY <4>2, NodeFields DEF This
        <5> QED
          BY <3>3, <5>1, <5>2 DEF Target
      <4>4. lcr' \in [Users -> Nat]
        <5>1. lcr \in [Users -> Nat]
          BY DEF BaseInv, TypeOK
        <5> HIDE DEF target
        <5> QED
          BY <4>1, <4>3, <5>1
      <4>8. n \in Alerts \X Objects
        BY <4>2
      <4>9. raised[This.user] \in Seq(Alerts \X Objects)
        BY <1>2, <3>3 DEF Stacks
      <4>10. Append(raised[This.user], n) \in Seq(Alerts \X Objects)
        BY <4>8, <4>9
      <4>11. CASE job.report \/ raised[This.user] # <<>>
        <5>1. (IF job.report THEN Append(raised[This.user], n) ELSE Front(raised[This.user]))
                 \in Seq(Alerts \X Objects)
          BY <4>9, <4>10, <4>11, FrontMeans
        <5>2. r \in Stacks
          BY <1>2, <5>1 DEF Stacks
        <5> HIDE DEF r, S
        <5> QED
          BY <1>2, <3>1, <4>1, <4>4, <5>2, SpoilTyped DEF BaseInv, TypeOK
      <4>12. CASE ~job.report /\ raised[This.user] = <<>>
        <5>1. This.user \in S
          BY <4>12 DEF Spoils
        <5> DEFINE e == [raised EXCEPT ![This.user] = <<>>]
        <5>2. e \in Stacks
          <6>1. <<>> \in Seq(Alerts \X Objects)
            OBVIOUS
          <6> QED
            BY <1>2, <6>1 DEF Stacks
        <5>3. \A u \in Users : u # This.user => r[u] = e[u]
          BY <1>2 DEF Stacks
        <5> HIDE DEF r, e, S
        <5>4. [u \in Users |-> IF u \in spoilt \cup S THEN <<>> ELSE r[u]]
                = [u \in Users |-> IF u \in spoilt \cup S THEN <<>> ELSE e[u]]
          BY <5>1, <5>3
        <5>5. Spoil(S, e)
          BY <4>1, <5>4 DEF Spoil
        <5> QED
          BY <1>2, <3>1, <4>4, <5>2, <5>5, SpoilTyped DEF BaseInv, TypeOK
      <4> QED
        BY <4>11, <4>12
    <3> QED
      BY <3>2, <3>3
  <2> QED
    BY <2>1, <2>2, <2>3
<1> QED
  BY <1>1, <1>3 DEF BaseInv, TypeOK, Stacks

\* A report on which the daemon goes on working.
LEMMA ReportNext ==
    ASSUME BaseInv, Block \/ ReadLcr \/ WriteLcr
    PROVE  BaseInv'
<1>1. TypeOK'
  BY ReportTyped
<1>2. /\ job # NoJob
      /\ job' \in Job /\ job' # NoJob
      /\ job'.a = job.a /\ job'.o = job.o /\ job'.report = job.report
      /\ job'.step \in {"read", "write", "record"}
      /\ job'.step = "read" => job.report
      /\ job'.step \in {"read", "write"} => Routes(job.a, job.o, job.report)
      /\ node'[job.a][job.o].set = (job.report <=> job'.step = "record")
      /\ node'[job.a][job.o].user = This.user
      /\ node'[job.a][job.o].ignore = This.ignore
      /\ UNCHANGED <<pc, todo, place>>
  BY ReportSteps
<1>3. \A x \in Alerts, y \in Objects : <<x, y>> # <<job.a, job.o>> => node'[x][y] = node[x][y]
  BY ReportSteps
<1>4. /\ job.a \in Alerts /\ job.o \in Objects /\ place[job.a][job.o] > 0
      /\ <<job.a, job.o>> \notin todo /\ ~This.ignore
      /\ pc = "clear" => ~job.report
      /\ pc = "group" => job.a = Group
      /\ pc = "check" => job.a # Group
      /\ pc \in {"check", "group", "clear"}
  BY <1>2, JobAt DEF BaseInv, PassInv, This
<1>5. NodesInv'
  <2>1. \A x \in Alerts, y \in Objects :
          /\ node'[x][y].user = node[x][y].user
          /\ node'[x][y].set => node[x][y].set \/ place[x][y] > 0
    BY <1>2, <1>3, <1>4 DEF This
  <2> QED
    BY <1>2, <2>1, NodesKept DEF BaseInv
<1>6. PassInv'
  <2>1. \A n \in todo' : /\ place'[n[1]][n[2]] > 0 /\ (pc' = "clear" => node'[n[1]][n[2]].set)
                         /\ pc' = "group" => n[1] = Group
                         /\ pc' = "check" => n[1] # Group
    <3> TAKE n \in todo'
    <3>1. n \in todo /\ n[1] \in Alerts /\ n[2] \in Objects /\ n = <<n[1], n[2]>>
      BY <1>2 DEF BaseInv, TypeOK
    <3>2. <<n[1], n[2]>> # <<job.a, job.o>>
      BY <1>4, <3>1
    <3>3. node'[n[1]][n[2]] = node[n[1]][n[2]]
      BY <1>3, <3>1, <3>2
    <3> QED
      BY <1>2, <3>1, <3>3 DEF BaseInv, PassInv
  <2>2. Routes(job.a, job.o, job.report)' <=> Routes(job.a, job.o, job.report)
    BY <1>2, <1>4 DEF Routes, This
  <2>3. /\ job'.a \in Alerts /\ job'.o \in Objects /\ place'[job'.a][job'.o] > 0
        /\ <<job'.a, job'.o>> \notin todo'
        /\ job'.step \in {"block", "read", "write", "record"}
        /\ node'[job'.a][job'.o].set = (job'.report <=> job'.step = "record")
        /\ ~node'[job'.a][job'.o].ignore
        /\ job'.step = "read" => job'.report
        /\ job'.step \in {"read", "write"} => Routes(job.a, job.o, job.report)'
        /\ pc' = "clear" => ~job'.report
        /\ pc' = "group" => job'.a = Group
        /\ pc' = "check" => job'.a # Group
    BY <1>2, <1>4, <2>2
  <2> QED
    BY <1>2, <1>4, <2>1, <2>3 DEF PassInv
<1> QED
  BY <1>1, <1>5, <1>6 DEF BaseInv

\* The daemon starts, and a tick ends.
LEMMA PassEnds ==
    ASSUME BaseInv, Start \/ EndTick
    PROVE  BaseInv'
<1>1. /\ pc' = "rest" /\ UNCHANGED <<users, todo, job, memory, left, history>>
      /\ todo = {} /\ job = NoJob
  BY DEF Start, EndTick, BaseInv, PassInv
<1>2. TypeOK'
  BY <1>1 DEF BaseInv, TypeOK, users, memory, history
<1>3. NodesInv'
  BY <1>1 DEF BaseInv, NodesInv, memory, Kind
<1>4. PassInv'
  BY <1>1 DEF PassInv
<1> QED
  BY <1>2, <1>3, <1>4 DEF BaseInv

\* Calls come and go.
LEMMA UpdateNext ==
    ASSUME BaseInv, NEW Out \in SUBSET Devices,
           NEW In \in SetToAllKPermutations(Devices), Update(Out, In)
    PROVE  BaseInv'
<1>1. /\ pc = "rest" /\ pc' = "check"
      /\ todo' = {n \in Members \X Objects : place'[n[1]][n[2]] > 0 /\ Due("check", n)}
      /\ UNCHANGED <<users, job, changed, left, own, raised, spoilt, untold>>
  BY DEF Update
<1>2. TypeOK /\ NodesInv /\ job = NoJob
  BY <1>1 DEF BaseInv, PassInv
<1>3. /\ place' \in [Alerts -> [Objects -> Nat]]
      /\ node' \in [Alerts -> [Objects -> Node]]
      /\ \A a \in Alerts : \A o \in Objects :
           /\ node'[a][o].set = node[a][o].set
           /\ place[a][o] > 0 => place'[a][o] = place[a][o]
           /\ place'[a][o] > 0 =>
                o \in Kind(a) /\ (place[a][o] > 0 \/ (a # Group /\ o \in Of(a, ToSet(In))))
           /\ a # Group /\ o \in Of(a, ToSet(In)) => node'[a][o] = Touched(a, o, TRUE)
           /\ \/ node'[a][o] = node[a][o]
              \/ a # Group /\ o \in Kind(a) /\ \E b \in BOOLEAN : node'[a][o] = Touched(a, o, b)
  <2>1. Updated(Out, In)
    BY <1>2, UpdateMeans
  <2> QED
    BY <2>1 DEF Updated
<1>4. quiet' \subseteq Users
  <2>1. \A d \in Out : Owner[d] \in Users
    BY Constants
  <2>2. quiet' = (quiet \cup {Owner[d] : d \in Out}) \ {Owner[d] : d \in ToSet(In)}
    BY DEF Update
  <2>3. quiet \subseteq Users
    BY <1>2 DEF TypeOK
  <2> QED
    BY <2>1, <2>2, <2>3
<1>5. TypeOK'
  <2>1. todo' \subseteq Alerts \X Objects
    BY <1>1, Constants
  <2> QED
    BY <1>1, <1>2, <1>3, <1>4, <2>1 DEF TypeOK, users
<1>6. NodesInv'
  <2>1. ASSUME NEW a \in Alerts, NEW o \in Objects
        PROVE  /\ place'[a][o] > 0 => o \in Kind(a)
               /\ place'[a][o] > 0 /\ Config[a].check = "user" /\ a # Group
                    => node'[a][o].user = o
               /\ node'[a][o].set => place'[a][o] > 0
    <3>1. place'[a][o] > 0 => o \in Kind(a)
      BY <1>3
    <3>2. ASSUME place'[a][o] > 0, Config[a].check = "user", a # Group
          PROVE  node'[a][o].user = o
      <4>1. \A b \in BOOLEAN : o \in Kind(a) => Touched(a, o, b).user = o
        BY <1>2, <3>2, Constants, TouchedMeans
      <4>2. CASE node'[a][o] = node[a][o]
        <5>1. CASE place[a][o] > 0
          BY <1>2, <3>2, <4>2, <5>1 DEF NodesInv
        <5>2. CASE ~(place[a][o] > 0)
          <6>1. node'[a][o] = Touched(a, o, TRUE) /\ o \in Kind(a)
            BY <1>3, <3>2, <5>2
          <6> QED
            BY <4>1, <6>1
        <5> QED
          BY <5>1, <5>2
      <4>3. CASE o \in Kind(a) /\ \E b \in BOOLEAN : node'[a][o] = Touched(a, o, b)
        BY <4>1, <4>3
      <4> QED
        BY <1>3, <4>2, <4>3
    <3>3. node'[a][o].set => place'[a][o] > 0
      <4>1. node[a][o].set => place[a][o] > 0
        BY <1>2 DEF NodesInv
      <4> QED
        BY <1>3, <4>1
    <3> QED
      BY <3>1, <3>2, <3>3
  <2> QED
    BY <2>1 DEF NodesInv, Kind
<1>7. PassInv'
  BY <1>1, <1>2, Constants DEF PassInv, NoJob
<1> QED
  BY <1>5, <1>6, <1>7 DEF BaseInv

\* A report is written down, or given up.
LEMMA RecordNext ==
    ASSUME BaseInv, Record \/ ReportFails
    PROVE  BaseInv'
<1>1. /\ job' = NoJob /\ changed' \in BOOLEAN /\ left' \in Nat /\ untold' \subseteq Objects
      /\ UNCHANGED <<users, pc, todo, place, node, own, raised, spoilt, quiet>>
  <2>1. changed \in BOOLEAN /\ left \in Nat /\ untold \subseteq Objects
    BY DEF BaseInv, TypeOK
  <2>2. CASE Record
    BY <2>1, <2>2 DEF Record, history
  <2>3. CASE ReportFails
    <3>1. job.o \in Objects
      BY <2>3, JobAt DEF ReportFails
    <3> QED
      BY <2>1, <2>3, <3>1 DEF ReportFails, Event, memory
  <2> QED
    BY <2>2, <2>3
<1>2. NoJob \in Job
  BY Constants DEF NoJob, Job
<1>3. TypeOK'
  BY <1>1, <1>2 DEF BaseInv, TypeOK, users
<1>4. NodesInv'
  BY <1>1 DEF BaseInv, NodesInv, Kind
<1>5. PassInv'
  BY <1>1 DEF BaseInv, PassInv
<1> QED
  BY <1>3, <1>4, <1>5 DEF BaseInv

\* An object that is counted is counted at or before itself.
LEMMA CountedHere ==
    ASSUME TypeOK, NEW o \in Counted
    PROVE  o \in Objects /\ CountedBefore(o, o)
<1>1. PICK a \in Members : CountedWith(a, o)
  BY DEF Counted
<1>2. o \in Objects /\ place[a][o] \in Nat
  BY Constants DEF Counted, TypeOK
<1> QED
  BY <1>1, <1>2 DEF CountedBefore

\* What the count leaves of the nodes: only those of the group change, and none
\* is set or cleared.
Recounted ==
    /\ place' \in [Alerts -> [Objects -> Nat]] /\ node' \in [Alerts -> [Objects -> Node]]
    /\ \A a \in Members : place'[a] = place[a] /\ node'[a] = node[a]
    /\ \A o \in Objects :
         /\ place[Group][o] > 0 \/ o \in Counted => place'[Group][o] > 0
         /\ node'[Group][o].set = node[Group][o].set
         /\ node'[Group][o].saved = node[Group][o].saved
         /\ o \notin Counted => node'[Group][o] = node[Group][o]

\* The count.
LEMMA CountMeans ==
    ASSUME TypeOK, CountGroup
    PROVE  Recounted
<1>1. Group \in Alerts /\ Group \notin Members /\ Members \subseteq Alerts
  BY Constants
<1> DEFINE P(o) == IF o \in Nodes(Group) \/ o \notin Counted THEN place[Group][o]
                   ELSE Cardinality(Nodes(Group) \cup {p \in Counted : CountedBefore(p, o)})
<1> DEFINE N(o) == IF o \notin Counted THEN node[Group][o]
                   ELSE [node[Group][o] EXCEPT !.user = IF o \in Nodes(Group) THEN 0 ELSE o,
                                               !.ignore = FALSE,
                                               !.high = GroupSum(o) > more_than]
<1>2. place' = [place EXCEPT ![Group] = [o \in Objects |-> P(o)]]
  BY DEF CountGroup
<1>3. node' = [node EXCEPT ![Group] = [o \in Objects |-> N(o)]]
  BY DEF CountGroup
<1>4. /\ place \in [Alerts -> [Objects -> Nat]] /\ node \in [Alerts -> [Objects -> Node]]
  BY DEF TypeOK
<1>5. ASSUME NEW o \in Objects
      PROVE  P(o) \in Nat /\ (place[Group][o] > 0 \/ o \in Counted => P(o) > 0)
  <2>1. place[Group][o] \in Nat
    BY <1>1, <1>4
  <2>2. CASE o \in Nodes(Group) \/ o \notin Counted
    BY <2>1, <2>2 DEF Nodes
  <2>3. CASE o \notin Nodes(Group) /\ o \in Counted
    <3> DEFINE T == Nodes(Group) \cup {p \in Counted : CountedBefore(p, o)}
    <3>1. T \in SUBSET Objects
      BY DEF Nodes, Counted
    <3>2. IsFiniteSet(T)
      BY <3>1, Constants, FS_Subset
    <3>3. o \in T
      BY <2>3, CountedHere
    <3>4. P(o) = Cardinality(T)
      BY <2>3
    <3> HIDE DEF T, P
    <3>5. Cardinality(T) \in Nat /\ Cardinality(T) # 0
      BY <3>2, <3>3, FS_CardinalityType, FS_EmptySet
    <3> QED
      BY <3>4, <3>5
  <2> QED
    BY <2>2, <2>3
<1>6. ASSUME NEW o \in Objects
      PROVE  /\ N(o) \in Node /\ N(o).set = node[Group][o].set
             /\ N(o).saved = node[Group][o].saved
             /\ o \notin Counted => N(o) = node[Group][o]
  <2>1. node[Group][o] \in Node
    BY <1>1, <1>4
  <2>2. CASE o \notin Counted
    BY <2>1, <2>2
  <2>3. CASE o \in Counted
    <3> DEFINE v == IF o \in Nodes(Group) THEN 0 ELSE o
    <3> DEFINE n == node[Group][o]
    <3> DEFINE h == GroupSum(o) > more_than
    <3> DEFINE m == [n EXCEPT !.user = v, !.ignore = FALSE, !.high = h]
    <3>1. v \in Nat /\ h \in BOOLEAN
      BY Constants
    <3>2. N(o) = m /\ n \in Node
      BY <2>1, <2>3
    <3> HIDE DEF v, n, h, N
    <3>3. m \in Node /\ m.set = n.set /\ m.saved = n.saved
      BY <3>1, <3>2 DEF Node
    <3> QED
      BY <2>3, <3>2, <3>3 DEF n
  <2> QED
    BY <2>2, <2>3
<1> HIDE DEF P, N
<1>7. place' \in [Alerts -> [Objects -> Nat]] /\ node' \in [Alerts -> [Objects -> Node]]
  BY <1>2, <1>3, <1>4, <1>5, <1>6
<1>8. \A a \in Members : place'[a] = place[a] /\ node'[a] = node[a]
  BY <1>1, <1>2, <1>3, <1>4
<1>9. \A o \in Objects : place'[Group][o] = P(o) /\ node'[Group][o] = N(o)
  BY <1>1, <1>2, <1>3, <1>4
<1> QED
  BY <1>5, <1>6, <1>7, <1>8, <1>9 DEF Recounted

\* The group is counted.
LEMMA CountNext ==
    ASSUME BaseInv, CountGroup
    PROVE  BaseInv'
<1>1. /\ job = NoJob /\ changed /\ pc' = "group"
      /\ UNCHANGED <<users, job, changed, left, own, quiet, untold>>
  BY DEF CountGroup
<1>2. Recounted /\ TypeOK /\ NodesInv
  BY CountMeans DEF BaseInv
<1>3. Group \in Alerts /\ \A a \in Alerts : a = Group \/ a \in Members
  BY Constants
<1>4. \A n \in todo' :
        n \in {Group} \X Objects /\ (n[2] \in Counted \/ place[Group][n[2]] > 0)
  <2>1. todo' = {Group} \X ({o \in Counted : Asks(o)} \cup Stale)
    BY DEF CountGroup
  <2>2. Counted \subseteq Objects
    BY DEF Counted
  <2>3. \A o \in Stale : o \in Objects /\ place[Group][o] > 0
    BY DEF Stale, Nodes
  <2> QED
    BY <2>1, <2>2, <2>3
<1>5. raised' \in Stacks /\ spoilt' \in SUBSET Users
  <2>1. raised \in Stacks /\ spoilt \in SUBSET Users
    BY <1>2 DEF TypeOK, Stacks
  <2> DEFINE S == {u \in Users : \E o \in Counted : <<Group, o>> \in ToSet(raised[u])}
  <2>2. Spoil(S, raised)
    BY DEF CountGroup
  <2> HIDE DEF S
  <2> QED
    BY <2>1, <2>2, SpoilTyped
<1>6. todo' \subseteq Alerts \X Objects
  BY <1>3, <1>4
<1>7. TypeOK'
  BY <1>1, <1>2, <1>5, <1>6 DEF TypeOK, users, Recounted, Stacks
<1>8. NodesInv'
  <2>1. ASSUME NEW a \in Alerts, NEW o \in Objects
        PROVE  /\ place'[a][o] > 0 => o \in Kind(a)
               /\ place'[a][o] > 0 /\ Config[a].check = "user" /\ a # Group
                    => node'[a][o].user = o
               /\ node'[a][o].set => place'[a][o] > 0
    <3>1. CASE a = Group
      BY <1>2, <3>1 DEF NodesInv, Recounted, Kind
    <3>2. CASE a \in Members
      BY <1>2, <3>2 DEF NodesInv, Recounted
    <3> QED
      BY <1>3, <3>1, <3>2
  <2> QED
    BY <2>1 DEF NodesInv, Kind
<1>9. PassInv'
  <2>1. \A n \in todo' : n[1] = Group /\ place'[n[1]][n[2]] > 0
    BY <1>2, <1>4 DEF Recounted
  <2> QED
    BY <1>1, <2>1 DEF PassInv
<1> QED
  BY <1>7, <1>8, <1>9 DEF BaseInv

\* The alerts have been checked.
LEMMA EndChecksNext ==
    ASSUME BaseInv, EndChecks
    PROVE  BaseInv'
<1>1. /\ job = NoJob /\ changed' = FALSE /\ pc' = "clear"
      /\ todo' = {n \in Alerts \X Objects : n[2] \in Nodes(n[1]) /\ Due("clear", n)}
      /\ untold' = {} \/ untold' = untold
      /\ UNCHANGED <<users, job, place, node, left, own, raised, spoilt, quiet>>
  BY DEF EndChecks
<1>2. TypeOK'
  BY <1>1 DEF BaseInv, TypeOK, users
<1>3. NodesInv'
  BY <1>1 DEF BaseInv, NodesInv, Kind
<1>4. \A n \in todo' : place'[n[1]][n[2]] > 0 /\ node'[n[1]][n[2]].set
  BY <1>1 DEF Nodes, Due
<1>5. PassInv'
  BY <1>1, <1>4 DEF PassInv, NoJob
<1> QED
  BY <1>2, <1>3, <1>5 DEF BaseInv

\* The GUI switches alerts off or on.
LEMMA SwitchNext ==
    ASSUME BaseInv, NEW u \in MayIgnore, SwitchIgnore(u)
    PROVE  BaseInv'
<1>1. /\ ignores' = [ignores EXCEPT ![u] = ~ignores[u]] /\ quiet' = quiet \cup {u}
      /\ UNCHANGED <<lcr, blocked, pc, todo, job, memory, own, raised, spoilt, untold>>
      /\ left' \in Nat
  BY DEF SwitchIgnore, Event, BaseInv, TypeOK
<1>2. u \in Users
  BY ConstAssumption
<1>3. ignores' \in [Users -> BOOLEAN] /\ quiet' \subseteq Users
  BY <1>1, <1>2 DEF BaseInv, TypeOK
<1>4. TypeOK'
  BY <1>1, <1>3 DEF BaseInv, TypeOK, memory
<1>5. NodesInv'
  BY <1>1 DEF BaseInv, NodesInv, memory, Kind
<1>6. PassInv'
  <2>1. UNCHANGED <<pc, todo, job, place, node>>
    BY <1>1 DEF memory
  <2> QED
    BY <2>1 DEF BaseInv, PassInv, Routes
<1> QED
  BY <1>4, <1>5, <1>6 DEF BaseInv

\* The GUI changes an LCR.
LEMMA SetLcrNext ==
    ASSUME BaseInv, NEW u \in Users, NEW l \in NewLcrs, SetLcr(u, l)
    PROVE  BaseInv'
<1>1. /\ lcr' = [lcr EXCEPT ![u] = l] /\ own' = [own EXCEPT ![u] = l]
      /\ UNCHANGED <<blocked, ignores, pc, todo, job, memory, quiet, untold>>
  BY DEF SetLcr
<1>2. l \in Nat
  BY ConstAssumption
<1>3. lcr' \in [Users -> Nat] /\ own' \in [Users -> Nat]
  BY <1>1, <1>2 DEF BaseInv, TypeOK
<1>4. left' \in Nat
  BY DEF SetLcr, Event, BaseInv, TypeOK
<1>5. raised' \in Stacks /\ spoilt' \in SUBSET Users
  <2> DEFINE S == IF raised[u] # <<>> \/ job.step \in {"read", "write"} THEN {u} ELSE {}
  <2>1. Spoil(S, raised)
    BY DEF SetLcr
  <2>2. raised \in Stacks /\ spoilt \in SUBSET Users
    BY DEF BaseInv, TypeOK, Stacks
  <2> HIDE DEF S
  <2> QED
    BY <2>1, <2>2, SpoilTyped
<1>6. TypeOK'
  BY <1>1, <1>3, <1>4, <1>5 DEF BaseInv, TypeOK, Stacks, memory
<1>7. NodesInv'
  BY <1>1 DEF BaseInv, NodesInv, memory, Kind
<1>8. PassInv'
  <2>1. UNCHANGED <<pc, todo, job, place, node>>
    BY <1>1 DEF memory
  <2> QED
    BY <2>1 DEF BaseInv, PassInv, Routes
<1> QED
  BY <1>6, <1>7, <1>8 DEF BaseInv

\* What is freed.
LEMMA FreeMeans ==
    ASSUME BaseInv, NEW A \in SUBSET Alerts, Free(A)
    PROVE  /\ place' \in [Alerts -> [Objects -> Nat]] /\ node' \in [Alerts -> [Objects -> Node]]
           /\ raised' \in Stacks /\ spoilt' \in SUBSET Users /\ changed' = TRUE
           /\ spoilt' = spoilt \cup (Held(A) \cap Users)
           /\ \A u \in Users : raised'[u] = IF u \in spoilt' THEN <<>> ELSE raised[u]
           /\ \A a \in Alerts \ A : place'[a] = place[a] /\ node'[a] = node[a]
           /\ \A a \in A : \A o \in Objects : place'[a][o] = 0 /\ node'[a][o] = NoNode
           /\ NodesInv'
<1>1. NoNode \in Node /\ ~NoNode.set
  BY DEF NoNode, Node
<1>2. place' = [a \in Alerts |-> IF a \in A THEN [o \in Objects |-> 0] ELSE place[a]]
  BY DEF Free
<1>3. node' = [a \in Alerts |-> IF a \in A THEN [o \in Objects |-> NoNode] ELSE node[a]]
  BY DEF Free
<1>4. place \in [Alerts -> [Objects -> Nat]] /\ node \in [Alerts -> [Objects -> Node]]
  BY DEF BaseInv, TypeOK
<1>5. place' \in [Alerts -> [Objects -> Nat]]
  BY <1>2, <1>4
<1>6. node' \in [Alerts -> [Objects -> Node]]
  BY <1>1, <1>3, <1>4
<1>8. raised \in Stacks /\ spoilt \in SUBSET Users
  BY DEF BaseInv, TypeOK, Stacks
<1>9. /\ raised' \in Stacks /\ spoilt' \in SUBSET Users
      /\ spoilt' = spoilt \cup (Held(A) \cap Users)
      /\ \A u \in Users : raised'[u] = IF u \in spoilt' THEN <<>> ELSE raised[u]
  <2>1. Spoil(Held(A), raised)
    BY DEF Free
  <2> QED
    BY <1>8, <2>1, SpoilTyped
<1>10. \A a \in Alerts \ A : place'[a] = place[a] /\ node'[a] = node[a]
  BY <1>2, <1>3
<1>11. \A a \in A : \A o \in Objects : place'[a][o] = 0 /\ node'[a][o] = NoNode
  BY <1>2, <1>3
<1>12. NodesInv'
  <2>1. ASSUME NEW a \in Alerts, NEW o \in Objects
        PROVE  /\ place'[a][o] > 0 => o \in Kind(a)
               /\ place'[a][o] > 0 /\ Config[a].check = "user" /\ a # Group
                    => node'[a][o].user = o
               /\ node'[a][o].set => place'[a][o] > 0
    BY <1>1, <1>10, <1>11 DEF BaseInv, NodesInv
  <2> QED
    BY <2>1 DEF NodesInv, Kind
<1> QED
  BY <1>5, <1>6, <1>9, <1>10, <1>11, <1>12 DEF Free

\* The daemon dies, or drops an alert.
LEMMA DieNext ==
    ASSUME BaseInv, Die
    PROVE  BaseInv'
<1>1. /\ pc' = "off" /\ todo' = {} /\ job' = NoJob
      /\ UNCHANGED <<users, own, quiet, untold>> /\ Free(Alerts) /\ left' \in Nat
  BY DEF Die, Event, BaseInv, TypeOK
<1>2. /\ place' \in [Alerts -> [Objects -> Nat]] /\ node' \in [Alerts -> [Objects -> Node]]
      /\ raised' \in Stacks /\ spoilt' \in SUBSET Users /\ changed' = TRUE /\ NodesInv'
  BY <1>1, FreeMeans
<1>3. NoJob \in Job
  BY Constants DEF NoJob, Job
<1>4. TypeOK'
  BY <1>1, <1>2, <1>3 DEF BaseInv, TypeOK, Stacks, users
<1>5. PassInv'
  BY <1>1 DEF PassInv
<1> QED
  BY <1>2, <1>4, <1>5 DEF BaseInv

\* The daemon reads its alerts again, and drops some.
LEMMA ReloadNext ==
    ASSUME BaseInv, NEW A \in SUBSET Alerts, Reload(A)
    PROVE  BaseInv'
<1>1. /\ pc = "rest" /\ Free(A) /\ left' \in Nat
      /\ UNCHANGED <<users, pc, todo, job, own, quiet, untold>>
  BY DEF Reload, Event, BaseInv, TypeOK
<1>2. /\ place' \in [Alerts -> [Objects -> Nat]] /\ node' \in [Alerts -> [Objects -> Node]]
      /\ raised' \in Stacks /\ spoilt' \in SUBSET Users /\ changed' = TRUE /\ NodesInv'
  BY <1>1, FreeMeans
<1>3. TypeOK'
  BY <1>1, <1>2 DEF BaseInv, TypeOK, Stacks, users
<1>4. PassInv'
  BY <1>1 DEF BaseInv, PassInv
<1> QED
  BY <1>2, <1>3, <1>4 DEF BaseInv

\* A look at the node of an object.
LookAt(a, o) ==
    /\ <<a, o>> \in todo /\ todo' = todo \ {<<a, o>>} /\ job = NoJob
    /\ place[a][o] > 0 /\ pc \in {"check", "group", "clear"}
    /\ pc = "clear" => node[a][o].set
    /\ pc = "group" => a = Group
    /\ pc = "check" => a # Group
    /\ UNCHANGED <<users, pc, place, left, own, quiet, untold>>
    /\ node' \in [Alerts -> [Objects -> Node]]
    /\ node'[a][o].user = node[a][o].user
    /\ node'[a][o].saved = node[a][o].saved
    /\ node'[a][o].ignore = node[a][o].ignore
    /\ \A x \in Alerts, y \in Objects : <<x, y>> # <<a, o>> => node'[x][y] = node[x][y]

\* Nothing is to be reported.
LookSkips == pc # "group" /\ UNCHANGED <<job, node, changed, spoilt, raised>>

\* The node is of a user who is to be ignored.
LookIgnores(a, o) ==
    /\ node[a][o].ignore /\ changed' = TRUE /\ job' = NoJob
    /\ node'[a][o].set = ~node[a][o].set
    /\ Spoil({u \in Users : node[a][o].set /\ <<a, o>> \in ToSet(raised[u])}, raised)

\* A report begins, and goes on with its first statement.
LookBegins(a, o) ==
    /\ ~node[a][o].ignore /\ UNCHANGED <<changed, raised, spoilt>>
    /\ job' \in Job /\ job' # NoJob /\ job'.a = a /\ job'.o = o
    /\ job'.report = ~node[a][o].set
    /\ job'.step \in {"block", "read", "write", "record"}
    /\ job'.step = "read" => job'.report
    /\ job'.step = "write" => ~job'.report
    /\ job'.step \in {"read", "write"} <=> job'.step # "block" /\ Routes(a, o, job'.report)
    /\ node'[a][o].set = (job'.report <=> job'.step = "record")

\* What a look at a node does: nothing, or it sets or clears the node of an
\* ignored user, or it begins a report.
LEMMA LookMeans ==
    ASSUME BaseInv, Look
    PROVE  \E a \in Alerts, o \in Objects :
             LookAt(a, o) /\ (LookSkips \/ LookIgnores(a, o) \/ LookBegins(a, o))
<1>1. PICK n \in todo :
        /\ todo' = todo \ {n}
        /\ \/ Report(n[1], n[2], ~node[n[1]][n[2]].set)
           \/ pc # "group" /\ UNCHANGED <<job, node, changed, spoilt, raised>>
  BY DEF Look
<1> DEFINE a == n[1]
<1> DEFINE o == n[2]
<1>2. a \in Alerts /\ o \in Objects /\ n = <<a, o>>
  BY DEF BaseInv, TypeOK
<1>3. job = NoJob /\ UNCHANGED <<users, pc, place, left, own, quiet, untold>>
  BY DEF Look
<1>4. /\ place[a][o] > 0 /\ pc \in {"check", "group", "clear"}
      /\ pc = "clear" => node[a][o].set
      /\ pc = "group" => a = Group
      /\ pc = "check" => a # Group
  <2>1. todo # {}
    OBVIOUS
  <2> QED
    BY <2>1 DEF BaseInv, PassInv
<1>5. node \in [Alerts -> [Objects -> Node]] /\ node[a][o] \in Node /\ node[a][o].set \in BOOLEAN
      /\ node[a][o].saved \in Nat
  <2>1. node \in [Alerts -> [Objects -> Node]]
    BY DEF BaseInv, TypeOK
  <2>2. node[a][o] \in Node
    BY <1>2, <2>1
  <2> QED
    BY <2>1, <2>2, NodeFields
<1> DEFINE report == ~node[a][o].set
<1>6. \/ Report(a, o, report)
      \/ pc # "group" /\ UNCHANGED <<job, node, changed, spoilt, raised>>
  BY <1>1
<1>7. <<a, o>> \in todo /\ todo' = todo \ {<<a, o>>}
  BY <1>1, <1>2
<1>8. report \in BOOLEAN
  OBVIOUS
<1> HIDE DEF a, o
<1>9. CASE pc # "group" /\ UNCHANGED <<job, node, changed, spoilt, raised>>
  BY <1>2, <1>3, <1>4, <1>5, <1>7, <1>9 DEF LookAt, LookSkips
<1>10. CASE Report(a, o, report) /\ node[a][o].ignore
  <2>1. /\ node' = [node EXCEPT ![a][o].set = report] /\ changed' = TRUE /\ job' = job
        /\ Spoil({u \in Users : ~report /\ <<a, o>> \in ToSet(raised[u])}, raised)
    BY <1>10 DEF Report
  <2>2. /\ node' \in [Alerts -> [Objects -> Node]]
        /\ node'[a][o].set = report
        /\ node'[a][o].user = node[a][o].user /\ node'[a][o].saved = node[a][o].saved
        /\ node'[a][o].ignore = node[a][o].ignore
        /\ \A x \in Alerts, y \in Objects : <<x, y>> # <<a, o>> => node'[x][y] = node[x][y]
    <3> DEFINE k == node[a][o]
    <3> DEFINE b == report
    <3> DEFINE m == [k EXCEPT !.set = b]
    <3>1. k \in Node /\ b \in BOOLEAN
      BY <1>5
    <3>2. node' = [node EXCEPT ![a] = [node[a] EXCEPT ![o] = m]]
      BY <2>1
    <3> HIDE DEF k, b
    <3>3. m \in Node /\ m.set = b /\ m.user = k.user /\ m.saved = k.saved /\ m.ignore = k.ignore
      BY <3>1 DEF Node
    <3> HIDE DEF m
    <3>4. node'[a][o] = m
      BY <1>2, <1>5, <3>2
    <3>5. node' \in [Alerts -> [Objects -> Node]]
      BY <1>2, <1>5, <3>2, <3>3
    <3>6. \A x \in Alerts, y \in Objects : <<x, y>> # <<a, o>> => node'[x][y] = node[x][y]
      BY <1>2, <1>5, <3>2
    <3> QED
      BY <3>3, <3>4, <3>5, <3>6 DEF k, b
  <2>3. (~report) = node[a][o].set
    BY <1>5
  <2>4. Spoil({u \in Users : node[a][o].set /\ <<a, o>> \in ToSet(raised[u])}, raised)
    BY <2>1, <2>3
  <2>5. LookAt(a, o)
    BY <1>2, <1>3, <1>4, <1>7, <2>2 DEF LookAt
  <2>6. LookIgnores(a, o)
    BY <1>3, <1>10, <2>1, <2>2, <2>4 DEF LookIgnores
  <2> QED
    BY <1>2, <2>5, <2>6
<1>11. CASE Report(a, o, report) /\ ~node[a][o].ignore
  <2> DEFINE j == [a |-> a, o |-> o, report |-> report, step |-> "none"]
  <2> DEFINE next == IF Blocks(a) THEN "block" ELSE AfterBlock(a, o, report)
  <2>1. Advance(j, node, next) /\ UNCHANGED <<raised, spoilt>>
    BY <1>11 DEF Report
  <2>2. /\ next \in {"block", "read", "write", "record"}
        /\ next = "read" => report
        /\ next = "write" => ~report
        /\ next \in {"read", "write"} <=> next # "block" /\ Routes(a, o, report)
    BY DEF AfterBlock
  <2>3. j \in Job /\ j.a = a /\ j.o = o /\ j.report = report
    BY <1>2, <1>8, Constants DEF Job
  <2>4. node[a][o].set = ~report
    BY <1>5
  <2> HIDE DEF next, j, report
  <2>5. /\ job' \in Job /\ job' # NoJob /\ job'.step = next
        /\ job'.a = a /\ job'.o = o /\ job'.report = report
        /\ changed' = changed
        /\ node' \in [Alerts -> [Objects -> Node]]
        /\ node'[a][o].set = (report <=> next = "record")
        /\ node'[a][o].user = node[a][o].user
        /\ node'[a][o].saved = node[a][o].saved
        /\ node'[a][o].ignore = node[a][o].ignore
        /\ \A x \in Alerts, y \in Objects : <<x, y>> # <<a, o>> => node'[x][y] = node[x][y]
    <3>1. Advanced(j, node, next)
      BY <1>2, <1>5, <2>1, <2>2, <2>3, <2>4, AdvanceMeans
    <3> QED
      BY <2>3, <3>1 DEF Advanced
  <2>6. report = ~node[a][o].set
    BY DEF report
  <2>7. LookAt(a, o)
    BY <1>2, <1>3, <1>4, <1>7, <2>5 DEF LookAt
  <2>8. LookBegins(a, o)
    BY <1>11, <2>1, <2>2, <2>5, <2>6 DEF LookBegins
  <2> QED
    BY <1>2, <2>7, <2>8
<1> QED
  BY <1>6, <1>9, <1>10, <1>11

\* A look keeps the types and the nodes.
LEMMA LookNext ==
    ASSUME BaseInv, Look
    PROVE  BaseInv'
<1>0. PICK a \in Alerts, o \in Objects :
        LookAt(a, o) /\ (LookSkips \/ LookIgnores(a, o) \/ LookBegins(a, o))
  BY LookMeans
<1>1. /\ <<a, o>> \in todo /\ todo' = todo \ {<<a, o>>} /\ job = NoJob
      /\ place[a][o] > 0 /\ pc \in {"check", "group", "clear"}
      /\ pc = "clear" => node[a][o].set
      /\ pc = "group" => a = Group
      /\ pc = "check" => a # Group
      /\ UNCHANGED <<users, pc, place, left, own, quiet, untold>>
      /\ node' \in [Alerts -> [Objects -> Node]]
      /\ node'[a][o].user = node[a][o].user
      /\ node'[a][o].ignore = node[a][o].ignore
      /\ \A x \in Alerts, y \in Objects : <<x, y>> # <<a, o>> => node'[x][y] = node[x][y]
  BY <1>0 DEF LookAt
<1>2. raised \in Stacks /\ spoilt \in SUBSET Users
  BY DEF BaseInv, TypeOK, Stacks
<1>3. raised' \in Stacks /\ spoilt' \in SUBSET Users /\ changed' \in BOOLEAN /\ job' \in Job
  <2>1. changed \in BOOLEAN /\ job \in Job
    BY DEF BaseInv, TypeOK
  <2>2. CASE LookSkips
    BY <1>2, <2>1, <2>2 DEF LookSkips
  <2>3. CASE LookIgnores(a, o)
    <3>2. job' \in Job
      BY <1>1, <2>1, <2>3 DEF LookIgnores
    <3> QED
      BY <1>2, <2>3, <3>2, SpoilTyped DEF LookIgnores
  <2>4. CASE LookBegins(a, o)
    BY <1>2, <2>1, <2>4 DEF LookBegins
  <2> QED
    BY <1>0, <2>2, <2>3, <2>4
<1>4. TypeOK'
  BY <1>1, <1>3 DEF BaseInv, TypeOK, Stacks, users
<1>5. NodesInv'
  <2>1. \A x \in Alerts, y \in Objects :
          /\ node'[x][y].user = node[x][y].user
          /\ node'[x][y].set => node[x][y].set \/ place[x][y] > 0
    BY <1>1
  <2> QED
    BY <1>1, <2>1, NodesKept DEF BaseInv
<1>6. PassInv'
  <2>1. \A n \in todo' : /\ place'[n[1]][n[2]] > 0 /\ (pc' = "clear" => node'[n[1]][n[2]].set)
                         /\ pc' = "group" => n[1] = Group
                         /\ pc' = "check" => n[1] # Group
    <3> TAKE n \in todo'
    <3>1. n \in todo /\ n[1] \in Alerts /\ n[2] \in Objects /\ n = <<n[1], n[2]>> /\ n # <<a, o>>
      BY <1>1 DEF BaseInv, TypeOK
    <3>2. node'[n[1]][n[2]] = node[n[1]][n[2]]
      BY <1>1, <3>1
    <3> QED
      BY <1>1, <3>1, <3>2 DEF BaseInv, PassInv
  <2>2. job' # NoJob =>
         /\ job'.a \in Alerts /\ job'.o \in Objects /\ place'[job'.a][job'.o] > 0
         /\ <<job'.a, job'.o>> \notin todo'
         /\ job'.step \in {"block", "read", "write", "record"}
         /\ node'[job'.a][job'.o].set = (job'.report <=> job'.step = "record")
         /\ ~node'[job'.a][job'.o].ignore
         /\ job'.step = "read" => job'.report
         /\ job'.step \in {"read", "write"} => Routes(job.a, job.o, job.report)'
         /\ pc' = "clear" => ~job'.report
         /\ pc' = "group" => job'.a = Group
         /\ pc' = "check" => job'.a # Group
    <3>1. node[a][o].set \in BOOLEAN
      BY NodeFields DEF BaseInv, TypeOK
    <3>2. CASE LookSkips \/ LookIgnores(a, o)
      BY <1>1, <3>2 DEF LookSkips, LookIgnores
    <3>3. CASE LookBegins(a, o)
      <4>1. job'.step \in {"read", "write"} => Routes(job.a, job.o, job.report)'
        BY <1>1, <3>3 DEF LookBegins, Routes
      <4> QED
        BY <1>1, <3>1, <3>3, <4>1 DEF LookBegins
    <3> QED
      BY <1>0, <3>2, <3>3
  <2> QED
    BY <1>1, <2>1, <2>2 DEF PassInv
<1> QED
  BY <1>4, <1>5, <1>6 DEF BaseInv

\* So does every step.
LEMMA BaseNext ==
    ASSUME BaseInv, [Next]_vars
    PROVE  BaseInv'
<1>1. CASE Start \/ EndTick
  BY <1>1, PassEnds
<1>2. CASE \E Out \in SUBSET Devices, In \in SetToAllKPermutations(Devices) : Update(Out, In)
  BY <1>2, UpdateNext
<1>3. CASE Look
  BY <1>3, LookNext
<1>4. CASE CountGroup \/ EndChecks
  BY <1>4, CountNext, EndChecksNext
<1>5. CASE Block \/ ReadLcr \/ WriteLcr
  BY <1>5, ReportNext
<1>6. CASE Record \/ ReportFails
  BY <1>6, RecordNext
<1>7. CASE \E u \in Users, l \in NewLcrs : SetLcr(u, l)
  BY <1>7, SetLcrNext
<1>8. CASE Die
  BY <1>8, DieNext
<1>9. CASE \E A \in SUBSET {a \in Alerts : Nodes(a) # {}} : Reload(A)
  <2>1. PICK A \in SUBSET {a \in Alerts : Nodes(a) # {}} : Reload(A)
    BY <1>9
  <2>2. A \in SUBSET Alerts
    OBVIOUS
  <2> QED
    BY <2>1, <2>2, ReloadNext
<1>10. CASE UNCHANGED vars
  <2>1. UNCHANGED <<lcr, blocked, ignores, pc, todo, job, place, node, changed, left,
                    own, raised, spoilt, quiet, untold>>
    BY <1>10 DEF vars, users, memory, history
  <2> QED
    BY <2>1 DEF BaseInv, TypeOK, NodesInv, PassInv, Kind, Routes
<1>11. CASE \E u \in MayIgnore : SwitchIgnore(u)
  BY <1>11, SwitchNext
<1> QED
  BY <1>1, <1>2, <1>3, <1>4, <1>5, <1>6, <1>7, <1>8, <1>9, <1>10, <1>11 DEF Next, Daemon

\* Every variable keeps its type, with any alerts, users and devices.
THEOREM TypeCorrect == Spec => []TypeOK
<1>1. Init => BaseInv
  BY BaseInit
<1>2. BaseInv /\ [Next]_vars => BaseInv'
  BY BaseNext
<1>3. BaseInv => TypeOK
  BY DEF BaseInv
<1> QED
  BY <1>1, <1>2, <1>3, PTL DEF Spec

-----------------------------------------------------------------------------
(***************************************************************************)
(* The users who are to be ignored.                                        *)
(***************************************************************************)
\* The members that watch users know whom to ignore.
MarksInv ==
    \A a \in Members : \A u \in Users :
      Config[a].check = "user" /\ place[a][u] > 0 /\ u \notin quiet
        => node[a][u].ignore = ignores[u]

\* The inductive invariant of the marks.
SpareInv == BaseInv /\ MarksInv

\* The marks stay.
LEMMA MarksKept ==
    ASSUME MarksInv, UNCHANGED <<place, ignores, quiet>>,
           \A a \in Alerts, o \in Objects : node'[a][o].ignore = node[a][o].ignore
    PROVE  MarksInv'
<1>1. Users \subseteq Objects /\ Members \subseteq Alerts
  BY Constants DEF Objects
<1> QED
  BY <1>1 DEF MarksInv

\* There are no nodes at first.
LEMMA MarksInit ==
    ASSUME Init
    PROVE  MarksInv
<1>1. \A a \in Members, o \in Objects : place[a][o] = 0
  BY Constants DEF Init
<1> QED
  BY <1>1 DEF MarksInv, Objects

\* A call that is added brings the mark; of whom a call leaves is quiet.
LEMMA MarksUpdate ==
    ASSUME SpareInv, NEW Out \in SUBSET Devices,
           NEW In \in SetToAllKPermutations(Devices), Update(Out, In)
    PROVE  MarksInv'
<1>1. TypeOK /\ NodesInv /\ MarksInv /\ Users \subseteq Objects
  BY DEF SpareInv, BaseInv, Objects
<1>2. ignores' = ignores
      /\ quiet' = (quiet \cup {Owner[d] : d \in Out}) \ {Owner[d] : d \in ToSet(In)}
  BY DEF Update, users
<1>3. \A a \in Members : \A o \in Objects :
        /\ place'[a][o] > 0 => o \in Kind(a) /\ (place[a][o] > 0 \/ o \in Of(a, ToSet(In)))
        /\ o \in Of(a, ToSet(In)) => node'[a][o] = Touched(a, o, TRUE)
        /\ o \notin Of(a, ToSet(In)) /\ o \notin Of(a, Out) => node'[a][o] = node[a][o]
  <2>1. Updated(Out, In)
    BY <1>1, UpdateMeans
  <2>2. \A a \in Members : a \in Alerts /\ a # Group
    BY Constants
  <2> QED
    BY <2>1, <2>2 DEF Updated
<1>4. ASSUME NEW a \in Members, NEW u \in Users,
             Config[a].check = "user", place'[a][u] > 0, u \notin quiet'
      PROVE  node'[a][u].ignore = ignores[u]
  <2>1. \A D : Of(a, D) = {Owner[d] : d \in D}
    BY <1>4 DEF Of, ObjectOf
  <2>2. CASE u \in Of(a, ToSet(In))
    <3>1. node'[a][u] = Touched(a, u, TRUE) /\ u \in Kind(a)
      BY <1>1, <1>3, <1>4, <2>2
    <3>2. TRUE \in BOOLEAN
      OBVIOUS
    <3>3. Touched(a, u, TRUE).ignore = ignores[u]
      BY <1>1, <1>4, <3>1, <3>2, TouchedMeans, Zenon
    <3> QED
      BY <3>1, <3>3
  <2>3. CASE u \notin Of(a, ToSet(In))
    <3>1. u \notin Of(a, Out) /\ u \notin quiet
      BY <1>2, <1>4, <2>1, <2>3
    <3>2. node'[a][u] = node[a][u] /\ place[a][u] > 0
      BY <1>1, <1>3, <1>4, <2>3, <3>1
    <3> QED
      BY <1>1, <1>4, <3>1, <3>2 DEF MarksInv
  <2> QED
    BY <2>2, <2>3
<1> QED
  BY <1>2, <1>4 DEF MarksInv

\* Every step keeps the marks.
LEMMA MarksNext ==
    ASSUME SpareInv, [Next]_vars
    PROVE  MarksInv'
<1>0. BaseInv /\ MarksInv
  BY DEF SpareInv
<1>1. CASE \E Out \in SUBSET Devices, In \in SetToAllKPermutations(Devices) : Update(Out, In)
  BY <1>1, MarksUpdate
<1>2. CASE Look
  <2>1. PICK a \in Alerts, o \in Objects : LookAt(a, o)
    BY <1>0, <1>2, LookMeans
  <2> QED
    BY <1>0, <2>1, MarksKept DEF LookAt, users
<1>3. CASE Block \/ ReadLcr \/ WriteLcr
  <2>1. /\ UNCHANGED <<place, ignores, quiet>> /\ job # NoJob
        /\ node'[job.a][job.o].ignore = This.ignore
        /\ \A x \in Alerts, y \in Objects : <<x, y>> # <<job.a, job.o>> => node'[x][y] = node[x][y]
    BY <1>0, <1>3, ReportSteps
  <2> QED
    BY <1>0, <2>1, MarksKept DEF This
<1>4. CASE Start \/ EndTick \/ EndChecks \/ Record \/ ReportFails \/ UNCHANGED vars
           \/ \E u \in Users, l \in NewLcrs : SetLcr(u, l)
  <2>1. UNCHANGED <<place, node, ignores, quiet>>
    <3>1. CASE Start \/ EndTick \/ EndChecks
      BY <3>1 DEF Start, EndTick, EndChecks, users, memory, history
    <3>2. CASE Record \/ ReportFails
      BY <3>2 DEF Record, ReportFails, users, memory, history
    <3>3. CASE UNCHANGED vars
      BY <3>3 DEF vars, users, memory, history
    <3>4. CASE \E u \in Users, l \in NewLcrs : SetLcr(u, l)
      BY <3>4 DEF SetLcr, memory
    <3> QED
      BY <1>4, <3>1, <3>2, <3>3, <3>4
  <2> QED
    BY <1>0, <2>1, MarksKept
<1>5. CASE Die \/ \E A \in SUBSET {a \in Alerts : Nodes(a) # {}} : Reload(A)
  <2>1. PICK A \in SUBSET Alerts : Free(A)
    <3>1. CASE Die
      BY <3>1 DEF Die
    <3>2. CASE \E A \in SUBSET {a \in Alerts : Nodes(a) # {}} : Reload(A)
      BY <3>2 DEF Reload
    <3> QED
      BY <1>5, <3>1, <3>2
  <2>2. ignores' = ignores /\ quiet' = quiet
    BY <1>5 DEF Die, Reload, users
  <2>3. /\ \A a \in Alerts \ A : place'[a] = place[a] /\ node'[a] = node[a]
        /\ \A a \in A : \A o \in Objects : place'[a][o] = 0
    BY <1>0, <2>1, FreeMeans
  <2>4. Users \subseteq Objects /\ Members \subseteq Alerts
    BY Constants DEF Objects
  <2> QED
    BY <1>0, <2>2, <2>3, <2>4 DEF MarksInv
<1>6. CASE CountGroup
  <2>1. UNCHANGED <<ignores, quiet>>
    BY <1>6 DEF CountGroup, users
  <2>2. \A a \in Members : place'[a] = place[a] /\ node'[a] = node[a]
    <3>1. Recounted
      BY <1>0, <1>6, CountMeans DEF BaseInv
    <3> QED
      BY <3>1 DEF Recounted
  <2> QED
    BY <1>0, <2>1, <2>2 DEF MarksInv
<1>7. CASE \E u \in MayIgnore : SwitchIgnore(u)
  <2>1. PICK u \in MayIgnore : SwitchIgnore(u)
    BY <1>7
  <2>2. /\ ignores' = [ignores EXCEPT ![u] = ~ignores[u]] /\ quiet' = quiet \cup {u}
        /\ UNCHANGED <<place, node>>
    BY <2>1 DEF SwitchIgnore, memory
  <2>3. \A v \in Users : v \notin quiet' => v \notin quiet /\ ignores'[v] = ignores[v]
    <3>1. ignores \in [Users -> BOOLEAN]
      BY <1>0 DEF BaseInv, TypeOK
    <3> QED
      BY <2>2, <3>1
  <2> QED
    BY <1>0, <2>2, <2>3 DEF MarksInv
<1> QED
  BY <1>1, <1>2, <1>3, <1>4, <1>5, <1>6, <1>7 DEF Next, Daemon

\* A report that changes a user's row is not about one who is to be ignored.
LEMMA SpareNext ==
    ASSUME SpareInv, [Next]_vars, NEW u \in Users,
           job # NoJob, job.a # Group, Config[job.a].check = "user", job' # job,
           lcr'[u] # lcr[u] \/ blocked'[u] # blocked[u]
    PROVE  ~ignores[u] \/ u \in quiet
<1>0. BaseInv /\ MarksInv
  BY DEF SpareInv
<1>1. /\ job.a \in Alerts /\ job.o \in Objects /\ place[job.a][job.o] > 0
      /\ ~node[job.a][job.o].ignore
      /\ job.a \in Members
  BY <1>0, Constants DEF BaseInv, PassInv
<1>2. node[job.a][job.o].user = job.o /\ job.o \in Users
  BY <1>0, <1>1 DEF BaseInv, NodesInv, Kind
<1>3. Block \/ WriteLcr
  <2>1. job' = job \/ UNCHANGED <<lcr, blocked>> \/ Block \/ WriteLcr
    <3>1. CASE \E Out \in SUBSET Devices, In \in SetToAllKPermutations(Devices) : Update(Out, In)
      BY <3>1 DEF Update, users
    <3>2. CASE Look
      BY <3>2 DEF Look, users
    <3>3. CASE Start \/ EndTick \/ CountGroup \/ EndChecks
      BY <3>3 DEF Start, EndTick, CountGroup, EndChecks, users
    <3>7. CASE Record \/ ReportFails \/ ReadLcr
      BY <3>7 DEF Record, ReportFails, ReadLcr, users
    <3>8. CASE \E v \in MayIgnore : SwitchIgnore(v)
      BY <3>8 DEF SwitchIgnore
    <3>4. CASE \E v \in Users, l \in NewLcrs : SetLcr(v, l)
      BY <3>4 DEF SetLcr
    <3>5. CASE Die \/ \E A \in SUBSET {a \in Alerts : Nodes(a) # {}} : Reload(A)
      BY <3>5 DEF Die, Reload, users
    <3>6. CASE UNCHANGED vars
      BY <3>6 DEF vars
    <3> QED
      BY <3>1, <3>2, <3>3, <3>4, <3>5, <3>6, <3>7, <3>8 DEF Next, Daemon
  <2> QED
    BY <2>1
<1>4. u = job.o
  <2>1. CASE Block
    <3>1. lcr' = lcr /\ blocked' = [v \in Users |-> IF v = job.o THEN job.report ELSE blocked[v]]
      BY <2>1 DEF Block
    <3> QED
      BY <3>1
  <2>2. CASE WriteLcr
    <3>1. blocked' = blocked
      BY <2>2 DEF WriteLcr
    <3>2. lcr' = lcr \/ lcr' = [lcr EXCEPT ![This.user] = Target(job.a, job.o, job.report)]
      BY <2>2 DEF WriteLcr
    <3>3. lcr \in [Users -> Nat]
      BY <1>0 DEF BaseInv, TypeOK
    <3>4. u = This.user
      BY <3>1, <3>2, <3>3
    <3> QED
      BY <1>2, <3>4 DEF This
  <2> QED
    BY <1>3, <2>1, <2>2
<1>5. ignores[u] \in BOOLEAN
  BY <1>0 DEF BaseInv, TypeOK
<1> QED
  BY <1>0, <1>1, <1>2, <1>4, <1>5 DEF MarksInv

\* No report on an alert on users but the group's writes to the row of a user for
\* whom alerts are switched off (report_alert), unless since the last call of the
\* user came one has left a period or the switch was moved.
THEOREM IgnoredAreSpared == Spec => IgnoredUsersAreSpared
<1>1. Init => SpareInv
  BY BaseInit, MarksInit DEF SpareInv
<1>2. SpareInv /\ [Next]_vars => SpareInv'
  <2>1. SpareInv /\ [Next]_vars => BaseInv'
    BY BaseNext DEF SpareInv
  <2> QED
    BY <2>1, MarksNext DEF SpareInv
<1>3. SpareInv /\ [Next]_vars =>
        [\A u \in Users :
           /\ job # NoJob /\ job.a # Group /\ Config[job.a].check = "user"
           /\ job' # job
           /\ lcr'[u] # lcr[u] \/ blocked'[u] # blocked[u]
           => ~ignores[u] \/ u \in quiet]_vars
  BY SpareNext
<1> QED
  BY <1>1, <1>2, <1>3, PTL DEF Spec, IgnoredUsersAreSpared

-----------------------------------------------------------------------------
(***************************************************************************)
(* The group.                                                              *)
(***************************************************************************)
\* The alerts that are set on an object are finitely many.
LEMMA SetOnIsFinite ==
    ASSUME NEW S \in SUBSET Alerts, NEW T \in SUBSET S
    PROVE  /\ Cardinality(S) \in Nat /\ Cardinality(T) \in Nat
           /\ Cardinality(T) <= Cardinality(S)
           /\ Cardinality(T) > 0 => T # {}
<1>1. IsFiniteSet(S) /\ IsFiniteSet(T)
  BY Constants, FS_Subset
<1>2. Cardinality(S) \in Nat /\ Cardinality(T) \in Nat /\ Cardinality(T) <= Cardinality(S)
  BY <1>1, FS_Subset, FS_CardinalityType
<1>3. Cardinality({}) = 0
  BY FS_EmptySet
<1> QED
  BY <1>2, <1>3

\* Each object that has a node is counted with one of its alerts.
LEMMA EachIsCounted ==
    ASSUME NEW o, NEW b \in Members, o \in Nodes(b)
    PROVE  \E a \in Members : CountedWith(a, o)
<1> DEFINE S == {a \in Members : o \in Nodes(a)}
<1>1. S \in SUBSET Nat /\ S # {}
  BY Constants
<1>2. PICK a \in S : \A c \in S : a <= c
  BY <1>1, LeastNumber
<1>3. \A c \in Members : c < a => o \notin Nodes(c)
  <2> TAKE c \in Members
  <2>1. a \in Nat /\ c \in Nat
    BY <1>2, Constants
  <2> QED
    BY <1>2, <2>1
<1> QED
  BY <1>2, <1>3 DEF CountedWith

\* The members that are set on an object are in its sum.
LEMMA SumHasOwn ==
    ASSUME BaseInv, NEW o \in Objects, NEW b \in Members, o \in Nodes(b)
    PROVE  GroupSum(o) \in Nat /\ GroupSum(o) >= Cardinality(SetOn(o))
<1> DEFINE G == {n \in Objects \X Members :
                   /\ n[2] \in SetOn(n[1])
                   /\ \E a \in Members : /\ CountedWith(a, o) /\ CountedWith(a, n[1])
                                        /\ place[a][n[1]] <= place[a][o]}
<1> DEFINE P == {o} \X SetOn(o)
<1>1. PICK a \in Members : CountedWith(a, o)
  BY EachIsCounted
<1>2. place[a][o] \in Nat
  BY Constants DEF BaseInv, TypeOK
<1>3. SetOn(o) \in SUBSET Members /\ SetOn(o) \in SUBSET Alerts
  BY Constants DEF SetOn
<1>4. P \subseteq G
  <2> SUFFICES ASSUME NEW n \in P PROVE n \in G
    OBVIOUS
  <2>1. n[1] = o /\ n[2] \in SetOn(o) /\ n \in Objects \X Members
    BY <1>3
  <2>2. place[a][n[1]] <= place[a][o]
    BY <1>2, <2>1
  <2> QED
    BY <1>1, <2>1, <2>2
<1>5. IsFiniteSet(Objects \X Members) /\ G \in SUBSET (Objects \X Members)
  <2>1. IsFiniteSet(Members)
    BY Constants, FS_Subset
  <2> QED
    BY <2>1, Constants, FS_Product
<1>6. IsFiniteSet(G)
  BY <1>5, FS_Subset
<1>7. IsFiniteSet(SetOn(o)) /\ IsFiniteSet({o}) /\ Cardinality({o}) = 1
  BY <1>3, Constants, FS_Subset, FS_Singleton
<1>8. Cardinality(P) = Cardinality({o}) * Cardinality(SetOn(o))
  BY <1>7, FS_Product
<1>9. Cardinality(P) = Cardinality(SetOn(o))
  BY <1>3, <1>7, <1>8, SetOnIsFinite
<1>10. Cardinality(P) <= Cardinality(G) /\ Cardinality(G) \in Nat
  BY <1>4, <1>6, FS_Subset, FS_CardinalityType
<1>11. GroupSum(o) = Cardinality(G)
  BY DEF GroupSum
<1> HIDE DEF G, P
<1> QED
  BY <1>9, <1>10, <1>11

\* The node of the group on o has been cleared, and the report is yet to be
\* written down.
ToBeTold(o) == job # NoJob /\ job.a = Group /\ job.o = o /\ job.step = "record"

\* The group is raised on the objects on which too many members are set, unless
\* the daemon is going to look at it, or is about to write down that a member is
\* set, or that the group is cleared.
GroupInv ==
    ~changed /\ ~(pc = "check" /\ job.step = "record") =>
      \A o \in Objects \ untold :
        Cardinality(SetOn(o)) > more_than => node[Group][o].set \/ ToBeTold(o)

\* The daemon has the object of a node of the group in line, or is raising the
\* group on it, or has it raised.
Asked(o) ==
    \/ <<Group, o>> \in todo /\ ~node[Group][o].set
    \/ job # NoJob /\ job.o = o /\ job.report
    \/ <<Group, o>> \notin todo /\ node[Group][o].set /\ ~(job # NoJob /\ job.o = o)

\* While the group is looked at, no object on which too many members are set is
\* left out.
LooksInv ==
    pc = "group" =>
      changed /\ \A o \in Objects : Cardinality(SetOn(o)) > more_than => Asked(o)

\* The inductive invariant of the group.
GroupStands == BaseInv /\ GroupInv /\ LooksInv

\* The daemon is going to look at the group at first.
LEMMA GroupInit ==
    ASSUME Init
    PROVE  GroupInv /\ LooksInv
  BY DEF Init, GroupInv, LooksInv

\* The group was right, no object has got a member, and where the group has been
\* cleared it is to be told.
LEMMA GroupKept ==
    ASSUME GroupInv, ~changed, ~(pc = "check" /\ job.step = "record"),
           \A o \in Objects : SetOn(o)' \subseteq SetOn(o),
           \A o \in Objects : o \notin untold' => o \notin untold,
           \A o \in Objects : o \notin untold' /\ (node[Group][o].set \/ ToBeTold(o))
                                => node'[Group][o].set \/ ToBeTold(o)'
    PROVE  GroupInv'
<1>1. ASSUME NEW o \in Objects, o \notin untold', Cardinality(SetOn(o)') > more_than
      PROVE  node'[Group][o].set \/ ToBeTold(o)'
  <2>1. SetOn(o) \in SUBSET Alerts
    BY Constants DEF SetOn
  <2>2. Cardinality(SetOn(o)') \in Nat /\ Cardinality(SetOn(o)) \in Nat
        /\ Cardinality(SetOn(o)') <= Cardinality(SetOn(o)) /\ more_than \in Nat
    BY <2>1, Constants, SetOnIsFinite
  <2>3. Cardinality(SetOn(o)) > more_than
    BY <1>1, <2>2
  <2>4. node[Group][o].set \/ ToBeTold(o)
    BY <1>1, <2>3 DEF GroupInv
  <2> QED
    BY <1>1, <2>4
<1> QED
  BY <1>1 DEF GroupInv

\* What the daemon has in line stays.
LEMMA LooksKept ==
    ASSUME LooksInv, UNCHANGED <<pc, todo, job, place, node, changed>>
    PROVE  LooksInv'
<1>1. \A o \in Objects : SetOn(o)' = SetOn(o)
  BY DEF SetOn, Nodes
<1> QED
  BY <1>1 DEF LooksInv, Asked

\* The count puts each object that asks for the group in line.
LEMMA GroupCounted ==
    ASSUME BaseInv, CountGroup
    PROVE  LooksInv'
<1>1. /\ job = NoJob /\ job' = job /\ changed /\ changed' = changed
      /\ \A o \in Counted : <<Group, o>> \in todo' <=> Asks(o)
  <2>1. todo' = {Group} \X ({o \in Counted : Asks(o)} \cup Stale)
    BY DEF CountGroup
  <2>2. \A o \in Counted : o \notin Stale
    BY DEF Stale
  <2> QED
    BY <2>1, <2>2 DEF CountGroup
<1>2. Recounted
  BY CountMeans DEF BaseInv
<1>3. Group \in Alerts /\ \A a \in Members : a \in Alerts
  BY Constants
<1>4. ASSUME NEW o \in Objects, Cardinality(SetOn(o)') > more_than
      PROVE  Asked(o)'
  <2>1. SetOn(o)' = SetOn(o)
    BY <1>2 DEF SetOn, Nodes, Recounted
  <2>2. SetOn(o) \in SUBSET Alerts
    BY <1>3 DEF SetOn
  <2>3. Cardinality(SetOn(o)) \in Nat /\ more_than \in Nat /\ less_than \in 0 .. more_than + 1
        /\ (Cardinality(SetOn(o)) > 0 => SetOn(o) # {})
    BY <2>2, Constants, SetOnIsFinite
  <2>4. PICK b \in Members : o \in Nodes(b)
    <3>1. SetOn(o) # {}
      BY <1>4, <2>1, <2>3
    <3> QED
      BY <3>1 DEF SetOn
  <2>5. GroupSum(o) \in Nat /\ GroupSum(o) >= Cardinality(SetOn(o))
    BY <2>4, SumHasOwn
  <2>6. GroupSum(o) > more_than /\ ~(GroupSum(o) < less_than)
    BY <1>4, <2>1, <2>3, <2>5
  <2>7. o \in Counted
    BY <2>4, EachIsCounted DEF Counted
  <2>8. node'[Group][o].set = node[Group][o].set
    BY <1>2 DEF Recounted
  <2>9. CASE node[Group][o].set
    <3>1. ~Asks(o)
      BY <2>6, <2>9 DEF Asks
    <3>2. <<Group, o>> \notin todo'
      BY <1>1, <2>7, <3>1
    <3> QED
      BY <1>1, <2>8, <2>9, <3>2 DEF Asked
  <2>10. CASE ~node[Group][o].set
    <3>1. Asks(o)
      BY <2>6, <2>10 DEF Asks
    <3>2. <<Group, o>> \in todo'
      BY <1>1, <2>7, <3>1
    <3> QED
      BY <2>8, <2>10, <3>2 DEF Asked
  <2> QED
    BY <2>9, <2>10
<1> QED
  BY <1>1, <1>4 DEF LooksInv

\* The group is right when it has been looked at.
LEMMA GroupChecked ==
    ASSUME GroupStands, EndChecks
    PROVE  GroupInv'
<1>1. /\ job = NoJob /\ todo = {} /\ UNCHANGED <<job, place, node>>
      /\ untold' = IF pc = "group" THEN {} ELSE untold
      /\ pc = "group" \/ ~changed
  BY DEF EndChecks
<1>2. \A o \in Objects : SetOn(o)' = SetOn(o)
  BY <1>1 DEF SetOn, Nodes
<1>3. CASE pc = "group"
  <2>1. \A o \in Objects : Asked(o) => node[Group][o].set
    BY <1>1 DEF Asked
  <2> QED
    BY <1>1, <1>2, <1>3, <2>1 DEF GroupStands, LooksInv, GroupInv
<1>4. CASE pc # "group"
  <2>1. ~changed /\ job.step # "record" /\ untold' = untold /\ GroupInv
    BY <1>1, <1>4 DEF NoJob, GroupStands
  <2>2. \A o \in Objects : ToBeTold(o)' <=> ToBeTold(o)
    BY <1>1 DEF ToBeTold
  <2> QED
    BY <1>1, <1>2, <2>1, <2>2, GroupKept
<1> QED
  BY <1>3, <1>4

\* The daemon looks at a node.
LEMMA GroupLook ==
    ASSUME GroupStands, Look
    PROVE  GroupInv' /\ LooksInv'
<1>0. BaseInv /\ GroupInv /\ LooksInv /\ Group \in Alerts
  BY Constants DEF GroupStands
<1>1. PICK a \in Alerts, o \in Objects :
        LookAt(a, o) /\ (LookSkips \/ LookIgnores(a, o) \/ LookBegins(a, o))
  BY <1>0, LookMeans
<1>2. /\ job = NoJob /\ UNCHANGED <<place, pc, untold>>
      /\ <<a, o>> \in todo /\ todo' = todo \ {<<a, o>>}
      /\ pc \in {"check", "group", "clear"}
      /\ pc = "clear" => node[a][o].set
      /\ pc = "group" => a = Group
      /\ pc = "check" => a # Group
  BY <1>1 DEF LookAt
<1>3. \A x \in Alerts, y \in Objects : <<x, y>> # <<a, o>> => node'[x][y] = node[x][y]
  BY <1>1 DEF LookAt
<1>4. node[a][o].set \in BOOLEAN
  BY <1>0, NodeFields DEF BaseInv, TypeOK
<1>5. \A y \in Objects : ~ToBeTold(y)
  BY <1>2 DEF ToBeTold
<1>6. LooksInv'
  <2>1. CASE pc # "group"
    BY <1>2, <2>1 DEF LooksInv
  <2>2. CASE pc = "group"
    <3>1. a = Group /\ changed /\ ~LookSkips
      BY <1>0, <1>2, <2>2 DEF LooksInv, LookSkips
    <3>2. changed'
      BY <1>1, <3>1 DEF LookIgnores, LookBegins
    <3>3. \A y \in Objects : SetOn(y)' = SetOn(y)
      <4>1. \A x \in Members : x \in Alerts /\ x # Group
        BY Constants
      <4>2. \A x \in Members, y \in Objects : node'[x][y] = node[x][y]
        BY <1>3, <3>1, <4>1
      <4> QED
        BY <1>2, <4>2 DEF SetOn, Nodes
    <3>4. ASSUME NEW y \in Objects, Asked(y) PROVE Asked(y)'
      <4>1. CASE y # o
        <5>1. node'[Group][y] = node[Group][y]
          BY <1>0, <1>3, <4>1
        <5>2. <<Group, y>> \in todo' <=> <<Group, y>> \in todo
          BY <1>2, <4>1
        <5>3. job' # NoJob => job'.o # y
          BY <1>1, <3>1, <4>1 DEF LookIgnores, LookBegins
        <5> QED
          BY <1>2, <3>4, <5>1, <5>2, <5>3 DEF Asked
      <4>2. CASE y = o
        <5>1. ~node[Group][y].set
          BY <1>2, <3>1, <3>4, <4>2 DEF Asked
        <5>2. <<Group, y>> \notin todo'
          BY <1>2, <3>1, <4>2
        <5>3. CASE LookIgnores(a, o)
          <6>1. node'[Group][y].set /\ job' = NoJob
            BY <3>1, <4>2, <5>1, <5>3 DEF LookIgnores
          <6> QED
            BY <5>2, <6>1 DEF Asked
        <5>4. CASE LookBegins(a, o)
          <6>1. job' # NoJob /\ job'.o = y /\ job'.report
            BY <3>1, <4>2, <5>1, <5>4 DEF LookBegins
          <6> QED
            BY <6>1 DEF Asked
        <5> QED
          BY <1>1, <3>1, <5>3, <5>4
      <4> QED
        BY <4>1, <4>2
    <3> QED
      BY <1>0, <2>2, <3>2, <3>3, <3>4 DEF LooksInv
  <2> QED
    BY <2>1, <2>2
<1>7. CASE changed'
  BY <1>6, <1>7 DEF GroupInv
<1>8. CASE ~changed' /\ pc = "check" /\ job'.step = "record"
  BY <1>2, <1>6, <1>8 DEF GroupInv
<1>9. CASE ~changed' /\ ~(pc = "check" /\ job'.step = "record")
  <2>1. /\ ~changed /\ pc # "group" /\ job.step # "record"
        /\ (LookSkips \/ LookBegins(a, o))
    BY <1>0, <1>1, <1>2, <1>9 DEF LookSkips, LookIgnores, LookBegins, LooksInv, NoJob
  <2>2. CASE LookSkips
    <3>1. node' = node /\ \A y \in Objects : SetOn(y)' = SetOn(y)
      BY <1>2, <2>2 DEF LookSkips, SetOn, Nodes
    <3> QED
      BY <1>0, <1>2, <1>5, <1>6, <2>1, <3>1, GroupKept
  <2>3. CASE LookBegins(a, o)
    <3>1. /\ node'[a][o].set = (job'.report <=> job'.step = "record")
          /\ job'.report = ~node[a][o].set
          /\ job' # NoJob /\ job'.a = a /\ job'.o = o
      BY <2>3 DEF LookBegins
    <3>2. node'[a][o].set => node[a][o].set
      <4>1. CASE pc = "clear"
        BY <1>2, <4>1
      <4>2. CASE job'.step # "record"
        BY <1>4, <3>1, <4>2
      <4> QED
        BY <1>2, <1>9, <2>1, <4>1, <4>2
    <3>3. \A x \in Alerts, y \in Objects : node'[x][y].set => node[x][y].set
      BY <1>3, <3>2
    <3>4. \A y \in Objects : SetOn(y)' \subseteq SetOn(y)
      BY <1>2, <3>3, Constants DEF SetOn, Nodes
    <3>5. ASSUME NEW y \in Objects, node[Group][y].set PROVE node'[Group][y].set \/ ToBeTold(y)'
      <4>1. CASE <<Group, y>> # <<a, o>>
        BY <1>0, <1>3, <3>5, <4>1
      <4>2. CASE <<Group, y>> = <<a, o>>
        <5>1. a = Group /\ o = y
          BY <4>2
        <5>2. CASE job'.step = "record"
          BY <3>1, <5>1, <5>2 DEF ToBeTold
        <5>3. CASE job'.step # "record"
          BY <3>1, <3>5, <5>1, <5>3
        <5> QED
          BY <5>2, <5>3
      <4> QED
        BY <4>1, <4>2
    <3> QED
      BY <1>0, <1>2, <1>5, <1>6, <2>1, <3>4, <3>5, GroupKept
  <2> QED
    BY <2>1, <2>2, <2>3
<1> QED
  BY <1>6, <1>7, <1>8, <1>9

\* A statement of a report.
LEMMA GroupSteps ==
    ASSUME GroupStands, Block \/ ReadLcr \/ WriteLcr
    PROVE  GroupInv' /\ LooksInv'
<1>0. BaseInv /\ GroupInv /\ LooksInv /\ Group \in Alerts
  BY Constants DEF GroupStands
<1> DEFINE a == job.a
<1> DEFINE o == job.o
<1>1. /\ job # NoJob /\ job' # NoJob /\ job'.report = job.report /\ job'.a = a /\ job'.o = o
      /\ node'[a][o].set = (job.report <=> job'.step = "record")
      /\ \A x \in Alerts, y \in Objects : <<x, y>> # <<a, o>> => node'[x][y] = node[x][y]
      /\ UNCHANGED <<pc, place, todo, changed, untold>>
  BY <1>0, ReportSteps
<1>2. job.step # "record"
  BY DEF Block, ReadLcr, WriteLcr
<1>3. /\ a \in Alerts /\ o \in Objects /\ job.report \in BOOLEAN
      /\ pc \in {"check", "group", "clear"}
      /\ node[a][o].set = (job.report <=> job.step = "record")
      /\ pc = "clear" => ~job.report
      /\ pc = "group" => a = Group
      /\ <<a, o>> \notin todo
  BY <1>0, <1>1, JobAt DEF BaseInv, PassInv
<1> HIDE DEF a, o
<1>4. LooksInv'
  <2>1. CASE pc # "group"
    BY <1>1, <2>1 DEF LooksInv
  <2>2. CASE pc = "group"
    <3>1. a = Group /\ changed
      BY <1>0, <1>3, <2>2 DEF LooksInv
    <3>2. \A y \in Objects : SetOn(y)' = SetOn(y)
      <4>1. \A x \in Members : x \in Alerts /\ x # Group
        BY Constants
      <4>2. \A x \in Members, y \in Objects : node'[x][y] = node[x][y]
        BY <1>1, <3>1, <4>1
      <4> QED
        BY <1>1, <4>2 DEF SetOn, Nodes
    <3>3. ASSUME NEW y \in Objects, Asked(y) PROVE Asked(y)'
      <4>1. CASE y # o
        <5>1. node'[Group][y] = node[Group][y]
          BY <1>0, <1>1, <4>1
        <5>2. job.o # y /\ job'.o # y
          BY <1>1, <4>1 DEF o
        <5> QED
          BY <1>1, <3>3, <5>1, <5>2 DEF Asked
      <4>2. CASE y = o
        <5>1. job.report
          BY <1>1, <1>3, <3>1, <3>3, <4>2 DEF Asked, o
        <5> QED
          BY <1>1, <4>2, <5>1 DEF Asked
      <4> QED
        BY <4>1, <4>2
    <3> QED
      BY <1>0, <1>1, <2>2, <3>1, <3>2, <3>3 DEF LooksInv
  <2> QED
    BY <2>1, <2>2
<1>5. CASE changed
  BY <1>1, <1>4, <1>5 DEF GroupInv
<1>6. CASE ~changed /\ pc = "check" /\ job'.step = "record"
  BY <1>1, <1>4, <1>6 DEF GroupInv
<1>7. CASE ~changed /\ ~(pc = "check" /\ job'.step = "record")
  <2>1. pc # "group"
    BY <1>0, <1>7 DEF LooksInv
  <2>2. node'[a][o].set => node[a][o].set
    <3>1. CASE job'.step = "record"
      BY <1>1, <1>3, <1>7, <2>1, <3>1
    <3>2. CASE job'.step # "record"
      BY <1>1, <1>2, <1>3, <3>2
    <3> QED
      BY <3>1, <3>2
  <2>3. \A x \in Alerts, y \in Objects : node'[x][y].set => node[x][y].set
    BY <1>1, <2>2
  <2>4. \A y \in Objects : SetOn(y)' \subseteq SetOn(y)
    BY <1>1, <2>3, Constants DEF SetOn, Nodes
  <2>5. \A y \in Objects : ~ToBeTold(y)
    BY <1>2 DEF ToBeTold
  <2>6. ASSUME NEW y \in Objects, node[Group][y].set PROVE node'[Group][y].set \/ ToBeTold(y)'
    <3>1. CASE <<Group, y>> # <<a, o>>
      BY <1>0, <1>1, <2>6, <3>1
    <3>2. CASE <<Group, y>> = <<a, o>>
      <4>1. a = Group /\ o = y
        BY <3>2
      <4>2. CASE job'.step = "record"
        BY <1>1, <4>1, <4>2 DEF ToBeTold
      <4>3. CASE job'.step # "record"
        BY <1>1, <1>2, <1>3, <2>6, <4>1, <4>3
      <4> QED
        BY <4>2, <4>3
    <3> QED
      BY <3>1, <3>2
  <2> QED
    BY <1>0, <1>1, <1>2, <1>4, <1>7, <2>4, <2>5, <2>6, GroupKept
<1> QED
  BY <1>4, <1>5, <1>6, <1>7

\* A report is written down, or its statement fails.
LEMMA GroupRecord ==
    ASSUME GroupStands, Record \/ ReportFails
    PROVE  GroupInv' /\ LooksInv'
<1>0. BaseInv /\ GroupInv /\ LooksInv
  BY DEF GroupStands
<1>1. job # NoJob /\ job' = NoJob /\ UNCHANGED <<pc, todo, place, node>>
  BY DEF Record, ReportFails, memory, NoJob
<1>2. /\ job.o \in Objects /\ <<job.a, job.o>> \notin todo /\ job.report \in BOOLEAN
      /\ node[job.a][job.o].set = (job.report <=> job.step = "record")
      /\ pc = "clear" => ~job.report
      /\ pc = "group" => job.a = Group
  BY <1>0, <1>1, JobAt DEF BaseInv, PassInv
<1>3. CASE Record
  <2>1. changed' /\ job.step = "record"
    BY <1>3 DEF Record
  <2>2. CASE pc # "group"
    BY <1>1, <2>1, <2>2 DEF GroupInv, LooksInv
  <2>3. CASE pc = "group"
    <3>1. \A y \in Objects : SetOn(y)' = SetOn(y)
      BY <1>1 DEF SetOn, Nodes
    <3>2. ASSUME NEW y \in Objects, Asked(y) PROVE Asked(y)'
      <4>1. CASE y # job.o
        BY <1>1, <3>2, <4>1 DEF Asked
      <4>2. CASE y = job.o
        <5>1. <<Group, y>> \notin todo /\ (node[Group][y].set <=> job.report)
          BY <1>2, <2>1, <2>3, <4>2
        <5>2. job.report
          BY <1>1, <3>2, <4>2, <5>1 DEF Asked
        <5> QED
          BY <1>1, <5>1, <5>2 DEF Asked
      <4> QED
        BY <4>1, <4>2
    <3> QED
      BY <1>0, <1>1, <2>1, <2>3, <3>1, <3>2 DEF LooksInv, GroupInv
  <2> QED
    BY <2>2, <2>3
<1>4. CASE ReportFails
  <2>1. /\ pc = "clear" /\ changed' = changed
        /\ untold' = IF job.a = Group /\ ~node[Group][job.o].set
                       THEN untold \cup {job.o} ELSE untold
    BY <1>4 DEF ReportFails, memory
  <2>2. LooksInv'
    BY <1>1, <2>1 DEF LooksInv
  <2>3. \A y \in Objects : SetOn(y)' = SetOn(y)
    BY <1>1 DEF SetOn, Nodes
  <2>4. ASSUME NEW y \in Objects, ToBeTold(y) PROVE y \in untold'
    <3>1. job.a = Group /\ job.o = y /\ job.step = "record"
      BY <2>4 DEF ToBeTold
    <3>2. ~node[Group][job.o].set
      BY <1>2, <2>1, <3>1
    <3> QED
      BY <2>1, <3>1, <3>2
  <2>5. CASE changed
    BY <2>1, <2>2, <2>5 DEF GroupInv
  <2>6. CASE ~changed
    <3>1. \A y \in Objects : y \notin untold' => y \notin untold
      BY <2>1
    <3> QED
      BY <1>0, <1>1, <2>1, <2>2, <2>3, <2>4, <2>6, <3>1, GroupKept
  <2> QED
    BY <2>5, <2>6
<1> QED
  BY <1>3, <1>4

\* Every step keeps the group right.
LEMMA GroupNext ==
    ASSUME GroupStands, [Next]_vars
    PROVE  GroupInv' /\ LooksInv'
<1>0. BaseInv /\ GroupInv /\ LooksInv /\ Group \in Alerts /\ Members \subseteq Alerts
  BY Constants DEF GroupStands
<1>1. CASE \E Out \in SUBSET Devices, In \in SetToAllKPermutations(Devices) : Update(Out, In)
  <2>1. PICK Out \in SUBSET Devices, In \in SetToAllKPermutations(Devices) : Update(Out, In)
    BY <1>1
  <2>2. \A a \in Alerts : \A o \in Objects :
          node'[a][o].set = node[a][o].set /\ (place[a][o] > 0 => place'[a][o] = place[a][o])
    <3>1. Updated(Out, In)
      BY <1>0, <2>1, UpdateMeans DEF BaseInv
    <3> QED
      BY <3>1 DEF Updated
  <2>3. \A a \in Alerts : \A o \in Objects : node[a][o].set => place[a][o] > 0
    BY <1>0 DEF BaseInv, NodesInv
  <2>4. \A o \in Objects : SetOn(o)' \subseteq SetOn(o)
    BY <1>0, <2>2, <2>3 DEF SetOn, Nodes
  <2>5. changed' = changed /\ pc = "rest" /\ pc' = "check" /\ job' = job /\ untold' = untold
    BY <2>1 DEF Update
  <2>6. LooksInv'
    BY <2>5 DEF LooksInv
  <2>7. \A o \in Objects : ToBeTold(o)' <=> ToBeTold(o)
    BY <2>5 DEF ToBeTold
  <2>8. CASE changed
    BY <2>5, <2>6, <2>8 DEF GroupInv
  <2>9. CASE ~changed
    BY <1>0, <2>2, <2>4, <2>5, <2>6, <2>7, <2>9, GroupKept
  <2> QED
    BY <2>8, <2>9
<1>2. CASE Look
  BY <1>2, GroupLook
<1>3. CASE Block \/ ReadLcr \/ WriteLcr
  BY <1>3, GroupSteps
<1>4. CASE CountGroup
  <2>1. changed'
    BY <1>4 DEF CountGroup
  <2> QED
    BY <1>0, <1>4, <2>1, GroupCounted DEF GroupInv
<1>5. CASE Record \/ ReportFails
  BY <1>5, GroupRecord
<1>6. CASE Start \/ EndTick \/ UNCHANGED vars
           \/ (\E u \in Users, l \in NewLcrs : SetLcr(u, l))
           \/ \E u \in MayIgnore : SwitchIgnore(u)
  <2>1. /\ UNCHANGED <<place, node, changed, job, todo, untold>>
        /\ pc' = pc \/ (pc # "check" /\ pc' = "rest")
    <3>1. CASE Start \/ EndTick
      BY <3>1 DEF Start, EndTick, memory, history
    <3>2. CASE UNCHANGED vars
      BY <3>2 DEF vars, memory, history
    <3>3. CASE \E u \in MayIgnore : SwitchIgnore(u)
      BY <3>3 DEF SwitchIgnore, memory
    <3>4. CASE \E u \in Users, l \in NewLcrs : SetLcr(u, l)
      BY <3>4 DEF SetLcr, memory
    <3> QED
      BY <1>6, <3>1, <3>2, <3>3, <3>4
  <2>2. \A y \in Objects : SetOn(y)' = SetOn(y) /\ (ToBeTold(y)' <=> ToBeTold(y))
    BY <2>1 DEF SetOn, Nodes, ToBeTold
  <2>3. LooksInv'
    <3>1. CASE pc' = pc
      BY <1>0, <2>1, <3>1, LooksKept
    <3>2. CASE pc' = "rest"
      BY <3>2 DEF LooksInv
    <3> QED
      BY <2>1, <3>1, <3>2
  <2>4. CASE changed \/ (pc = "check" /\ job.step = "record")
    BY <2>1, <2>3, <2>4 DEF GroupInv
  <2>5. CASE ~changed /\ ~(pc = "check" /\ job.step = "record")
    BY <1>0, <2>1, <2>2, <2>3, <2>5, GroupKept
  <2> QED
    BY <2>4, <2>5
<1>7. CASE Die \/ \E A \in SUBSET {a \in Alerts : Nodes(a) # {}} : Reload(A)
  <2>1. changed' = TRUE
    BY <1>7 DEF Die, Reload, Free
  <2>2. pc' # "group"
    BY <1>7 DEF Die, Reload
  <2> QED
    BY <2>1, <2>2 DEF GroupInv, LooksInv
<1>8. CASE EndChecks
  <2>1. pc' # "group"
    BY <1>8 DEF EndChecks
  <2> QED
    BY <1>8, <2>1, GroupChecked DEF LooksInv
<1> QED
  BY <1>1, <1>2, <1>3, <1>4, <1>5, <1>6, <1>7, <1>8 DEF Next, Daemon

\* When the daemon has looked at its alerts and none has changed since, the group
\* alert (check_current_alert_group) is raised on every object on which more than
\* more_than members are set, unless it was cleared by time and that was not
\* written down.
THEOREM GroupIsTold == Spec => []GroupIsNotSilent
<1>1. Init => GroupStands
  BY BaseInit, GroupInit DEF GroupStands
<1>2. GroupStands /\ [Next]_vars => GroupStands'
  <2>1. GroupStands /\ [Next]_vars => BaseInv'
    BY BaseNext DEF GroupStands
  <2> QED
    BY <2>1, GroupNext DEF GroupStands
<1>3. GroupStands => GroupIsNotSilent
  BY DEF GroupStands, GroupInv, GroupIsNotSilent, ToBeTold, NoJob
<1> QED
  BY <1>1, <1>2, <1>3, PTL DEF Spec

-----------------------------------------------------------------------------
(***************************************************************************)
(* The LCRs that are held.                                                 *)
(***************************************************************************)
\* A node that holds the LCR of u: its own, set, and to give it back.
Holder(n, u) ==
    /\ n \in Alerts \X Objects
    /\ UserOf(n[1], n[2]) = u
    /\ node[n[1]][n[2]].user = u /\ node[n[1]][n[2]].set
    /\ Config[n[1]].back = -1 /\ Config[n[1]].lcr > 0

\* The nodes that hold the LCR of u, each once, and the LCRs they keep.
StackOf(u) ==
    /\ u \in spoilt => raised[u] = <<>>
    /\ lcr[u] > 0 /\ own[u] > 0
    /\ \A i \in 1 .. Len(raised[u]) :
         /\ Holder(raised[u][i], u)
         /\ node[raised[u][i][1]][raised[u][i][2]].saved = Beneath(u, i)
    /\ \A i, j \in 1 .. Len(raised[u]) : i # j => raised[u][i] # raised[u][j]
    /\ u \notin spoilt => lcr[u] = Beneath(u, Len(raised[u]) + 1)

\* The LCRs of all users are in order.
StacksInv == \A u \in Users : StackOf(u)

\* What was read is still there when it is overwritten.
SavedInv ==
    job.step = "write" /\ job.report =>
      \A u \in Users \ spoilt : node[job.a][job.o].user = u => node[job.a][job.o].saved = lcr[u]

\* The inductive invariant of the LCRs.
StackInv == BaseInv /\ StacksInv /\ SavedInv

\* A user whose order is given up.
LEMMA StackSpoilt ==
    ASSUME NEW u, u \in spoilt', raised'[u] = <<>>, lcr'[u] > 0, own'[u] > 0
    PROVE  StackOf(u)'
<1>1. Len(raised'[u]) = 0
  BY EmptySeq
<1> QED
  BY <1>1 DEF StackOf

\* A user for whom nothing changes.
LEMMA StackStays ==
    ASSUME NEW u, StackOf(u), raised'[u] = raised[u], lcr'[u] = lcr[u], own'[u] = own[u],
           u \in spoilt' <=> u \in spoilt,
           \A i \in 1 .. Len(raised[u]) :
             LET n == raised[u][i] IN
             /\ node'[n[1]][n[2]].user = u /\ node'[n[1]][n[2]].set
             /\ node'[n[1]][n[2]].saved = node[n[1]][n[2]].saved
    PROVE  StackOf(u)'
<1>1. \A i : Beneath(u, i)' = Beneath(u, i)
  BY DEF Beneath
<1>2. ASSUME NEW i \in 1 .. Len(raised[u])
      PROVE  /\ Holder(raised[u][i], u)'
             /\ node'[raised[u][i][1]][raised[u][i][2]].saved = Beneath(u, i)
  <2> DEFINE n == raised[u][i]
  <2>1. Holder(n, u) /\ node[n[1]][n[2]].saved = Beneath(u, i)
    BY DEF StackOf
  <2>2. /\ node'[n[1]][n[2]].user = u /\ node'[n[1]][n[2]].set
        /\ node'[n[1]][n[2]].saved = node[n[1]][n[2]].saved
    OBVIOUS
  <2>3. n' = n
    OBVIOUS
  <2> HIDE DEF n
  <2>4. /\ n \in Alerts \X Objects /\ UserOf(n[1], n[2]) = u
        /\ node'[n[1]][n[2]].user = u /\ node'[n[1]][n[2]].set
        /\ Config[n[1]].back = -1 /\ Config[n[1]].lcr > 0
    BY <2>1, <2>2 DEF Holder
  <2> QED
    BY <2>1, <2>2, <2>4 DEF Holder, n
<1>3. /\ \A i, j \in 1 .. Len(raised[u]) : i # j => raised'[u][i] # raised'[u][j]
      /\ u \in spoilt' => raised'[u] = <<>>
      /\ u \notin spoilt' => lcr'[u] = Beneath(u, Len(raised[u]) + 1)'
      /\ lcr'[u] > 0 /\ own'[u] > 0
  <2>1. /\ \A i, j \in 1 .. Len(raised[u]) : i # j => raised[u][i] # raised[u][j]
        /\ u \in spoilt => raised[u] = <<>>
        /\ u \notin spoilt => lcr[u] = Beneath(u, Len(raised[u]) + 1)
        /\ lcr[u] > 0 /\ own[u] > 0
    BY DEF StackOf
  <2>2. Beneath(u, Len(raised[u]) + 1)' = Beneath(u, Len(raised[u]) + 1)
    BY <1>1
  <2> QED
    BY <2>1, <2>2
<1>4. \A i \in 1 .. Len(raised'[u]) :
        /\ Holder(raised[u][i], u)'
        /\ node'[raised'[u][i][1]][raised'[u][i][2]].saved = Beneath(u, i)'
  <2> TAKE i \in 1 .. Len(raised'[u])
  <2>1. i \in 1 .. Len(raised[u]) /\ raised'[u][i] = raised[u][i]
    OBVIOUS
  <2>2. Beneath(u, i)' = Beneath(u, i)
    BY <1>1
  <2> QED
    BY <1>2, <2>1, <2>2
<1> QED
  BY <1>3, <1>4 DEF StackOf

\* n holds the LCR of u, and keeps the LCR that was there before.
Keeps(n, u, kept) ==
    /\ n[1] \in Alerts /\ n[2] \in Objects /\ n = <<n[1], n[2]>>
    /\ UserOf(n[1], n[2]) = u
    /\ node[n[1]][n[2]].user = u /\ node[n[1]][n[2]].set
    /\ Config[n[1]].back = -1 /\ Config[n[1]].lcr > 0
    /\ node[n[1]][n[2]].saved = kept

\* The i-th node that holds the LCR of u.
LEMMA StackKeeps ==
    ASSUME NEW u, StackOf(u), NEW i \in 1 .. Len(raised[u])
    PROVE  Keeps(raised[u][i], u, Beneath(u, i))
<1> DEFINE n == raised[u][i]
<1>1. Holder(n, u) /\ node[n[1]][n[2]].saved = Beneath(u, i)
  BY DEF StackOf
<1> HIDE DEF n
<1>2. Keeps(n, u, Beneath(u, i))
  BY <1>1 DEF Holder, Keeps
<1> QED
  BY <1>2 DEF n

\* A list that stays, whose nodes keep what they are, is still in order.
LEMMA StackRests ==
    ASSUME NEW u, StackOf(u), node' = node, raised'[u] = raised[u], lcr'[u] = lcr[u],
           own'[u] = own[u], u \in spoilt' <=> u \in spoilt
    PROVE  StackOf(u)'
<1>1. \A i \in 1 .. Len(raised[u]) : Keeps(raised[u][i], u, Beneath(u, i))
  BY StackKeeps
<1>2. \A i \in 1 .. Len(raised[u]) :
        LET n == raised[u][i] IN
        /\ node'[n[1]][n[2]].user = u /\ node'[n[1]][n[2]].set
        /\ node'[n[1]][n[2]].saved = node[n[1]][n[2]].saved
  BY <1>1 DEF Keeps
<1> QED
  BY <1>2, StackStays

\* The LCRs that are kept are LCRs.
LEMMA BeneathIsLcr ==
    ASSUME NEW u, StackOf(u), raised[u] \in Seq(Alerts \X Objects),
           NEW i \in 1 .. Len(raised[u]) + 1
    PROVE  Beneath(u, i) > 0
<1>1. Len(raised[u]) \in Nat
  BY LenProperties
<1>2. CASE i = 1
  BY <1>2 DEF Beneath, StackOf
<1>3. CASE i # 1
  <2>1. i - 1 \in 1 .. Len(raised[u])
    BY <1>1, <1>3
  <2>2. Config[raised[u][i - 1][1]].lcr > 0
    <3>1. Keeps(raised[u][i - 1], u, Beneath(u, i - 1))
      BY <2>1, StackKeeps
    <3> QED
      BY <3>1 DEF Keeps
  <2> QED
    BY <1>3, <2>2 DEF Beneath
<1> QED
  BY <1>2, <1>3

\* At most one node changes, and it does not hold the LCR of u.
OnlyChanged(a, o) ==
    \A x \in Alerts, y \in Objects : <<x, y>> # <<a, o>> => node'[x][y] = node[x][y]

\* The node does not hold the LCR of u.
HeldByOthers(u, a, o) == \A i \in 1 .. Len(raised[u]) : raised[u][i] # <<a, o>>

\* A user for whom nothing changes while one node does, which does not hold it.
LEMMA OthersStay ==
    ASSUME NEW u, StackOf(u), raised'[u] = raised[u], lcr'[u] = lcr[u], own'[u] = own[u],
           u \in spoilt' <=> u \in spoilt,
           NEW a \in Alerts, NEW o \in Objects, OnlyChanged(a, o), HeldByOthers(u, a, o)
    PROVE  StackOf(u)'
<1>1. ASSUME NEW i \in 1 .. Len(raised[u])
      PROVE  LET n == raised[u][i] IN
             /\ node'[n[1]][n[2]].user = u /\ node'[n[1]][n[2]].set
             /\ node'[n[1]][n[2]].saved = node[n[1]][n[2]].saved
  <2> DEFINE n == raised[u][i]
  <2>1. /\ n[1] \in Alerts /\ n[2] \in Objects /\ n = <<n[1], n[2]>> /\ n # <<a, o>>
        /\ node[n[1]][n[2]].user = u /\ node[n[1]][n[2]].set
    <3>1. Keeps(raised[u][i], u, Beneath(u, i))
      BY StackKeeps
    <3>2. n # <<a, o>>
      BY DEF HeldByOthers
    <3> QED
      BY <3>1, <3>2 DEF Keeps
  <2>2. node'[n[1]][n[2]] = node[n[1]][n[2]]
    <3> HIDE DEF n
    <3> QED
      BY <2>1 DEF OnlyChanged
  <2> HIDE DEF n
  <2>3. /\ node'[n[1]][n[2]].user = u /\ node'[n[1]][n[2]].set
        /\ node'[n[1]][n[2]].saved = node[n[1]][n[2]].saved
    BY <2>1, <2>2
  <2> QED
    BY <2>3 DEF n
<1> QED
  BY <1>1, StackStays

\* No LCR is held at first.
LEMMA StacksInit ==
    ASSUME Init
    PROVE  StacksInv /\ SavedInv
<1>1. ASSUME NEW u \in Users PROVE StackOf(u)
  <2>1. raised[u] = <<>> /\ lcr[u] > 0 /\ own[u] = lcr[u]
    BY ConstAssumption DEF Init
  <2>2. Len(raised[u]) = 0
    BY <2>1, EmptySeq
  <2> QED
    BY <2>1, <2>2 DEF StackOf, Beneath
<1> QED
  BY <1>1 DEF StacksInv, SavedInv, Init, NoJob

\* Calls leave the nodes that are set with the users they have.
LEMMA StacksUpdate ==
    ASSUME StackInv, NEW Out \in SUBSET Devices,
           NEW In \in SetToAllKPermutations(Devices), Update(Out, In), NEW u \in Users
    PROVE  StackOf(u)'
<1>1. TypeOK /\ NodesInv /\ StackOf(u)
  BY DEF StackInv, BaseInv, StacksInv
<1>2. UNCHANGED <<lcr, own, raised, spoilt>>
  BY DEF Update, users
<1>3. \A a \in Alerts : \A o \in Objects :
        /\ node'[a][o].set = node[a][o].set /\ node'[a][o].saved = node[a][o].saved
        /\ \/ node'[a][o] = node[a][o]
           \/ a # Group /\ o \in Kind(a) /\ \E b \in BOOLEAN : node'[a][o] = Touched(a, o, b)
  <2>1. Updated(Out, In)
    BY <1>1, UpdateMeans
  <2> QED
    BY <2>1 DEF Updated
<1>4. ASSUME NEW i \in 1 .. Len(raised[u])
      PROVE  LET n == raised[u][i] IN
             /\ node'[n[1]][n[2]].user = u /\ node'[n[1]][n[2]].set
             /\ node'[n[1]][n[2]].saved = node[n[1]][n[2]].saved
  <2> DEFINE n == raised[u][i]
  <2> DEFINE a == n[1]
  <2> DEFINE o == n[2]
  <2>1. /\ a \in Alerts /\ o \in Objects /\ UserOf(a, o) = u
        /\ node[a][o].user = u /\ node[a][o].set
    <3>1. Keeps(raised[u][i], u, Beneath(u, i))
      BY <1>1, StackKeeps
    <3> QED
      BY <3>1 DEF Keeps
  <2> HIDE DEF a, o
  <2>2. place[a][o] > 0
    BY <1>1, <2>1 DEF NodesInv
  <2>3. node'[a][o].user = u
    <3>1. CASE node'[a][o] = node[a][o]
      BY <2>1, <3>1
    <3>2. CASE a # Group /\ o \in Kind(a) /\ \E b \in BOOLEAN : node'[a][o] = Touched(a, o, b)
      <4>0. a \in Members
        BY <2>1, <3>2, Constants
      <4>1. node'[a][o].user = IF Config[a].check = "device" /\ o \in Nodes(a) THEN Owner[o] ELSE o
        BY <1>1, <2>1, <3>2, <4>0, TouchedMeans
      <4>2. o \in Nodes(a) /\ Config[a].check \in {"user", "device"}
        BY <2>1, <2>2, Settings DEF Nodes
      <4>3. Config[a].check = "user" \/ o \in Devices
        BY <3>2, <4>0, KindMeans
      <4> QED
        BY <2>1, <4>1, <4>2, <4>3 DEF UserOf
    <3> QED
      BY <1>3, <2>1, <3>1, <3>2
  <2>4. node'[a][o].set /\ node'[a][o].saved = node[a][o].saved
    BY <1>3, <2>1
  <2> QED
    BY <2>3, <2>4 DEF a, o
<1> QED
  BY <1>1, <1>2, <1>4, StackStays

\* A look at a node.
LEMMA StacksLook ==
    ASSUME StackInv, Look
    PROVE  StacksInv' /\ SavedInv'
<1>0. BaseInv /\ TypeOK /\ \A u \in Users : StackOf(u)
  BY DEF StackInv, BaseInv, StacksInv
<1>1. PICK a \in Alerts, o \in Objects :
        LookAt(a, o) /\ (LookSkips \/ LookIgnores(a, o) \/ LookBegins(a, o))
  BY <1>0, LookMeans
<1>2. /\ UNCHANGED <<lcr, own>> /\ job = NoJob
      /\ node'[a][o].user = node[a][o].user /\ node'[a][o].saved = node[a][o].saved
      /\ \A x \in Alerts, y \in Objects : <<x, y>> # <<a, o>> => node'[x][y] = node[x][y]
      /\ OnlyChanged(a, o)
  BY <1>1 DEF LookAt, users, OnlyChanged
<1>3. CASE LookSkips
  <2>1. UNCHANGED <<node, raised, spoilt, job>>
    BY <1>3 DEF LookSkips
  <2>2. SavedInv'
    BY <1>2, <2>1 DEF SavedInv, NoJob
  <2>3. ASSUME NEW u \in Users PROVE StackOf(u)'
    <3>1. \A i \in 1 .. Len(raised[u]) : Keeps(raised[u][i], u, Beneath(u, i))
      BY <1>0, StackKeeps
    <3>2. \A i \in 1 .. Len(raised[u]) :
            LET n == raised[u][i] IN node[n[1]][n[2]].user = u /\ node[n[1]][n[2]].set
      BY <3>1 DEF Keeps
    <3> QED
      BY <1>0, <1>2, <2>1, <3>2, StackStays
  <2> QED
    BY <2>2, <2>3 DEF StacksInv
<1>4. CASE LookIgnores(a, o)
  <2> DEFINE S == {u \in Users : node[a][o].set /\ <<a, o>> \in ToSet(raised[u])}
  <2>1. job' = NoJob /\ Spoil(S, raised)
    BY <1>4 DEF LookIgnores
  <2>2. raised \in Stacks /\ spoilt \in SUBSET Users /\ S \in SUBSET Users
    BY <1>0 DEF TypeOK, Stacks
  <2>3. /\ spoilt' = spoilt \cup S
        /\ \A u \in Users : raised'[u] = IF u \in spoilt' THEN <<>> ELSE raised[u]
    <3> HIDE DEF S
    <3> QED
      BY <2>1, <2>2, SpoilTyped
  <2>4. ASSUME NEW u \in Users PROVE StackOf(u)'
    <3>1. CASE u \in spoilt'
      <4>1. raised'[u] = <<>> /\ lcr'[u] > 0 /\ own'[u] > 0
        BY <1>0, <1>2, <2>3, <3>1 DEF StackOf
      <4> QED
        BY <3>1, <4>1, StackSpoilt
    <3>2. CASE u \notin spoilt'
      <4>1. raised'[u] = raised[u] /\ u \notin spoilt /\ u \notin S
        BY <2>3, <3>2
      <4>2. HeldByOthers(u, a, o)
        <5> SUFFICES ASSUME NEW i \in 1 .. Len(raised[u]), raised[u][i] = <<a, o>> PROVE FALSE
          BY DEF HeldByOthers
        <5>1. node[a][o].set
          <6>1. Keeps(<<a, o>>, u, Beneath(u, i))
            BY <1>0, StackKeeps
          <6> QED
            BY <6>1 DEF Keeps
        <5>2. raised[u] \in Seq(Alerts \X Objects)
          BY <2>2 DEF Stacks
        <5>3. i \in DOMAIN raised[u]
          BY <5>2, LenProperties
        <5>4. <<a, o>> \in ToSet(raised[u])
          BY <5>3 DEF ToSet
        <5> QED
          BY <4>1, <5>1, <5>4
      <4>3. /\ StackOf(u) /\ raised'[u] = raised[u] /\ lcr'[u] = lcr[u] /\ own'[u] = own[u]
            /\ u \in spoilt' <=> u \in spoilt
        BY <1>0, <1>2, <3>2, <4>1
      <4> QED
        BY <1>2, <4>2, <4>3, OthersStay
    <3> QED
      BY <3>1, <3>2
  <2> QED
    BY <2>1, <2>4 DEF StacksInv, SavedInv, NoJob
<1>5. CASE LookBegins(a, o)
  <2>1. /\ UNCHANGED <<raised, spoilt>> /\ job'.report = ~node[a][o].set
        /\ job'.step \in {"block", "read", "write", "record"}
        /\ job'.step = "write" => ~job'.report
        /\ job'.step \in {"read", "write"} <=> job'.step # "block" /\ Routes(a, o, job'.report)
        /\ node'[a][o].set = (job'.report <=> job'.step = "record")
    BY <1>5 DEF LookBegins
  <2>2. node[a][o].set \in BOOLEAN
    BY <1>0, NodeFields DEF TypeOK
  <2>3. ASSUME NEW u \in Users PROVE StackOf(u)'
    <3>1. CASE job'.step # "record"
      <4>1. node'[a][o].set = node[a][o].set
        BY <2>1, <2>2, <3>1
      <4>2. ASSUME NEW i \in 1 .. Len(raised[u])
            PROVE  LET n == raised[u][i] IN
                   /\ node'[n[1]][n[2]].user = u /\ node'[n[1]][n[2]].set
                   /\ node'[n[1]][n[2]].saved = node[n[1]][n[2]].saved
        <5> DEFINE x == raised[u][i][1]
        <5> DEFINE y == raised[u][i][2]
        <5>1. x \in Alerts /\ y \in Objects /\ node[x][y].user = u /\ node[x][y].set
          <6>1. Keeps(raised[u][i], u, Beneath(u, i))
            BY <1>0, StackKeeps
          <6> QED
            BY <6>1 DEF Keeps
        <5> HIDE DEF x, y
        <5>2. node'[x][y].user = u /\ node'[x][y].set /\ node'[x][y].saved = node[x][y].saved
          BY <1>2, <4>1, <5>1
        <5> QED
          BY <5>2 DEF x, y
      <4> QED
        BY <1>0, <1>2, <2>1, <4>2, StackStays
    <3>2. CASE job'.step = "record"
      <4>1. ~Routes(a, o, job'.report)
        BY <2>1, <3>2
      <4>2. HeldByOthers(u, a, o)
        <5> SUFFICES ASSUME NEW i \in 1 .. Len(raised[u]), raised[u][i] = <<a, o>> PROVE FALSE
          BY DEF HeldByOthers
        <5>1. node[a][o].set /\ Config[a].back = -1 /\ node[a][o].user = u
          <6>1. Keeps(<<a, o>>, u, Beneath(u, i))
            BY <1>0, StackKeeps
          <6> QED
            BY <6>1 DEF Keeps
        <5>2. ~job'.report
          BY <2>1, <5>1
        <5>3. node[a][o].user # 0
          BY <5>1, ConstAssumption
        <5>4. Routes(a, o, job'.report) <=> Config[a].back # 0
          BY <5>2, <5>3 DEF Routes
        <5> QED
          BY <4>1, <5>1, <5>4
      <4>3. /\ StackOf(u) /\ raised'[u] = raised[u] /\ lcr'[u] = lcr[u] /\ own'[u] = own[u]
            /\ u \in spoilt' <=> u \in spoilt
        BY <1>0, <1>2, <2>1
      <4> QED
        BY <1>2, <4>2, <4>3, OthersStay
    <3> QED
      BY <3>1, <3>2
  <2> QED
    BY <2>1, <2>3 DEF StacksInv, SavedInv
<1> QED
  BY <1>1, <1>3, <1>4, <1>5

\* A statement of a report before the LCR is written.
LEMMA StacksSteps ==
    ASSUME StackInv, Block \/ ReadLcr
    PROVE  StacksInv' /\ SavedInv'
<1>0. BaseInv /\ TypeOK /\ \A u \in Users : StackOf(u)
  BY DEF StackInv, BaseInv, StacksInv
<1> DEFINE a == job.a
<1> DEFINE o == job.o
<1>1. /\ job # NoJob /\ a \in Alerts /\ o \in Objects /\ job.report \in BOOLEAN
      /\ node[a][o].set \in BOOLEAN
      /\ node[a][o].set = ~job.report
  <2>1. job # NoJob /\ job.step \in {"block", "read"}
    BY <1>0, ReportSteps DEF Block, ReadLcr
  <2>2. a \in Alerts /\ o \in Objects /\ job.report \in BOOLEAN /\ This \in Node
        /\ This.set = (job.report <=> job.step = "record")
    BY <1>0, <2>1, JobAt
  <2>3. This.set \in BOOLEAN
    BY <2>2, NodeFields
  <2> QED
    BY <2>1, <2>2, <2>3 DEF This
<1>2. /\ job'.report = job.report /\ job'.a = a /\ job'.o = o
      /\ job'.step \in {"read", "write", "record"}
      /\ node'[a][o].set = (job.report <=> job'.step = "record")
      /\ node'[a][o].user = node[a][o].user
      /\ job.step # "read" => node'[a][o].saved = node[a][o].saved
      /\ job.step = "read" /\ node[a][o].user \in Users => node'[a][o].saved = lcr[node[a][o].user]
      /\ job.step = "block" =>
           /\ job'.step = "record" <=> ~Routes(a, o, job.report)
           /\ job'.step = "write" => ~job.report
      /\ OnlyChanged(a, o) /\ own' = own
  BY <1>0, ReportSteps DEF This, OnlyChanged
<1>3. lcr' = lcr /\ raised' = raised /\ spoilt' = spoilt
  <2>1. Block => lcr' = lcr /\ raised' = raised /\ spoilt' = spoilt
    BY DEF Block, history
  <2>2. ReadLcr => lcr' = lcr /\ raised' = raised /\ spoilt' = spoilt
    BY DEF ReadLcr, users, history
  <2> QED
    BY <2>1, <2>2
<1> HIDE DEF a, o
<1>4. CASE Block
  <2>1. job.step = "block"
    BY <1>4 DEF Block
  <2>2. SavedInv'
    BY <1>2, <2>1 DEF SavedInv
  <2>3. ASSUME NEW u \in Users PROVE StackOf(u)'
    <3>1. CASE HeldByOthers(u, a, o)
      BY <1>0, <1>1, <1>2, <1>3, <3>1, OthersStay
    <3>2. CASE ~HeldByOthers(u, a, o)
      <4>1. PICK k \in 1 .. Len(raised[u]) : raised[u][k] = <<a, o>>
        BY <3>2 DEF HeldByOthers
      <4>2. node[a][o].set /\ Config[a].back = -1 /\ node[a][o].user = u
        <5>1. Keeps(<<a, o>>, u, Beneath(u, k))
          BY <1>0, <4>1, StackKeeps
        <5> QED
          BY <5>1 DEF Keeps
      <4>3. ~job.report
        BY <1>1, <4>2
      <4>4. Routes(a, o, job.report)
        <5>1. node[a][o].user # 0
          BY <4>2, ConstAssumption
        <5> QED
          BY <4>2, <4>3, <5>1 DEF Routes
      <4>5. node'[a][o].set
        BY <1>2, <2>1, <4>3, <4>4
      <4>6. ASSUME NEW i \in 1 .. Len(raised[u])
            PROVE  LET n == raised[u][i] IN
                   /\ node'[n[1]][n[2]].user = u /\ node'[n[1]][n[2]].set
                   /\ node'[n[1]][n[2]].saved = node[n[1]][n[2]].saved
        <5> DEFINE x == raised[u][i][1]
        <5> DEFINE y == raised[u][i][2]
        <5>1. x \in Alerts /\ y \in Objects /\ node[x][y].user = u /\ node[x][y].set
          <6>1. Keeps(raised[u][i], u, Beneath(u, i))
            BY <1>0, StackKeeps
          <6> QED
            BY <6>1 DEF Keeps
        <5> HIDE DEF x, y
        <5>2. node'[x][y].user = u /\ node'[x][y].set /\ node'[x][y].saved = node[x][y].saved
          BY <1>2, <2>1, <4>5, <5>1 DEF OnlyChanged
        <5> QED
          BY <5>2 DEF x, y
      <4> QED
        BY <1>0, <1>2, <1>3, <4>6, StackStays
    <3> QED
      BY <3>1, <3>2
  <2> QED
    BY <2>2, <2>3 DEF StacksInv
<1>5. CASE ReadLcr
  <2>1. job.step = "read" /\ job.report
    BY <1>0, <1>1, <1>5 DEF ReadLcr, BaseInv, PassInv
  <2>2. SavedInv'
    <3> SUFFICES ASSUME NEW u \in Users, node'[job'.a][job'.o].user = u
                 PROVE  node'[job'.a][job'.o].saved = lcr'[u]
      BY DEF SavedInv
    <3> QED
      BY <1>2, <1>3, <2>1
  <2>3. ASSUME NEW u \in Users PROVE StackOf(u)'
    <3>1. HeldByOthers(u, a, o)
      <4> SUFFICES ASSUME NEW i \in 1 .. Len(raised[u]), raised[u][i] = <<a, o>> PROVE FALSE
        BY DEF HeldByOthers
      <4>1. node[a][o].set
        <5>1. Keeps(<<a, o>>, u, Beneath(u, i))
          BY <1>0, StackKeeps
        <5> QED
          BY <5>1 DEF Keeps
      <4> QED
        BY <1>1, <2>1, <4>1
    <3> QED
      BY <1>0, <1>1, <1>2, <1>3, <3>1, OthersStay
  <2> QED
    BY <2>2, <2>3 DEF StacksInv
<1> QED
  BY <1>4, <1>5

\* The LCR is written: a user's order grows at its end.
LEMMA StackGrows ==
    ASSUME NEW u, StackOf(u), NEW a \in Alerts, NEW o \in Objects, NEW s, NEW r,
           s = raised[u], s \in Seq(Alerts \X Objects), r = raised'[u], r = Append(s, <<a, o>>),
           u \notin spoilt', u \notin spoilt, own'[u] = own[u],
           HeldByOthers(u, a, o), OnlyChanged(a, o),
           UserOf(a, o) = u, node'[a][o].user = u, node'[a][o].set,
           Config[a].back = -1, Config[a].lcr > 0,
           node'[a][o].saved = lcr[u], lcr'[u] = Config[a].lcr
    PROVE  StackOf(u)'
<1> DEFINE k == Len(s)
<1> DEFINE n == <<a, o>>
<1> DEFINE below(i) == IF i = 1 THEN own[u] ELSE Config[s[i - 1][1]].lcr
<1>1. k \in Nat /\ Len(r) = k + 1 /\ r[k + 1] = n /\ \A i \in 1 .. k : r[i] = s[i]
  BY LenProperties, AppendProperties
<1>2. own'[u] > 0 /\ lcr[u] = below(k + 1)
  BY DEF StackOf, Beneath
<1>3. \A i \in 1 .. k + 1 : (IF i = 1 THEN own'[u] ELSE Config[r[i - 1][1]].lcr) = below(i)
  <2> TAKE i \in 1 .. k + 1
  <2>1. i # 1 => i - 1 \in 1 .. k
    BY <1>1
  <2>2. i # 1 => r[i - 1] = s[i - 1]
    BY <1>1, <2>1
  <2> QED
    BY <2>2
<1>4. lcr'[u] = Config[r[k + 2 - 1][1]].lcr /\ k + 2 # 1
  <2>1. k + 2 # 1 /\ k + 2 - 1 = k + 1
    BY <1>1
  <2>2. r[k + 2 - 1][1] = a
    BY <1>1, <2>1
  <2> QED
    BY <2>1, <2>2
<1> DEFINE On(i) ==
      /\ r[i] \in Alerts \X Objects /\ UserOf(r[i][1], r[i][2]) = u
      /\ node'[r[i][1]][r[i][2]].user = u /\ node'[r[i][1]][r[i][2]].set
      /\ Config[r[i][1]].back = -1 /\ Config[r[i][1]].lcr > 0
      /\ node'[r[i][1]][r[i][2]].saved = below(i)
<1>5. ASSUME NEW i \in 1 .. k
      PROVE  On(i) /\ r[i] # n
  <2>0. i \in 1 .. Len(raised[u])
    OBVIOUS
  <2>1. /\ raised[u][i][1] \in Alerts /\ raised[u][i][2] \in Objects
        /\ raised[u][i] = <<raised[u][i][1], raised[u][i][2]>>
        /\ UserOf(raised[u][i][1], raised[u][i][2]) = u
        /\ node[raised[u][i][1]][raised[u][i][2]].user = u
        /\ node[raised[u][i][1]][raised[u][i][2]].set
        /\ Config[raised[u][i][1]].back = -1 /\ Config[raised[u][i][1]].lcr > 0
        /\ node[raised[u][i][1]][raised[u][i][2]].saved = Beneath(u, i)
    <3> HIDE DEF On, n, below, k
    <3>1. Keeps(raised[u][i], u, Beneath(u, i))
      BY <2>0, StackKeeps
    <3> QED
      BY <3>1 DEF Keeps
  <2>2. raised[u][i] = r[i] /\ Beneath(u, i) = below(i)
    BY <1>1 DEF Beneath
  <2>3. r[i] # n
    BY <2>2 DEF HeldByOthers
  <2> DEFINE x == r[i][1]
  <2> DEFINE y == r[i][2]
  <2> HIDE DEF below, k
  <2>4. /\ x \in Alerts /\ y \in Objects /\ r[i] = <<x, y>> /\ UserOf(x, y) = u
        /\ node[x][y].user = u /\ node[x][y].set
        /\ Config[x].back = -1 /\ Config[x].lcr > 0 /\ node[x][y].saved = below(i)
    BY <2>1, <2>2
  <2>5. node'[x][y] = node[x][y]
    <3> HIDE DEF x, y
    <3> QED
      BY <2>3, <2>4 DEF OnlyChanged
  <2>6. r[i] \in Alerts \X Objects
    BY <2>4
  <2>7. /\ node'[x][y].user = u /\ node'[x][y].set /\ node'[x][y].saved = below(i)
    BY <2>4, <2>5
  <2> QED
    BY <2>3, <2>4, <2>6, <2>7
<1>6. On(k + 1)
  <2>1. r[k + 1] = <<a, o>> /\ r[k + 1][1] = a /\ r[k + 1][2] = o
    BY <1>1
  <2> HIDE DEF below, k
  <2> QED
    BY <1>2, <2>1
<1>7. \A i \in 1 .. k + 1 : On(i)
  <2> HIDE DEF On, k
  <2>1. \A i \in 1 .. k + 1 : i \in 1 .. k \/ i = k + 1
    BY <1>1
  <2> QED
    BY <1>5, <1>6, <2>1
<1>8. \A i, j \in 1 .. k + 1 : i # j => r[i] # r[j]
  <2>1. \A i, j \in 1 .. k : i # j => r[i] # r[j]
    BY <1>1 DEF StackOf
  <2> HIDE DEF On, k
  <2>2. \A i \in 1 .. k + 1 : i \in 1 .. k \/ i = k + 1
    BY <1>1
  <2>3. r[k + 1] = n /\ \A i \in 1 .. k : r[i] # n
    BY <1>1, <1>5
  <2> HIDE DEF n
  <2> QED
    BY <2>1, <2>2, <2>3
<1>9. \A i \in 1 .. Len(raised'[u]) :
        /\ Holder(raised[u][i], u)'
        /\ node'[raised'[u][i][1]][raised'[u][i][2]].saved = Beneath(u, i)'
  <2> TAKE i \in 1 .. Len(raised'[u])
  <2>1. i \in 1 .. k + 1 /\ raised'[u][i] = r[i]
    BY <1>1
  <2>2. On(i) /\ below(i) = IF i = 1 THEN own'[u] ELSE Config[r[i - 1][1]].lcr
    BY <1>3, <1>7, <2>1
  <2>3. Beneath(u, i)' = below(i)
    BY <2>2 DEF Beneath
  <2> DEFINE m == r[i]
  <2>4. /\ m \in Alerts \X Objects /\ UserOf(m[1], m[2]) = u
        /\ node'[m[1]][m[2]].user = u /\ node'[m[1]][m[2]].set
        /\ Config[m[1]].back = -1 /\ Config[m[1]].lcr > 0
        /\ node'[m[1]][m[2]].saved = below(i)
    BY <2>2
  <2> HIDE DEF below, k, m
  <2>5. Holder(m, u)' /\ node'[m[1]][m[2]].saved = Beneath(u, i)'
    BY <2>3, <2>4 DEF Holder
  <2>6. raised'[u][i] = m
    BY <2>1 DEF m
  <2> QED
    BY <2>5, <2>6
<1>10. lcr'[u] = Beneath(u, Len(raised[u]) + 1)'
  <2>1. Len(raised'[u]) + 1 = k + 2
    BY <1>1
  <2>2. Beneath(u, Len(raised[u]) + 1)' =
          IF k + 2 = 1 THEN own'[u] ELSE Config[r[k + 2 - 1][1]].lcr
    BY <2>1 DEF Beneath
  <2> QED
    BY <1>4, <2>2
<1>11. lcr'[u] > 0 /\ \A i, j \in 1 .. Len(raised'[u]) : i # j => raised'[u][i] # raised'[u][j]
  <2>1. raised'[u] = r /\ Len(raised'[u]) = k + 1
    BY <1>1
  <2>2. lcr'[u] > 0
    OBVIOUS
  <2> HIDE DEF On, below, k
  <2> QED
    BY <1>8, <2>1, <2>2
<1> QED
  BY <1>2, <1>9, <1>10, <1>11 DEF StackOf

\* The LCR is written back: a user's order shrinks at its end.
LEMMA StackShrinks ==
    ASSUME NEW u, StackOf(u), NEW a \in Alerts, NEW o \in Objects, NEW s, NEW r,
           s = raised[u], s \in Seq(Alerts \X Objects), s # <<>>, Last(s) = <<a, o>>,
           r = raised'[u], r = Front(s),
           u \notin spoilt', u \notin spoilt, own'[u] = own[u],
           OnlyChanged(a, o), lcr'[u] = node[a][o].saved
    PROVE  StackOf(u)'
<1> DEFINE k == Len(s)
<1> DEFINE n == <<a, o>>
<1> DEFINE below(i) == IF i = 1 THEN own[u] ELSE Config[s[i - 1][1]].lcr
<1>1. /\ k \in Nat /\ k > 0 /\ Len(r) = k - 1 /\ s[k] = n
      /\ \A i \in 1 .. k - 1 : r[i] = s[i]
  <2> HIDE DEF n
  <2>1. k \in Nat
    BY LenProperties
  <2>2. /\ Len(Front(s)) = Len(s) - 1 /\ Len(s) > 0 /\ Last(s) = s[Len(s)]
        /\ \A i \in 1 .. Len(s) - 1 : Front(s)[i] = s[i]
    BY FrontMeans
  <2> QED
    BY <2>1, <2>2 DEF n
<1>2. own'[u] > 0
  BY DEF StackOf
<1>3. \A i \in 1 .. k : (IF i = 1 THEN own'[u] ELSE Config[r[i - 1][1]].lcr) = below(i)
  <2> TAKE i \in 1 .. k
  <2>1. i # 1 => i - 1 \in 1 .. k - 1
    BY <1>1
  <2>2. i # 1 => r[i - 1] = s[i - 1]
    BY <1>1, <2>1
  <2> QED
    BY <2>2
<1>4. lcr'[u] = below(k) /\ lcr'[u] > 0
  <2>1. k \in 1 .. Len(raised[u]) /\ k \in 1 .. Len(raised[u]) + 1 /\ raised[u][k] = <<a, o>>
    BY <1>1
  <2>2. node[raised[u][k][1]][raised[u][k][2]].saved = Beneath(u, k)
    <3>1. Keeps(raised[u][k], u, Beneath(u, k))
      BY <2>1, StackKeeps
    <3> QED
      BY <3>1 DEF Keeps
  <2>3. Beneath(u, k) = below(k)
    BY DEF Beneath
  <2>4. Beneath(u, k) > 0
    BY <2>1, BeneathIsLcr
  <2>5. raised[u][k][1] = a /\ raised[u][k][2] = o
    BY <2>1
  <2> HIDE DEF below, k
  <2> QED
    BY <2>2, <2>3, <2>4, <2>5
<1> DEFINE On(i) ==
      /\ r[i] \in Alerts \X Objects /\ UserOf(r[i][1], r[i][2]) = u
      /\ node'[r[i][1]][r[i][2]].user = u /\ node'[r[i][1]][r[i][2]].set
      /\ Config[r[i][1]].back = -1 /\ Config[r[i][1]].lcr > 0
      /\ node'[r[i][1]][r[i][2]].saved = below(i)
<1>5. \A i, j \in 1 .. k : i # j => s[i] # s[j]
  BY DEF StackOf
<1>6. ASSUME NEW i \in 1 .. k - 1
      PROVE  On(i)
  <2>0. i \in 1 .. k /\ k \in 1 .. k /\ i # k /\ i \in 1 .. Len(raised[u])
    BY <1>1
  <2>1. /\ raised[u][i][1] \in Alerts /\ raised[u][i][2] \in Objects
        /\ raised[u][i] = <<raised[u][i][1], raised[u][i][2]>>
        /\ UserOf(raised[u][i][1], raised[u][i][2]) = u
        /\ node[raised[u][i][1]][raised[u][i][2]].user = u
        /\ node[raised[u][i][1]][raised[u][i][2]].set
        /\ Config[raised[u][i][1]].back = -1 /\ Config[raised[u][i][1]].lcr > 0
        /\ node[raised[u][i][1]][raised[u][i][2]].saved = Beneath(u, i)
    <3>1. Keeps(raised[u][i], u, Beneath(u, i))
      BY <2>0, StackKeeps
    <3> QED
      BY <3>1 DEF Keeps
  <2>2. raised[u][i] = r[i] /\ Beneath(u, i) = below(i)
    BY <1>1 DEF Beneath
  <2>3. r[i] # n
    <3>1. s[i] # s[k]
      BY <1>5, <2>0
    <3>2. s[k] = n /\ r[i] = s[i]
      BY <1>1
    <3> QED
      BY <3>1, <3>2
  <2> DEFINE x == r[i][1]
  <2> DEFINE y == r[i][2]
  <2> HIDE DEF below, k
  <2>4. /\ x \in Alerts /\ y \in Objects /\ r[i] = <<x, y>> /\ UserOf(x, y) = u
        /\ node[x][y].user = u /\ node[x][y].set
        /\ Config[x].back = -1 /\ Config[x].lcr > 0 /\ node[x][y].saved = below(i)
    BY <2>1, <2>2
  <2>5. node'[x][y] = node[x][y]
    <3> HIDE DEF x, y
    <3> QED
      BY <2>3, <2>4 DEF OnlyChanged
  <2>6. r[i] \in Alerts \X Objects
    BY <2>4
  <2>7. /\ node'[x][y].user = u /\ node'[x][y].set /\ node'[x][y].saved = below(i)
    BY <2>4, <2>5
  <2> QED
    BY <2>4, <2>6, <2>7
<1>7. \A i, j \in 1 .. k - 1 : i # j => r[i] # r[j]
  <2> TAKE i, j \in 1 .. k - 1
  <2>1. i \in 1 .. k /\ j \in 1 .. k /\ r[i] = s[i] /\ r[j] = s[j]
    BY <1>1
  <2> QED
    BY <1>5, <2>1
<1>8. \A i \in 1 .. Len(raised'[u]) :
        /\ Holder(raised[u][i], u)'
        /\ node'[raised'[u][i][1]][raised'[u][i][2]].saved = Beneath(u, i)'
  <2> TAKE i \in 1 .. Len(raised'[u])
  <2>1. i \in 1 .. k - 1 /\ i \in 1 .. k /\ raised'[u][i] = r[i]
    BY <1>1
  <2>2. On(i) /\ below(i) = IF i = 1 THEN own'[u] ELSE Config[r[i - 1][1]].lcr
    BY <1>3, <1>6, <2>1
  <2>3. Beneath(u, i)' = below(i)
    BY <2>2 DEF Beneath
  <2> DEFINE m == r[i]
  <2>4. /\ m \in Alerts \X Objects /\ UserOf(m[1], m[2]) = u
        /\ node'[m[1]][m[2]].user = u /\ node'[m[1]][m[2]].set
        /\ Config[m[1]].back = -1 /\ Config[m[1]].lcr > 0
        /\ node'[m[1]][m[2]].saved = below(i)
    BY <2>2
  <2> HIDE DEF below, k, m
  <2>5. Holder(m, u)' /\ node'[m[1]][m[2]].saved = Beneath(u, i)'
    BY <2>3, <2>4 DEF Holder
  <2>6. raised'[u][i] = m
    BY <2>1 DEF m
  <2> QED
    BY <2>5, <2>6
<1>9. lcr'[u] = Beneath(u, Len(raised[u]) + 1)'
  <2>1. Len(raised'[u]) + 1 = k /\ k \in 1 .. k
    BY <1>1
  <2>2. Beneath(u, Len(raised[u]) + 1)' =
          IF k = 1 THEN own'[u] ELSE Config[r[k - 1][1]].lcr
    BY <2>1 DEF Beneath
  <2>3. (IF k = 1 THEN own'[u] ELSE Config[r[k - 1][1]].lcr) = below(k)
    BY <1>3, <2>1
  <2> QED
    BY <1>4, <2>2, <2>3
<1>10. \A i, j \in 1 .. Len(raised'[u]) : i # j => raised'[u][i] # raised'[u][j]
  BY <1>1, <1>7
<1> QED
  BY <1>2, <1>4, <1>8, <1>9, <1>10 DEF StackOf

\* The last statement about an LCR.
LEMMA StacksWrite ==
    ASSUME StackInv, WriteLcr
    PROVE  StacksInv' /\ SavedInv'
<1>0. BaseInv /\ TypeOK /\ SavedInv /\ \A u \in Users : StackOf(u)
  BY DEF StackInv, BaseInv, StacksInv
<1> DEFINE a == job.a
<1> DEFINE o == job.o
<1> DEFINE n == <<a, o>>
<1> DEFINE v == node[a][o].user
<1> DEFINE w == UserOf(a, o)
<1> DEFINE target == Target(a, o, job.report)
<1>1. /\ job.step = "write" /\ job # NoJob /\ a \in Alerts /\ o \in Objects
      /\ job.report \in BOOLEAN /\ node[a][o] \in Node
      /\ node[a][o].set = ~job.report
      /\ o \in Kind(a) /\ Routes(a, o, job.report)
  <2>1. job # NoJob /\ job.step = "write"
    BY <1>0, ReportSteps DEF WriteLcr
  <2>2. a \in Alerts /\ o \in Objects /\ job.report \in BOOLEAN /\ This \in Node
        /\ This.set = (job.report <=> job.step = "record")
    BY <1>0, <2>1, JobAt
  <2>3. This.set \in BOOLEAN
    BY <2>2, NodeFields
  <2>4. o \in Kind(a) /\ Routes(a, o, job.report)
    BY <1>0, <2>1, <2>2 DEF BaseInv, PassInv, NodesInv
  <2> QED
    BY <2>1, <2>2, <2>3, <2>4 DEF This
<1>2. /\ job'.step = "record"
      /\ node'[a][o].set = job.report
      /\ node'[a][o].user = v
      /\ node'[a][o].saved = node[a][o].saved
      /\ OnlyChanged(a, o) /\ own' = own
  <2>1. /\ job'.step = "record"
        /\ node'[a][o].set = (job.report <=> job'.step = "record")
        /\ node'[a][o].user = v
        /\ node'[a][o].saved = node[a][o].saved
        /\ OnlyChanged(a, o) /\ own' = own
    BY <1>0, <1>1, ReportSteps DEF This, OnlyChanged
  <2> QED
    BY <1>1, <2>1
<1>3. IF target > 0 /\ v \in Users
        THEN /\ lcr' = [lcr EXCEPT ![v] = target]
             /\ Spoil(Spoils(v, w, n, job.report),
                      [raised EXCEPT ![v] = IF job.report THEN Append(@, n) ELSE Front(@)])
        ELSE UNCHANGED <<lcr, raised, spoilt>>
  BY DEF WriteLcr, This
<1>4. SavedInv'
  BY <1>2 DEF SavedInv
<1>5. \A u \in Users : u # v => HeldByOthers(u, a, o)
  <2> SUFFICES ASSUME NEW u \in Users, u # v, NEW i \in 1 .. Len(raised[u]), raised[u][i] = <<a, o>>
               PROVE  FALSE
    BY DEF HeldByOthers
  <2>1. Keeps(<<a, o>>, u, Beneath(u, i))
    BY <1>0, StackKeeps
  <2> QED
    BY <1>0, <2>1 DEF Keeps
<1>6. job.report => \A u \in Users : HeldByOthers(u, a, o)
  <2> SUFFICES ASSUME job.report, NEW u \in Users, NEW i \in 1 .. Len(raised[u]),
                      raised[u][i] = <<a, o>>
               PROVE  FALSE
    BY DEF HeldByOthers
  <2>0. Keeps(<<a, o>>, u, Beneath(u, i))
    BY <1>0, StackKeeps
  <2>1. node[a][o].set
    BY <2>0 DEF Keeps
  <2> QED
    BY <1>1, <2>1
<1>7. /\ raised \in [Users -> Seq(Alerts \X Objects)] /\ lcr \in [Users -> Nat]
      /\ spoilt \in SUBSET Users
  BY <1>0 DEF TypeOK
<1> HIDE DEF a, o, v, w, target
<1>8. ASSUME ~(target > 0 /\ v \in Users), NEW u \in Users PROVE StackOf(u)'
  <2>1. lcr' = lcr /\ raised' = raised /\ spoilt' = spoilt
    BY <1>3, <1>8
  <2>2. HeldByOthers(u, a, o)
    <3> SUFFICES ASSUME NEW i \in 1 .. Len(raised[u]), raised[u][i] = <<a, o>> PROVE FALSE
      BY DEF HeldByOthers
    <3>1. node[a][o].user = u /\ node[a][o].set /\ Config[a].back = -1
          /\ node[a][o].saved = Beneath(u, i)
      <4>1. Keeps(<<a, o>>, u, Beneath(u, i))
        BY <1>0, StackKeeps
      <4> QED
        BY <4>1 DEF Keeps
    <3>2. v = u /\ ~job.report
      BY <1>1, <3>1 DEF v
    <3>3. target = Beneath(u, i)
      BY <3>1, <3>2 DEF target, Target
    <3>4. i \in 1 .. Len(raised[u]) + 1 /\ raised[u] \in Seq(Alerts \X Objects)
      BY <1>7, LenProperties
    <3>5. Beneath(u, i) > 0
      BY <1>0, <3>4, BeneathIsLcr
    <3> QED
      BY <1>8, <3>2, <3>3, <3>5
  <2> QED
    BY <1>0, <1>1, <1>2, <2>1, <2>2, OthersStay
<1>9. ASSUME target > 0, v \in Users, NEW u \in Users PROVE StackOf(u)'
  <2> DEFINE S == Spoils(v, w, n, job.report)
  <2> DEFINE q == IF job.report THEN Append(raised[v], n) ELSE Front(raised[v])
  <2>1. lcr' = [lcr EXCEPT ![v] = target]
    BY <1>3, <1>9
  <2>2. Spoil(S, [raised EXCEPT ![v] = q])
    BY <1>3, <1>9
  <2>3. /\ spoilt' = spoilt \cup (S \cap Users)
        /\ raised'[u] = IF u \in spoilt' THEN <<>> ELSE [raised EXCEPT ![v] = q][u]
    BY <2>2 DEF Spoil
  <2>4. lcr'[v] = target /\ \A x \in Users : x # v => lcr'[x] = lcr[x]
    BY <1>7, <1>9, <2>1
  <2> HIDE DEF q, S
  <2>5. raised'[u] = IF u \in spoilt' THEN <<>> ELSE IF u = v THEN q ELSE raised[u]
    BY <1>7, <2>3
  <2>6. CASE u \in spoilt'
    <3>1. raised'[u] = <<>> /\ lcr'[u] > 0 /\ own'[u] > 0
      BY <1>0, <1>2, <1>9, <2>4, <2>5, <2>6 DEF StackOf
    <3> QED
      BY <2>6, <3>1, StackSpoilt
  <2>7. CASE u \notin spoilt' /\ u # v
    <3>1. /\ raised'[u] = raised[u] /\ lcr'[u] = lcr[u] /\ own'[u] = own[u]
          /\ u \in spoilt' <=> u \in spoilt
      BY <1>2, <2>3, <2>4, <2>5, <2>7
    <3> QED
      BY <1>0, <1>1, <1>2, <1>5, <2>7, <3>1, OthersStay
  <2>8. CASE u \notin spoilt' /\ u = v
    <3>1. u \notin spoilt /\ u \notin S /\ raised'[u] = q /\ own'[u] = own[u] /\ lcr'[u] = target
      BY <1>2, <2>3, <2>4, <2>5, <2>8
    <3>2. raised[u] \in Seq(Alerts \X Objects) /\ StackOf(u)
      BY <1>0, <1>7
    <3>3. node'[a][o].user = u /\ w = u
      BY <1>2, <2>8, <3>1 DEF S, Spoils
    <3>4. CASE job.report
      <4>1. Config[a].back = -1 /\ target = Config[a].lcr
        BY <2>8, <3>1, <3>4 DEF S, Spoils, target, Target
      <4>2. node'[a][o].saved = lcr[u]
        <5>1. node[a][o].saved = lcr[u]
          BY <1>0, <1>1, <2>8, <3>1, <3>4 DEF SavedInv, v, a, o
        <5> QED
          BY <1>2, <5>1
      <4>3. raised'[u] = Append(raised[u], <<a, o>>)
        BY <2>8, <3>1, <3>4 DEF q
      <4>4. UserOf(a, o) = u /\ node'[a][o].set /\ HeldByOthers(u, a, o) /\ Config[a].lcr > 0
        BY <1>2, <1>6, <1>9, <3>3, <3>4, <4>1 DEF w
      <4> QED
        BY <1>1, <1>2, <2>8, <3>1, <3>2, <3>3, <4>1, <4>2, <4>3, <4>4, StackGrows
    <3>5. CASE ~job.report
      <4>1. raised[u] # <<>> /\ Last(raised[u]) = <<a, o>>
        BY <2>8, <3>1, <3>5 DEF S, Spoils
      <4>2. raised'[u] = Front(raised[u])
        BY <2>8, <3>1, <3>5 DEF q
      <4>3. Config[a].back = -1
        <5> DEFINE k == Len(raised[u])
        <5>1. k \in 1 .. Len(raised[u]) /\ raised[u][k] = <<a, o>>
          <6>1. k \in Nat /\ k > 0 /\ Last(raised[u]) = raised[u][k]
            <7> DEFINE t == raised[u]
            <7>1. t \in Seq(Alerts \X Objects) /\ t # <<>>
              BY <3>2, <4>1
            <7> HIDE DEF t
            <7>2. Len(t) \in Nat /\ Len(t) > 0 /\ Last(t) = t[Len(t)]
              BY <7>1, FrontMeans, LenProperties
            <7> QED
              BY <7>2 DEF t
          <6> QED
            BY <4>1, <6>1
        <5>2. raised[u][k][1] = a
          BY <5>1
        <5>3. Config[raised[u][k][1]].back = -1
          <6>1. Keeps(raised[u][k], u, Beneath(u, k))
            BY <3>2, <5>1, StackKeeps
          <6> QED
            BY <6>1 DEF Keeps
        <5> QED
          BY <5>2, <5>3
      <4>4. lcr'[u] = node[a][o].saved
        BY <3>1, <3>5, <4>3 DEF target, Target
      <4> QED
        BY <1>1, <1>2, <2>8, <3>1, <3>2, <4>1, <4>2, <4>4, StackShrinks
    <3> QED
      BY <1>1, <3>4, <3>5
  <2> QED
    BY <2>6, <2>7, <2>8
<1> QED
  BY <1>4, <1>8, <1>9 DEF StacksInv

\* The GUI changes an LCR: who has one that is held, or about to be, is spoilt.
LEMMA StacksSet ==
    ASSUME StackInv, NEW v \in Users, NEW l \in NewLcrs, SetLcr(v, l)
    PROVE  StacksInv' /\ SavedInv'
<1>0. BaseInv /\ TypeOK /\ SavedInv /\ \A u \in Users : StackOf(u)
  BY DEF StackInv, BaseInv, StacksInv
<1> DEFINE S == IF raised[v] # <<>> \/ job.step \in {"read", "write"} THEN {v} ELSE {}
<1>1. /\ lcr' = [lcr EXCEPT ![v] = l] /\ own' = [own EXCEPT ![v] = l]
      /\ UNCHANGED <<job, node>> /\ Spoil(S, raised)
  BY DEF SetLcr, memory
<1>2. l \in Nat /\ l > 0
  BY ConstAssumption
<1>3. lcr \in [Users -> Nat] /\ own \in [Users -> Nat]
  BY <1>0 DEF TypeOK
<1>4. /\ lcr'[v] = l /\ own'[v] = l
      /\ \A u \in Users : u # v => lcr'[u] = lcr[u] /\ own'[u] = own[u]
  BY <1>1, <1>3
<1>5. /\ spoilt' = spoilt \cup (S \cap Users)
      /\ \A u \in Users : raised'[u] = IF u \in spoilt' THEN <<>> ELSE raised[u]
  BY <1>1 DEF Spoil
<1>6. SavedInv'
  <2> SUFFICES ASSUME job.step = "write", job.report, NEW u \in Users, u \notin spoilt',
                      node[job.a][job.o].user = u
               PROVE  node[job.a][job.o].saved = lcr'[u]
    BY <1>1 DEF SavedInv
  <2>1. u \notin spoilt /\ u # v
    BY <1>5
  <2> QED
    BY <1>0, <1>4, <2>1 DEF SavedInv
<1>7. ASSUME NEW u \in Users PROVE StackOf(u)'
  <2>1. CASE u \in spoilt'
    <3>1. raised'[u] = <<>> /\ lcr'[u] > 0 /\ own'[u] > 0
      BY <1>0, <1>2, <1>4, <1>5, <2>1 DEF StackOf
    <3> QED
      BY <2>1, <3>1, StackSpoilt
  <2>2. CASE u \notin spoilt' /\ u # v
    <3>1. raised'[u] = raised[u] /\ lcr'[u] = lcr[u] /\ own'[u] = own[u]
          /\ u \notin spoilt
      BY <1>4, <1>5, <2>2
    <3>2. node' = node
      BY <1>1
    <3> QED
      BY <1>0, <2>2, <3>1, <3>2, StackRests
  <2>3. CASE u \notin spoilt' /\ u = v
    <3>1. raised[u] = <<>> /\ raised'[u] = <<>>
      BY <1>5, <2>3
    <3>2. Len(raised'[u]) = 0
      BY <3>1, EmptySeq
    <3> QED
      BY <1>2, <1>4, <2>3, <3>1, <3>2 DEF StackOf, Beneath
  <2> QED
    BY <2>1, <2>2, <2>3
<1> QED
  BY <1>6, <1>7 DEF StacksInv

\* Nodes are freed: whose LCR they hold is spoilt.
LEMMA StacksFree ==
    ASSUME StackInv, NEW A \in SUBSET Alerts, Free(A), UNCHANGED <<lcr, own>>, job' = NoJob
    PROVE  StacksInv' /\ SavedInv'
<1>0. BaseInv /\ TypeOK /\ \A u \in Users : StackOf(u)
  BY DEF StackInv, BaseInv, StacksInv
<1>1. /\ spoilt' = spoilt \cup (Held(A) \cap Users)
      /\ \A u \in Users : raised'[u] = IF u \in spoilt' THEN <<>> ELSE raised[u]
      /\ \A a \in Alerts \ A : node'[a] = node[a]
  BY <1>0, FreeMeans
<1>2. ASSUME NEW u \in Users PROVE StackOf(u)'
  <2>1. CASE u \in spoilt'
    <3>1. raised'[u] = <<>> /\ lcr'[u] > 0 /\ own'[u] > 0
      BY <1>0, <1>1, <2>1 DEF StackOf
    <3> QED
      BY <2>1, <3>1, StackSpoilt
  <2>2. CASE u \notin spoilt'
    <3>1. raised'[u] = raised[u] /\ u \notin spoilt /\ u \notin Held(A)
      BY <1>1, <2>2
    <3>2. raised[u] \in Seq(Alerts \X Objects)
      BY <1>0 DEF TypeOK
    <3>3. ASSUME NEW i \in 1 .. Len(raised[u])
          PROVE  LET n == raised[u][i] IN
                 /\ node'[n[1]][n[2]].user = u /\ node'[n[1]][n[2]].set
                 /\ node'[n[1]][n[2]].saved = node[n[1]][n[2]].saved
      <4>1. /\ raised[u][i][1] \in Alerts
            /\ node[raised[u][i][1]][raised[u][i][2]].user = u
            /\ node[raised[u][i][1]][raised[u][i][2]].set
        <5>1. Keeps(raised[u][i], u, Beneath(u, i))
          BY <1>0, StackKeeps
        <5> QED
          BY <5>1 DEF Keeps
      <4>2. raised[u][i] \in ToSet(raised[u])
        BY <3>2, LenProperties DEF ToSet
      <4>3. raised[u][i][1] \notin A
        BY <3>1, <4>2 DEF Held
      <4>4. node'[raised[u][i][1]] = node[raised[u][i][1]]
        BY <1>1, <4>1, <4>3
      <4> QED
        BY <4>1, <4>4
    <3> QED
      BY <1>0, <2>2, <3>1, <3>3, StackStays
  <2> QED
    BY <2>1, <2>2
<1> QED
  BY <1>2 DEF StacksInv, SavedInv, NoJob

\* The group is counted: whose LCR a counted node holds is spoilt.
LEMMA StacksCount ==
    ASSUME StackInv, CountGroup
    PROVE  StacksInv' /\ SavedInv'
<1>0. BaseInv /\ TypeOK /\ \A u \in Users : StackOf(u)
  BY DEF StackInv, BaseInv, StacksInv
<1> DEFINE S == {u \in Users : \E o \in Counted : <<Group, o>> \in ToSet(raised[u])}
<1>1. Spoil(S, raised) /\ job = NoJob /\ UNCHANGED <<lcr, own, job>>
  BY DEF CountGroup, users
<1>2. Recounted
  BY <1>0, CountMeans
<1>3. /\ spoilt' = spoilt \cup S
      /\ \A u \in Users : raised'[u] = IF u \in spoilt' THEN <<>> ELSE raised[u]
  BY <1>1 DEF Spoil
<1>4. ASSUME NEW u \in Users PROVE StackOf(u)'
  <2>1. CASE u \in spoilt'
    <3>1. raised'[u] = <<>> /\ lcr'[u] > 0 /\ own'[u] > 0
      BY <1>0, <1>1, <1>3, <2>1 DEF StackOf
    <3> QED
      BY <2>1, <3>1, StackSpoilt
  <2>2. CASE u \notin spoilt'
    <3>1. raised'[u] = raised[u] /\ u \notin spoilt /\ u \notin S
      BY <1>3, <2>2
    <3>2. raised[u] \in Seq(Alerts \X Objects)
      BY <1>0 DEF TypeOK
    <3>3. ASSUME NEW i \in 1 .. Len(raised[u])
          PROVE  LET n == raised[u][i] IN
                 /\ node'[n[1]][n[2]].user = u /\ node'[n[1]][n[2]].set
                 /\ node'[n[1]][n[2]].saved = node[n[1]][n[2]].saved
      <4> DEFINE a == raised[u][i][1]
      <4> DEFINE o == raised[u][i][2]
      <4>1. /\ a \in Alerts /\ o \in Objects /\ raised[u][i] = <<a, o>>
            /\ node[a][o].user = u /\ node[a][o].set
        <5>1. Keeps(raised[u][i], u, Beneath(u, i))
          BY <1>0, StackKeeps
        <5> QED
          BY <5>1 DEF Keeps
      <4>2. raised[u][i] \in ToSet(raised[u])
        BY <3>2, LenProperties DEF ToSet
      <4>3. a = Group => o \notin Counted
        BY <3>1, <4>1, <4>2
      <4>4. node'[a][o] = node[a][o]
        <5>1. a = Group \/ a \in Members
          BY <4>1, Constants
        <5> HIDE DEF a, o, S
        <5> QED
          BY <1>2, <4>1, <4>3, <5>1 DEF Recounted
      <4> HIDE DEF S
      <4> QED
        BY <4>1, <4>4
    <3> QED
      BY <1>0, <1>1, <2>2, <3>1, <3>3, StackStays
  <2> QED
    BY <2>1, <2>2
<1> QED
  BY <1>1, <1>4 DEF StacksInv, SavedInv, NoJob

\* Every step keeps the orders, or spoils them.
LEMMA StacksNext ==
    ASSUME StackInv, [Next]_vars
    PROVE  StacksInv' /\ SavedInv'
<1>0. BaseInv /\ StacksInv /\ SavedInv
  BY DEF StackInv
<1>1. CASE \E Out \in SUBSET Devices, In \in SetToAllKPermutations(Devices) : Update(Out, In)
  <2>1. \A u \in Users : StackOf(u)'
    BY <1>1, StacksUpdate
  <2>2. job' = job /\ pc = "rest"
    BY <1>1 DEF Update
  <2>3. job' = NoJob
    BY <1>0, <2>2 DEF BaseInv, PassInv
  <2> QED
    BY <2>1, <2>3 DEF StacksInv, SavedInv, NoJob
<1>2. CASE Look
  BY <1>2, StacksLook
<1>3. CASE Block \/ ReadLcr
  BY <1>3, StacksSteps
<1>4. CASE WriteLcr
  BY <1>4, StacksWrite
<1>5. CASE Record \/ ReportFails \/ Start \/ EndTick \/ EndChecks \/ UNCHANGED vars
           \/ \E u \in MayIgnore : SwitchIgnore(u)
  <2>1. UNCHANGED <<lcr, own, raised, spoilt, node>> /\ (job' = job \/ job' = NoJob)
    <3>1. CASE Record \/ ReportFails
      BY <3>1 DEF Record, ReportFails, users, memory, history
    <3>2. CASE Start \/ EndTick \/ EndChecks
      BY <3>2 DEF Start, EndTick, EndChecks, users, memory, history
    <3>3. CASE UNCHANGED vars
      BY <3>3 DEF vars, users, memory, history
    <3>4. CASE \E u \in MayIgnore : SwitchIgnore(u)
      BY <3>4 DEF SwitchIgnore, memory
    <3> QED
      BY <1>5, <3>1, <3>2, <3>3, <3>4
  <2>2. SavedInv'
    BY <1>0, <2>1 DEF SavedInv, NoJob
  <2>3. ASSUME NEW u \in Users PROVE StackOf(u)'
    <3>1. StackOf(u)
      BY <1>0 DEF StacksInv
    <3> QED
      BY <2>1, <3>1, StackRests
  <2> QED
    BY <2>2, <2>3 DEF StacksInv
<1>6. CASE \E u \in Users, l \in NewLcrs : SetLcr(u, l)
  BY <1>6, StacksSet
<1>7. CASE Die
  <2>1. Free(Alerts) /\ UNCHANGED <<lcr, own>> /\ job' = NoJob
    BY <1>7 DEF Die, users
  <2> QED
    BY <2>1, StacksFree
<1>8. CASE \E A \in SUBSET {a \in Alerts : Nodes(a) # {}} : Reload(A)
  <2>1. PICK A \in SUBSET {a \in Alerts : Nodes(a) # {}} : Reload(A)
    BY <1>8
  <2>2. Free(A) /\ UNCHANGED <<lcr, own, job>> /\ pc = "rest"
    BY <2>1 DEF Reload, users
  <2>3. job' = NoJob
    BY <1>0, <2>2 DEF BaseInv, PassInv
  <2>4. A \in SUBSET Alerts
    OBVIOUS
  <2> QED
    BY <2>2, <2>3, <2>4, StacksFree
<1>9. CASE CountGroup
  BY <1>9, StacksCount
<1> QED
  BY <1>1, <1>2, <1>3, <1>4, <1>5, <1>6, <1>7, <1>8, <1>9 DEF Next, Daemon

\* The orders say what the property says.
LEMMA StacksMean ==
    ASSUME StackInv
    PROVE  LcrsAreStacked
<1> SUFFICES ASSUME NEW u \in Users, u \notin spoilt
    PROVE  /\ lcr[u] = IF raised[u] = <<>> THEN own[u] ELSE Config[Last(raised[u])[1]].lcr
           /\ \A i \in DOMAIN raised[u] :
                /\ node[raised[u][i][1]][raised[u][i][2]].set
                /\ node[raised[u][i][1]][raised[u][i][2]].saved = Beneath(u, i)
  BY DEF LcrsAreStacked
<1>1. StackOf(u) /\ raised[u] \in Seq(Alerts \X Objects)
  BY DEF StackInv, StacksInv, BaseInv, TypeOK
<1>2. DOMAIN raised[u] = 1 .. Len(raised[u])
  BY <1>1, LenProperties
<1>3. lcr[u] = Beneath(u, Len(raised[u]) + 1)
  BY <1>1 DEF StackOf
<1>6. \A i \in DOMAIN raised[u] :
        /\ node[raised[u][i][1]][raised[u][i][2]].set
        /\ node[raised[u][i][1]][raised[u][i][2]].saved = Beneath(u, i)
  <2>1. \A i \in DOMAIN raised[u] : Keeps(raised[u][i], u, Beneath(u, i))
    BY <1>1, <1>2, StackKeeps
  <2> QED
    BY <2>1 DEF Keeps
<1>4. CASE raised[u] = <<>>
  <2>1. Len(raised[u]) + 1 = 1
    BY <1>4, EmptySeq
  <2>2. lcr[u] = own[u]
    BY <1>3, <2>1 DEF Beneath
  <2> QED
    BY <1>4, <1>6, <2>2
<1>5. CASE raised[u] # <<>>
  <2> DEFINE s == raised[u]
  <2> DEFINE k == Len(s)
  <2>1. s \in Seq(Alerts \X Objects) /\ s # <<>>
    BY <1>1, <1>5
  <2>2. k \in Nat /\ k > 0 /\ Last(s) = s[k]
    <3> HIDE DEF s
    <3> QED
      BY <2>1, FrontMeans, LenProperties
  <2>3. k + 1 # 1 /\ k + 1 - 1 = k
    BY <2>2
  <2>4. Beneath(u, k + 1) = Config[raised[u][k][1]].lcr
    BY <2>3 DEF Beneath
  <2>5. lcr[u] = Config[Last(raised[u])[1]].lcr
    BY <1>3, <2>2, <2>4
  <2> QED
    BY <1>5, <1>6, <2>5
<1> QED
  BY <1>4, <1>5

\* Alerts that are cleared in the opposite order give users back the LCR that the
\* GUI had given them (action_alert_change_lcr), whatever order they are raised in
\* and however many hold the LCR of a user; history says when that is lost.
THEOREM LcrsStack == Spec => []LcrsAreStacked
<1>1. Init => StackInv
  BY BaseInit, StacksInit DEF StackInv
<1>2. StackInv /\ [Next]_vars => StackInv'
  <2>1. StackInv /\ [Next]_vars => BaseInv'
    BY BaseNext DEF StackInv
  <2> QED
    BY <2>1, StacksNext DEF StackInv
<1>3. StackInv => LcrsAreStacked
  BY StacksMean
<1> QED
  BY <1>1, <1>2, <1>3, PTL DEF Spec

=============================================================================
