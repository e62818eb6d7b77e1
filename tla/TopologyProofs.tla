--------------------------- MODULE TopologyProofs ---------------------------
(***************************************************************************)
(* What holds of Topology for every set of devices, addresses and          *)
(* evaluations, any number of them at a time, and transactions that roll   *)
(* back and run again at any statement.                                    *)
(*                                                                         *)
(* The invariant says of every open transaction what it has achieved so    *)
(* far, as it sees the graph.  Other transactions may commit in between;   *)
(* what it relies on they leave alone, because it holds the lock of one    *)
(* end of each adjacency it counts on, and because nobody deletes what     *)
(* leads to a device.                                                      *)
(***************************************************************************)
EXTENDS Topology, TLAPS, WellFoundedInduction

-----------------------------------------------------------------------------
(* Types.                                                                  *)

Interface == DeviceNode \X Name \X (IP \cup {NoIP})
Route == DeviceNode \X Node
Tops == [interfaces : SUBSET (Name \X (IP \cup {NoIP})), neighbors : SUBSET IP]

TaskState == [pc : {"idle", "device", "neighbors", "reconcile", "commit", "radius",
                    "answered", "clean", "failed", "lost"},
              device : Device \cup {Nothing}, top : Tops, todo : SUBSET IP,
              new : SUBSET Node, gone : SUBSET Node, own : SUBSET Interface,
              old : SUBSET Interface, add : SUBSET Route, del : SUBSET Route,
              locked : SUBSET Node, before : SUBSET Task, radius : SUBSET Device]

TypeOK ==
    /\ node \in SUBSET Node /\ iface \in SUBSET Interface /\ edge \in SUBSET Route
    /\ task \in [Task -> TaskState]
    /\ \A t \in Task : task[t].pc # "idle" => task[t].device \in Device
    /\ \A t \in Task : task[t].before \subseteq Committed

-----------------------------------------------------------------------------
(* The invariant. What a transaction wrote is judged by the evaluations    *)
(* committed so far and its own.                                           *)

Upon(t) == Committed \cup {t}
Writing == {t \in Task : task[t].pc \in {"neighbors", "reconcile", "commit"}}

\* One of the evaluations S saw device d with the address.
Owned(d, ip, S) == \E b \in S : task[b].device = d /\ ip \in ips(task[b].top)

\* An adjacency with the address is there: it leads to an owner or to a placeholder.
Leads(e, d, ip, S) ==
    /\ e[1].key = d
    /\ \/ e[2].kind = "peer" /\ e[2].key = ip
       \/ e[2].kind = "device" /\ Owned(e[2].key, ip, S)

\* Some of S reported it.
Reported(e, S) ==
    \E a \in S :
        /\ task[a].device = e[1].key
        /\ \/ e[2].kind = "peer" /\ e[2].key \in task[a].top.neighbors
           \/ /\ e[2].kind = "device"
              /\ \E b \in S : task[b].device = e[2].key /\ Adjacent(a, b) # {}

\* Two devices are joined by one of the adjacencies E.
Joined(d, c, E) ==
    \E e \in E : e[1].key = d /\ e[2].kind = "device" /\ e[2].key = c

\* The nodes two transactions write are apart.
Exclusive == \A t, o \in Open : t # o => task[t].locked \cap task[o].locked = {}

\* Adjacencies are between nodes and were reported, a placeholder has one, and a device
\* was seen with the addresses of its interfaces.
GraphSound ==
    /\ \A e \in edge : e[1] \in node /\ e[2] \in node /\ Reported(e, Committed)
    /\ \A n \in node : n.kind = "peer" => \E e \in edge : e[2] = n
    /\ \A i \in iface : i[1] \in node
    /\ \A i \in iface : i[3] # NoIP => Owned(i[1].key, i[3], Committed)

\* Every address of a device that is its own is on one of its interfaces.
Addressed ==
    \A b \in Committed : \A ip \in ips(task[b].top) : SoleOwner(task[b].device, ip) =>
        \E i \in iface : i[1].key = task[b].device /\ i[3] = ip

\* How far a transaction is.
Staged(t) ==
    /\ task[t].pc = "device" =>
           /\ task[t].add = {} /\ task[t].del = {} /\ task[t].gone = {} /\ task[t].locked = {}
    /\ task[t].pc \in {"neighbors", "reconcile"} =>
           /\ task[t].del = {} /\ task[t].gone = {}
           /\ \A e \in task[t].add : e[1].key = task[t].device
    /\ task[t].pc \in {"reconcile", "commit"} => task[t].todo = {}
    /\ task[t].todo \subseteq task[t].top.neighbors

\* It holds a node of its device, and writes that device's interfaces.
Anchored(t) ==
    /\ \E n \in task[t].locked : n \in Self(t)
    /\ \A i \in task[t].own : /\ i[1] \in Self(t)
                              /\ i[3] # NoIP => i[3] \in ips(task[t].top)
    /\ \A ip \in ips(task[t].top) : \E i \in task[t].own : i[3] = ip
    /\ \A i \in task[t].old : i[1].key = task[t].device

\* What it adds was reported, and the placeholders it makes lead somewhere.
AddsSound(t) ==
    /\ \A e \in task[t].add : /\ e[1] \in Nodes(t) /\ e[2] \in Nodes(t)
                              /\ e[2] \in task[t].locked /\ Reported(e, Upon(t))
    /\ \A n \in task[t].new : n.kind = "peer" => \E e \in task[t].add : e[2] = n

\* What it deletes it redirects, under lock, and it drops no placeholder still in use.
DropsSound(t) ==
    /\ \A e \in task[t].del :
           /\ e[2].kind = "peer" /\ e[2].key \in ips(task[t].top)
           /\ e[1] \in task[t].locked /\ e[2] \in task[t].locked
           /\ Joined(e[1].key, task[t].device, Edges(t))
           /\ e[2] \notin task[t].gone => \E f \in Edges(t) : f[2] = e[2]
    /\ \A n \in task[t].gone : /\ n.kind = "peer" /\ n \in task[t].locked
                               /\ \A e \in Edges(t) : e[2] # n

\* The adjacencies reported to it are in the graph, at a node it holds.
Keeps(t) ==
    \A ip \in task[t].top.neighbors \ task[t].todo :
        \E e \in Edges(t) : e[1] \in task[t].locked /\ Leads(e, task[t].device, ip, Upon(t))

\* It joins its device to those evaluated before, in the direction that was reported.
JoinsOut(t, E) ==
    \A b \in task[t].before : task[b].device # task[t].device =>
        \A ip \in Adjacent(t, b) \ task[t].todo :
            SoleOwner(task[b].device, ip) => Joined(task[t].device, task[b].device, E)
JoinsIn(t, E) ==
    \A b \in task[t].before : task[b].device # task[t].device =>
        \A ip \in Adjacent(b, t) :
            SoleOwner(task[t].device, ip) => Joined(task[b].device, task[t].device, E)

Sound(t) ==
    /\ Staged(t)
    /\ t \in Writing => /\ Anchored(t) /\ AddsSound(t) /\ DropsSound(t) /\ Keeps(t)
                        /\ JoinsOut(t, Edges(t))
    /\ task[t].pc = "commit" => JoinsIn(t, Edges(t))
    /\ task[t].pc = "radius" => task[t].todo = {} /\ JoinsOut(t, edge) /\ JoinsIn(t, edge)

AdjacencyKept ==
    \A a \in Committed : \A ip \in task[a].top.neighbors :
        \E e \in edge : Leads(e, task[a].device, ip, Committed)

IInv == /\ TypeOK /\ Exclusive /\ GraphSound /\ Addressed /\ AdjacencyKept
        /\ \A t \in Task : Sound(t)
        /\ MaxHops # 0 => RadiusHasNeighbours

-----------------------------------------------------------------------------
(* How far a variable-length path reaches.                                 *)

\* A set of numbers has a smallest one.
LEMMA Smallest ==
    ASSUME NEW T \in SUBSET Nat, T # {}
    PROVE  \E i \in T : \A j \in T : i <= j
<1> DEFINE less == OpToRel(<, Nat)
<1>1. \A x \in Nat, y \in Nat : x < y => <<x, y>> \in less
  BY DEF OpToRel
<1>2. PICK x \in T : \A y \in T : ~(<<y, x>> \in less)
  <2> HIDE DEF less
  <2>1. IsWellFoundedOn(less, Nat)
    BY NatLessThanWellFounded DEF less
  <2> QED  BY <2>1, WFMin
<1>3. \A y \in T : x <= y
  <2> HIDE DEF less
  <2>1. \A y \in T : y \in Nat /\ x \in Nat /\ ~(y < x)
    BY <1>1, <1>2
  <2> QED  BY <2>1
<1> QED  BY <1>3

\* One hop along the edges E, in either direction, from the nodes N.
Hop(N, E) == N \cup {e[1] : e \in {x \in E : x[2] \in N}}
               \cup {e[2] : e \in {x \in E : x[1] \in N}}

\* f counts the hops from S, up to m.
Hops(f, S, E, m) == f = [k \in 0 .. m |-> IF k = 0 THEN S ELSE Hop(f[k - 1], E)]

\* The recursive definition of the hops defines something.
LEMMA HopsExist ==
    ASSUME NEW S, NEW E, NEW m \in Nat
    PROVE  \E f : Hops(f, S, E, m)
<1> DEFINE T == {n \in Nat : ~ \E f : Hops(f, S, E, n)}
<1> SUFFICES ASSUME T # {}
             PROVE  FALSE
  OBVIOUS
<1>1. PICK n \in T : \A j \in T : n <= j
  <2>1. T \in SUBSET Nat
    OBVIOUS
  <2> HIDE DEF T
  <2> QED  BY <2>1, Smallest
<1>2. n \in Nat /\ ~ \E f : Hops(f, S, E, n)
  OBVIOUS
<1>3. CASE n = 0
  <2> DEFINE f == [k \in 0 .. 0 |-> S]
  <2>1. Hops(f, S, E, 0)
    BY DEF Hops
  <2> QED  BY <1>2, <1>3, <2>1
<1>4. CASE n # 0
  <2>1. n - 1 \in Nat /\ n - 1 \notin T
    BY <1>1, <1>2, <1>4
  <2>2. PICK g : Hops(g, S, E, n - 1)
    BY <2>1
  <2> DEFINE f == [k \in 0 .. n |-> IF k = n THEN Hop(g[n - 1], E) ELSE g[k]]
  <2>3. \A k \in 0 .. (n - 1) : g[k] = IF k = 0 THEN S ELSE Hop(g[k - 1], E)
    BY <2>2 DEF Hops
  <2>4. \A k \in 0 .. (n - 1) : f[k] = g[k]
    BY <1>2
  <2>5. f[n] = Hop(g[n - 1], E) /\ f[n - 1] = g[n - 1]
    BY <1>2, <1>4, <2>4
  <2>6. ASSUME NEW k \in 0 .. n
        PROVE  f[k] = IF k = 0 THEN S ELSE Hop(f[k - 1], E)
    <3> HIDE DEF f
    <3>1. CASE k = n
      BY <1>4, <2>5, <3>1
    <3>2. CASE k # n
      <4>1. k \in 0 .. (n - 1) /\ (k # 0 => k - 1 \in 0 .. (n - 1))
        BY <1>2, <3>2
      <4> QED  BY <2>3, <2>4, <4>1
    <3> QED  BY <3>1, <3>2
  <2>7. f = [k \in 0 .. n |-> f[k]]
    OBVIOUS
  <2>8. Hops(f, S, E, n)
    <3> HIDE DEF f
    <3> QED  BY <2>6, <2>7 DEF Hops
  <2> QED  BY <1>2, <2>8
<1> QED  BY <1>3, <1>4

\* More hops reach no less than the first.
LEMMA HopsReach ==
    ASSUME NEW S, NEW E, NEW m \in Nat \ {0}, NEW f, Hops(f, S, E, m)
    PROVE  Hop(S, E) \subseteq f[m]
<1>1. \A k \in 0 .. m : f[k] = IF k = 0 THEN S ELSE Hop(f[k - 1], E)
  BY DEF Hops
<1> DEFINE T == {k \in 1 .. m : ~(Hop(S, E) \subseteq f[k])}
<1> SUFFICES ASSUME T # {}
             PROVE  FALSE
  OBVIOUS
<1>2. PICK k \in T : \A j \in T : k <= j
  <2>1. T \in SUBSET Nat
    OBVIOUS
  <2> HIDE DEF T
  <2> QED  BY <2>1, Smallest
<1>3. k \in 1 .. m /\ ~(Hop(S, E) \subseteq f[k])
  OBVIOUS
<1>4. CASE k = 1
  <2>1. f[0] = S /\ f[1] = Hop(f[0], E)
    BY <1>1
  <2> QED  BY <1>3, <1>4, <2>1
<1>5. CASE k # 1
  <2>1. k - 1 \in 1 .. m /\ k - 1 \notin T
    BY <1>2, <1>3, <1>5
  <2>2. Hop(S, E) \subseteq f[k - 1]
    BY <2>1
  <2>3. f[k] = Hop(f[k - 1], E)
    BY <1>1, <1>3
  <2>4. f[k - 1] \subseteq f[k]
    BY <2>3 DEF Hop
  <2> QED  BY <1>3, <2>2, <2>4
<1> QED  BY <1>4, <1>5

\* The nodes within any number of hops are those one hop away, and more.
LEMMA WithinReaches ==
    ASSUME MaxHops \in Nat \ {0}, NEW d
    PROVE  Hop({n \in node : n.kind = "device" /\ n.key = d}, edge) \subseteq within(d)
<1>1. PICK S : S = {n \in node : n.kind = "device" /\ n.key = d}
  OBVIOUS
<1>2. PICK E : E = edge
  OBVIOUS
<1> DEFINE f == CHOOSE g : Hops(g, S, E, MaxHops)
<1>3. Hops(f, S, E, MaxHops)
  BY HopsExist
<1>4. within(d) = f[MaxHops]
  BY <1>1, <1>2 DEF within, Hops, Hop
<1> HIDE DEF f
<1>5. Hop(S, E) \subseteq f[MaxHops]
  BY <1>3, HopsReach
<1> QED  BY <1>1, <1>2, <1>4, <1>5

\* Nor do they leave a set the edges are within.
LEMMA HopsStay ==
    ASSUME NEW S, NEW E, NEW m \in Nat, NEW f, Hops(f, S, E, m), NEW N, S \subseteq N,
           \A e \in E : e[1] \in N /\ e[2] \in N
    PROVE  f[m] \subseteq N
<1>1. \A k \in 0 .. m : f[k] = IF k = 0 THEN S ELSE Hop(f[k - 1], E)
  BY DEF Hops
<1> DEFINE T == {k \in 0 .. m : ~(f[k] \subseteq N)}
<1> SUFFICES ASSUME T # {}
             PROVE  FALSE
  OBVIOUS
<1>2. PICK k \in T : \A j \in T : k <= j
  <2>1. T \in SUBSET Nat
    OBVIOUS
  <2> HIDE DEF T
  <2> QED  BY <2>1, Smallest
<1>3. k \in 0 .. m /\ ~(f[k] \subseteq N) /\ k # 0
  BY <1>1
<1>4. k - 1 \in 0 .. m /\ k - 1 \notin T
  BY <1>2, <1>3
<1>5. f[k - 1] \subseteq N
  BY <1>4
<1>6. f[k] = Hop(f[k - 1], E)
  BY <1>1, <1>3
<1> QED  BY <1>3, <1>5, <1>6 DEF Hop

-----------------------------------------------------------------------------
(* What evaluations reported, as more of them commit.                      *)

LEMMA Judgements ==
    ASSUME NEW S, NEW Z, S \subseteq Z,
           \A a \in S : task'[a].device = task[a].device /\ task'[a].top = task[a].top
    PROVE  /\ \A d, ip : Owned(d, ip, S) => Owned(d, ip, Z)'
           /\ \A e : Reported(e, S) => Reported(e, Z)'
           /\ \A e, d, ip : Leads(e, d, ip, S) => Leads(e, d, ip, Z)'
<1>1. \A d, ip : Owned(d, ip, S) => Owned(d, ip, Z)'
  BY DEF Owned
<1>2. \A e : Reported(e, S) => Reported(e, Z)'
  BY DEF Reported, Adjacent
<1>3. \A e, d, ip : Leads(e, d, ip, S) => Leads(e, d, ip, Z)'
  BY <1>1 DEF Leads
<1> QED  BY <1>1, <1>2, <1>3

\* Who is the sole owner of an address was so all along.
LEMMA SoleOwnerStays ==
    ASSUME Committed \subseteq Committed', NEW d, NEW ip, SoleOwner(d, ip)',
           \A a \in Committed : task'[a].device = task[a].device /\ task'[a].top = task[a].top
    PROVE  SoleOwner(d, ip)
BY DEF SoleOwner

\* The types of what a task works with.
LEMMA TopTyped ==
    ASSUME NEW d \in Device, NEW top \in Topologies[d]
    PROVE  top \in Tops
<1>1. IsTopology(top)
  BY TopologyConstants
<1> QED  BY <1>1 DEF IsTopology, TopologyOf, Tops

LEMMA IdleTyped == Idle \in TaskState
<1>1. TopologyOf({}, {}) \in Tops
  BY DEF TopologyOf, Tops
<1> QED  BY <1>1 DEF Idle, TaskState

\* A step that changes one task.
LEMMA TaskTyped ==
    ASSUME TypeOK, NEW t \in Task, NEW q \in TaskState, task' = [task EXCEPT ![t] = q],
           node' \in SUBSET Node, iface' \in SUBSET Interface, edge' \in SUBSET Route,
           q.pc # "idle" => q.device \in Device, Committed \subseteq Committed',
           q.before \subseteq Committed'
    PROVE  TypeOK'
<1>1. \A o \in Task : task'[o] = IF o = t THEN q ELSE task[o]
  BY DEF TypeOK
<1>2. task' \in [Task -> TaskState]
  BY DEF TypeOK
<1> QED  BY <1>1, <1>2 DEF TypeOK

\* A step that leaves the graph and the committed evaluations alone: what other
\* transactions did stands.
LEMMA OthersStand ==
    ASSUME TypeOK, NEW o \in Task, task'[o] = task[o], UNCHANGED graph,
           Committed' = Committed, Sound(o),
           \A a \in Committed : task'[a].device = task[a].device /\ task'[a].top = task[a].top
    PROVE  Sound(o)'
<1>1. PICK S : S = Upon(o)
  OBVIOUS
<1>2. Upon(o)' = S
  BY <1>1 DEF Upon
<1>3. UNCHANGED <<node, iface, edge>>
  BY DEF graph
<1>4. /\ Nodes(o)' = Nodes(o) /\ Self(o)' = Self(o) /\ Edges(o)' = Edges(o)
  BY <1>3 DEF Nodes, Self, Edges
<1>5. /\ \A e : Reported(e, S) => Reported(e, S)'
      /\ \A e, d, ip : Leads(e, d, ip, S) => Leads(e, d, ip, S)'
  <2>1. \A a \in S : task'[a].device = task[a].device /\ task'[a].top = task[a].top
    BY <1>1 DEF Upon
  <2> QED  BY <2>1, Judgements
<1>6. \A d, ip : SoleOwner(d, ip)' => SoleOwner(d, ip)
  BY SoleOwnerStays
<1>7. Staged(o)' /\ (o \in Writing <=> (o \in Writing)')
  BY DEF Sound, Staged, Writing
<1>8. Anchored(o) => Anchored(o)'
  BY <1>4 DEF Anchored
<1>9. AddsSound(o) => AddsSound(o)'
  BY <1>1, <1>2, <1>4, <1>5 DEF AddsSound
<1>10. DropsSound(o) => DropsSound(o)'
  BY <1>4 DEF DropsSound, Joined
<1>11. Keeps(o) => Keeps(o)'
  BY <1>1, <1>2, <1>4, <1>5 DEF Keeps
<1>12. \A b \in task[o].before : /\ task'[b].device = task[b].device
                                /\ task'[b].top = task[b].top
  BY DEF TypeOK
<1>13. JoinsOut(o, Edges(o)) => JoinsOut(o, Edges(o))'
  BY <1>4, <1>6, <1>12 DEF JoinsOut, Joined, Adjacent
<1>14. JoinsIn(o, Edges(o)) => JoinsIn(o, Edges(o))'
  BY <1>4, <1>6, <1>12 DEF JoinsIn, Joined, Adjacent
<1>15. JoinsOut(o, edge) => JoinsOut(o, edge)'
  BY <1>3, <1>6, <1>12 DEF JoinsOut, Joined, Adjacent
<1>16. JoinsIn(o, edge) => JoinsIn(o, edge)'
  BY <1>3, <1>6, <1>12 DEF JoinsIn, Joined, Adjacent
<1> QED
  BY <1>7, <1>8, <1>9, <1>10, <1>11, <1>13, <1>14, <1>15, <1>16 DEF Sound

\* So do the graph, and what was reported of it.
LEMMA GraphStands ==
    ASSUME UNCHANGED graph, Committed' = Committed,
           \A a \in Committed : task'[a].device = task[a].device /\ task'[a].top = task[a].top
    PROVE  /\ GraphSound => GraphSound'
           /\ Addressed => Addressed'
           /\ AdjacencyKept => AdjacencyKept'
<1>1. PICK S : S = Committed
  OBVIOUS
<1>2. Committed' = S /\ UNCHANGED <<node, iface, edge>>
  BY <1>1 DEF graph
<1>3. /\ \A d, ip : Owned(d, ip, S) => Owned(d, ip, S)'
      /\ \A e : Reported(e, S) => Reported(e, S)'
      /\ \A e, d, ip : Leads(e, d, ip, S) => Leads(e, d, ip, S)'
  BY <1>1, Judgements
<1>4. \A d, ip : SoleOwner(d, ip)' => SoleOwner(d, ip)
  BY SoleOwnerStays
<1>5. GraphSound => GraphSound'
  BY <1>1, <1>2, <1>3 DEF GraphSound
<1>6. Addressed => Addressed'
  BY <1>1, <1>2, <1>4 DEF Addressed
<1>7. AdjacencyKept => AdjacencyKept'
  BY <1>1, <1>2, <1>3 DEF AdjacencyKept
<1> QED  BY <1>5, <1>6, <1>7

\* Blast radii that were read stand, whatever commits later.
LEMMA RadiiStand ==
    ASSUME TypeOK, RadiusHasNeighbours, Committed \subseteq Committed',
           \A a \in Committed : task'[a].device = task[a].device /\ task'[a].top = task[a].top,
           \A o \in Task : task'[o].pc = "answered" => task'[o] = task[o]
    PROVE  RadiusHasNeighbours'
<1> SUFFICES ASSUME NEW o \in Task, task'[o].pc = "answered", NEW b \in task'[o].before,
                    task'[b].device # task'[o].device
             PROVE  \/ task'[b].device \in task'[o].radius
                    \/ /\ \A ip \in Adjacent(o, b)' : ~SoleOwner(task[b].device, ip)'
                       /\ \A ip \in Adjacent(b, o)' : ~SoleOwner(task[o].device, ip)'
  BY DEF RadiusHasNeighbours
<1>1. task'[o] = task[o] /\ b \in task[o].before /\ b \in Committed
  BY DEF TypeOK
<1>2. task'[b].device = task[b].device /\ task'[b].top = task[b].top
  BY <1>1
<1>3. Adjacent(o, b)' = Adjacent(o, b) /\ Adjacent(b, o)' = Adjacent(b, o)
  BY <1>1, <1>2 DEF Adjacent
<1>4. \A d, ip : SoleOwner(d, ip)' => SoleOwner(d, ip)
  BY SoleOwnerStays
<1> QED  BY <1>1, <1>2, <1>3, <1>4 DEF RadiusHasNeighbours

\* What is left to show of a step that changes one task and not the graph.
LEMMA Moves ==
    ASSUME IInv, NEW t \in Task, NEW q \in TaskState, task' = [task EXCEPT ![t] = q],
           UNCHANGED graph, Committed' = Committed, q.pc \notin {"idle", "answered"},
           q.device \in Device, q.before \subseteq Committed,
           t \in Committed => q.device = task[t].device /\ q.top = task[t].top,
           q.pc \in {"device", "neighbors", "reconcile", "commit"} =>
               \A o \in Open \ {t} : q.locked \cap task[o].locked = {},
           Sound(t)'
    PROVE  IInv'
<1>1. \A o \in Task : task'[o] = IF o = t THEN q ELSE task[o]
  BY DEF IInv, TypeOK
<1>2. \A a \in Committed : task'[a].device = task[a].device /\ task'[a].top = task[a].top
  BY <1>1 DEF Committed
<1>3. TypeOK'
  BY TaskTyped DEF graph, IInv, TypeOK
<1>4. Exclusive'
  <2> SUFFICES ASSUME NEW x \in Open', NEW y \in Open', x # y
               PROVE  task'[x].locked \cap task'[y].locked = {}
    BY DEF Exclusive
  <2>1. x \in Task /\ y \in Task
    BY DEF Open
  <2>2. \A o \in Task : o \in Open' /\ o # t => o \in Open
    BY <1>1 DEF Open
  <2>3. t \in Open' => q.pc \in {"device", "neighbors", "reconcile", "commit"}
    BY <1>1 DEF Open
  <2>4. CASE x = t
    BY <1>1, <2>1, <2>2, <2>3, <2>4
  <2>5. CASE y = t
    BY <1>1, <2>1, <2>2, <2>3, <2>5
  <2>6. CASE x # t /\ y # t
    BY <1>1, <2>1, <2>2, <2>6 DEF IInv, Exclusive
  <2> QED  BY <2>4, <2>5, <2>6
<1>5. GraphSound' /\ Addressed' /\ AdjacencyKept'
  BY <1>2, GraphStands DEF IInv
<1>6. \A o \in Task : Sound(o)'
  <2> SUFFICES ASSUME NEW o \in Task, o # t
               PROVE  Sound(o)'
    OBVIOUS
  <2>1. task'[o] = task[o] /\ TypeOK /\ Sound(o)
    BY <1>1 DEF IInv
  <2> QED  BY <1>2, <2>1, OthersStand
<1>7. MaxHops # 0 => RadiusHasNeighbours'
  <2>1. \A o \in Task : task'[o].pc = "answered" => task'[o] = task[o]
    BY <1>1
  <2>2. TypeOK /\ (MaxHops # 0 => RadiusHasNeighbours)
    BY DEF IInv
  <2> QED  BY <1>2, <2>1, <2>2, RadiiStand
<1> QED  BY <1>3, <1>4, <1>5, <1>6, <1>7 DEF IInv

-----------------------------------------------------------------------------
(* The steps.                                                              *)

\* A transaction starts, or starts again, with nothing written and nothing locked.
LEMMA IngestSound ==
    ASSUME IInv, NEW t \in Task, NEW d \in Device, NEW top \in Tops,
           task[t].pc \notin {"radius", "answered", "clean", "lost"},
           task' = [task EXCEPT ![t] = [Idle EXCEPT !.pc = "device", !.device = d, !.top = top,
                                                    !.before = Committed]],
           UNCHANGED graph
    PROVE  IInv'
<1> DEFINE q == [Idle EXCEPT !.pc = "device", !.device = d, !.top = top, !.before = Committed]
<1>0. PICK z \in SUBSET Task : z = Committed
  BY DEF Committed
<1>1. /\ q.pc = "device" /\ q.device = d /\ q.top = top /\ q.before = z
      /\ q.todo = {} /\ q.add = {} /\ q.del = {} /\ q.gone = {} /\ q.locked = {}
  BY <1>0 DEF Idle
<1>2. q \in TaskState
  BY <1>0, IdleTyped DEF TaskState, Idle
<1> PICK k : k = q
  OBVIOUS
<1>3. task' = [task EXCEPT ![t] = k]
  OBVIOUS
<1> HIDE DEF q
<1>4. \A o \in Task : task'[o] = IF o = t THEN k ELSE task[o]
  BY <1>3 DEF IInv, TypeOK
<1>5. Committed' = Committed /\ t \notin Committed
  BY <1>1, <1>4 DEF Committed
<1>6. Sound(t)'
  BY <1>1, <1>4 DEF Sound, Staged, Writing
<1> QED  BY <1>0, <1>1, <1>2, <1>3, <1>5, <1>6, Moves

LEMMA FailureSound ==
    ASSUME IInv, NEW t \in Task, graph_fails(t)
    PROVE  IInv'
<1> DEFINE s == IF t \in Open THEN "failed" ELSE "lost"
           q == [Idle EXCEPT !.pc = s, !.device = task[t].device, !.top = task[t].top,
                             !.before = task[t].before]
<1>1. task[t] \in TaskState /\ task[t].device \in Device /\ task[t].before \subseteq Committed
  BY DEF graph_fails, Busy, Open, IInv, TypeOK
<1>2. task' = [task EXCEPT ![t] = q] /\ UNCHANGED graph
  BY DEF graph_fails
<1>3. /\ s = "failed" => t \notin Committed
      /\ s = "lost" => t \in Committed
      /\ s \in {"failed", "lost"}
  BY DEF graph_fails, Busy, Open, Committed
<1> HIDE DEF s
<1>4. /\ q.pc = s /\ q.device = task[t].device /\ q.top = task[t].top
      /\ q.before = task[t].before /\ q.todo = {}
  BY DEF Idle
<1>5. q \in TaskState
  BY <1>1, <1>3, IdleTyped DEF TaskState, Idle
<1> PICK k : k = q
  OBVIOUS
<1>6. task' = [task EXCEPT ![t] = k]
  BY <1>2
<1> HIDE DEF q
<1>7. \A o \in Task : task'[o] = IF o = t THEN k ELSE task[o]
  BY <1>6 DEF IInv, TypeOK
<1>8. Committed' = Committed
  BY <1>3, <1>4, <1>7 DEF Committed
<1>9. Sound(t)'
  BY <1>3, <1>4, <1>7 DEF Sound, Staged, Writing
<1> QED  BY <1>1, <1>2, <1>3, <1>4, <1>5, <1>6, <1>8, <1>9, Moves

\* MERGE leaves the transaction with a node of its device, found or made, locked.
LEMMA DeviceSound ==
    ASSUME IInv, NEW t \in Task, merge_device(t)
    PROVE  IInv'
<1>1. PICK d, top, self : /\ d = task[t].device /\ top = task[t].top
                          /\ self = IF Self(t) = {}
                                    THEN {[kind |-> "device", key |-> task[t].device, by |-> t]}
                                    ELSE Self(t)
  OBVIOUS
<1>2. /\ task[t] \in TaskState /\ task[t].pc = "device" /\ d \in Device /\ top \in Tops
      /\ node \in SUBSET Node /\ iface \in SUBSET Interface
      /\ task[t].add = {} /\ task[t].del = {} /\ task[t].gone = {}
      /\ task[t].before \subseteq Committed
  BY <1>1 DEF merge_device, IInv, TypeOK, Sound, Staged, TaskState
<1>3. self # {} /\ \A n \in self : n \in DeviceNode /\ n.key = d
  <2>1. CASE Self(t) = {}
    BY <1>1, <1>2, <2>1 DEF DeviceNode
  <2>2. CASE Self(t) # {}
    <3>1. \A n \in Self(t) : n \in Node /\ n.kind = "device" /\ n.key = d
      BY <1>1, <1>2 DEF Self, Nodes, TaskState
    <3>2. \A n \in Node : n.kind = "device" => n \in DeviceNode
      BY DEF Node, UnresolvedPeer
    <3> QED  BY <1>1, <2>2, <3>1, <3>2
  <2> QED  BY <2>1, <2>2
<1> DEFINE kept == {i \in iface : i[1] \in self /\ i[2] \in names(top)}
<1>4. PICK new, old, own : new = self \ node /\ old = kept
                         /\ own = interfaces_on(self, top)
  <2> HIDE DEF kept
  <2> QED  OBVIOUS
<1> DEFINE q == [task[t] EXCEPT !.pc = "neighbors", !.todo = top.neighbors, !.new = new,
                                !.locked = self, !.old = old, !.own = own]
<1>5. task' = [task EXCEPT ![t] = q] /\ Free(t, self) /\ UNCHANGED graph
  <2>1. /\ Free(t, self) /\ UNCHANGED graph
        /\ task' = [task EXCEPT ![t].pc = "neighbors", ![t].todo = top.neighbors,
                                ![t].new = self \ node, ![t].locked = self,
                                ![t].old = kept, ![t].own = interfaces_on(self, top)]
    BY <1>1, Zenon DEF merge_device
  <2> HIDE DEF kept
  <2> QED  BY <1>4, <2>1
<1>6. /\ q.pc = "neighbors" /\ q.device = d /\ q.top = top /\ q.before = task[t].before
      /\ q.todo = top.neighbors /\ q.add = {} /\ q.del = {} /\ q.gone = {}
      /\ q.new = new /\ q.old = old /\ q.own = own /\ q.locked = self
  BY <1>1, <1>2 DEF TaskState
<1>7. /\ new \subseteq Node /\ self \subseteq Node /\ old \subseteq Interface
      /\ own \subseteq Interface
  <2>1. \A i \in top.interfaces : i[1] \in Name /\ i[2] \in IP \cup {NoIP}
    BY <1>2 DEF Tops
  <2> QED  BY <1>2, <1>3, <1>4, <2>1 DEF Interface, Node, interfaces_on
<1>8. q \in TaskState
  BY <1>2, <1>7 DEF TaskState, Tops
<1> PICK k : k = q
  OBVIOUS
<1>9. task' = [task EXCEPT ![t] = k]
  BY <1>5
<1> HIDE DEF q
<1>10. \A o \in Task : task'[o] = IF o = t THEN k ELSE task[o]
  BY <1>9 DEF IInv, TypeOK
<1>11. Committed' = Committed /\ t \notin Committed
  BY <1>2, <1>6, <1>10 DEF Committed
<1>12. node' = node
  BY <1>5 DEF graph
<1>13. self \subseteq Self(t)'
  BY <1>3, <1>4, <1>6, <1>10, <1>12 DEF Self, Nodes, DeviceNode
<1>14. Sound(t)'
  <2>1. Staged(t)'
    BY <1>6, <1>10 DEF Staged
  <2>2. Anchored(t)'
    <3>1. \A i \in own : i[1] \in self /\ (i[3] # NoIP => i[3] \in ips(top))
      BY <1>4 DEF ips, interfaces_on
    <3>2. \A ip \in ips(top) : \E i \in own : i[3] = ip
      <4> SUFFICES ASSUME NEW ip \in ips(top)
                   PROVE  \E i \in own : i[3] = ip
        OBVIOUS
      <4>1. PICK i \in top.interfaces, n \in self : i[2] = ip
        BY <1>3 DEF ips
      <4>2. <<n, i[1], i[2]>> \in own
        BY <1>4 DEF interfaces_on
      <4> QED  BY <4>1, <4>2
    <3>3. \A i \in old : i[1].key = d
      BY <1>3, <1>4
    <3>4. \E n \in self : n \in Self(t)'
      BY <1>3, <1>13
    <3> QED  BY <1>6, <1>10, <1>13, <3>1, <3>2, <3>3, <3>4 DEF Anchored
  <2>3. AddsSound(t)'
    <3>1. \A n \in new : n.kind # "peer"
      BY <1>3, <1>4 DEF DeviceNode
    <3> QED  BY <1>6, <1>10, <3>1 DEF AddsSound
  <2>4. DropsSound(t)'
    BY <1>6, <1>10 DEF DropsSound
  <2>5. Keeps(t)'
    BY <1>6, <1>10 DEF Keeps
  <2>6. JoinsOut(t, Edges(t))'
    BY <1>6, <1>10 DEF JoinsOut, Adjacent
  <2> QED  BY <1>6, <1>10, <2>1, <2>2, <2>3, <2>4, <2>5, <2>6 DEF Sound
<1>15. \A o \in Open \ {t} : k.locked \cap task[o].locked = {}
  BY <1>5, <1>6 DEF Free
<1> QED  BY <1>2, <1>5, <1>6, <1>8, <1>9, <1>11, <1>14, <1>15, Moves

\* The writing is done, and an address of the device may have adjacencies parked on it.
LEMMA DoneSound ==
    ASSUME IInv, NEW t \in Task, neighbors_done(t)
    PROVE  IInv'
<1> DEFINE s == IF ips(task[t].top) = {} THEN "commit" ELSE "reconcile"
           q == [task[t] EXCEPT !.pc = s]
<1>1. /\ task[t] \in TaskState /\ task[t].pc = "neighbors" /\ task[t].todo = {}
      /\ task' = [task EXCEPT ![t] = q] /\ UNCHANGED graph
      /\ task[t].device \in Device /\ task[t].before \subseteq Committed
  BY DEF neighbors_done, IInv, TypeOK
<1>2. s \in {"commit", "reconcile"} /\ (s = "commit" => ips(task[t].top) = {})
  OBVIOUS
<1> HIDE DEF s
<1>3. /\ q.pc = s /\ q.device = task[t].device /\ q.top = task[t].top
      /\ q.before = task[t].before /\ q.todo = task[t].todo /\ q.add = task[t].add
      /\ q.del = task[t].del /\ q.gone = task[t].gone /\ q.new = task[t].new
      /\ q.old = task[t].old /\ q.own = task[t].own /\ q.locked = task[t].locked
  BY <1>1 DEF TaskState
<1>4. q \in TaskState
  BY <1>1, <1>2 DEF TaskState
<1> PICK k : k = q
  OBVIOUS
<1>5. task' = [task EXCEPT ![t] = k]
  BY <1>1
<1> HIDE DEF q
<1>6. \A o \in Task : task'[o] = IF o = t THEN k ELSE task[o]
  BY <1>5 DEF IInv, TypeOK
<1>7. Committed' = Committed /\ t \notin Committed
  BY <1>1, <1>2, <1>3, <1>6 DEF Committed
<1>8. Sound(t)'
  <2>1. PICK S : S = Upon(t)
    OBVIOUS
  <2>2. Upon(t)' = S
    BY <1>7, <2>1 DEF Upon
  <2>3. UNCHANGED <<node, iface, edge>>
    BY <1>1 DEF graph
  <2>4. Nodes(t)' = Nodes(t) /\ Self(t)' = Self(t) /\ Edges(t)' = Edges(t)
    BY <1>3, <1>6, <2>3 DEF Nodes, Self, Edges
  <2>5. \A a \in Task : task'[a].device = task[a].device /\ task'[a].top = task[a].top
    BY <1>3, <1>6
  <2>6. /\ \A e : Reported(e, S) => Reported(e, S)'
        /\ \A e, d, ip : Leads(e, d, ip, S) => Leads(e, d, ip, S)'
    <3>1. \A a \in S : task'[a].device = task[a].device /\ task'[a].top = task[a].top
      BY <2>1, <2>5 DEF Upon, Committed
    <3> QED  BY <3>1, Judgements
  <2>7. \A d, ip : SoleOwner(d, ip)' => SoleOwner(d, ip)
    <3>1. \A a \in Committed : task'[a].device = task[a].device /\ task'[a].top = task[a].top
      BY <2>5 DEF Committed
    <3> QED  BY <1>7, <3>1, SoleOwnerStays
  <2>8. /\ Staged(t) /\ Anchored(t) /\ AddsSound(t) /\ DropsSound(t) /\ Keeps(t)
        /\ JoinsOut(t, Edges(t))
    BY <1>1 DEF IInv, Sound, Writing
  <2>9. Staged(t)'
    BY <1>1, <1>2, <1>3, <1>6, <2>8 DEF Staged
  <2>10. Anchored(t)'
    BY <1>3, <1>6, <2>4, <2>8 DEF Anchored
  <2>11. AddsSound(t)'
    BY <1>3, <1>6, <2>1, <2>2, <2>4, <2>6, <2>8 DEF AddsSound
  <2>12. DropsSound(t)'
    BY <1>3, <1>6, <2>4, <2>8 DEF DropsSound, Joined
  <2>13. Keeps(t)'
    BY <1>3, <1>6, <2>1, <2>2, <2>4, <2>6, <2>8 DEF Keeps
  <2>14. \A b \in task[t].before : b \in Task
    BY <1>1 DEF Committed
  <2>15. JoinsOut(t, Edges(t))'
    BY <1>3, <1>6, <2>4, <2>5, <2>7, <2>8, <2>14 DEF JoinsOut, Joined, Adjacent
  <2>16. s = "commit" => JoinsIn(t, Edges(t))'
    BY <1>2, <1>3, <1>6 DEF JoinsIn, Adjacent
  <2> QED
    BY <1>2, <1>3, <1>6, <2>9, <2>10, <2>11, <2>12, <2>13, <2>15, <2>16 DEF Sound
<1>9. \A o \in Open \ {t} : k.locked \cap task[o].locked = {}
  BY <1>1, <1>3 DEF IInv, Exclusive, Open
<1> QED  BY <1>1, <1>2, <1>3, <1>4, <1>5, <1>7, <1>8, <1>9, Moves

\* Where an adjacency leads: devices that have the address, or a placeholder for it.
LEMMA PeersOf ==
    ASSUME IInv, NEW t \in Writing, NEW ip \in task[t].todo
    PROVE  /\ peers_of(t, ip) # {} /\ peers_of(t, ip) \subseteq Node
           /\ owners(t, ip) \subseteq peers_of(t, ip)
           /\ \A p \in peers_of(t, ip) : p.kind = "device" =>
                  Owned(p.key, ip, Upon(t))
           /\ \A p \in peers_of(t, ip) : p.kind = "peer" => p.key = ip
<1>1. /\ t \in Task /\ task[t] \in TaskState /\ ip \in IP /\ TypeOK
      /\ Anchored(t) /\ AddsSound(t) /\ GraphSound
  BY DEF Writing, IInv, TypeOK, TaskState, Sound
<1>2. /\ node \in SUBSET Node /\ iface \in SUBSET Interface
      /\ task[t].own \in SUBSET Interface /\ task[t].new \in SUBSET Node
  BY <1>1 DEF TypeOK, TaskState
<1>3. ip # NoIP
  BY <1>1, TopologyConstants
<1>4. \A p \in owners(t, ip) : p \in DeviceNode /\ Owned(p.key, ip, Upon(t))
  <2> SUFFICES ASSUME NEW p \in owners(t, ip)
               PROVE  p \in DeviceNode /\ Owned(p.key, ip, Upon(t))
    OBVIOUS
  <2>1. PICK i \in Ifaces(t) : i[3] = ip /\ i[1] = p
    BY DEF owners
  <2>2. i \in Interface
    BY <1>2 DEF Ifaces
  <2>3. p \in DeviceNode
    BY <2>1, <2>2 DEF Interface
  <2>4. CASE i \in iface
    <3>1. Owned(p.key, ip, Committed)
      BY <1>1, <1>3, <2>1, <2>4 DEF GraphSound
    <3> QED  BY <2>3, <3>1 DEF Owned, Upon
  <2>5. CASE i \in task[t].own
    <3>1. p.key = task[t].device /\ ip \in ips(task[t].top)
      BY <1>1, <1>3, <2>1, <2>5 DEF Anchored, Self
    <3> QED  BY <2>3, <3>1 DEF Owned, Upon
  <2> QED  BY <2>4, <2>5 DEF Ifaces
<1>5. \A p \in owners(t, ip) : p \in Node /\ p.kind = "device"
  BY <1>4 DEF Node, DeviceNode
<1>6. CASE owners(t, ip) # {}
  <2>1. peers_of(t, ip) = owners(t, ip)
    BY <1>6 DEF peers_of
  <2> QED  BY <1>4, <1>5, <1>6, <2>1
<1>7. CASE owners(t, ip) = {} /\ Peers(t, ip) # {}
  <2>1. peers_of(t, ip) = Peers(t, ip)
    BY <1>7 DEF peers_of
  <2>2. \A p \in Peers(t, ip) : p \in Nodes(t) /\ p.kind = "peer" /\ p.key = ip
    BY DEF Peers
  <2>3. \A p \in Nodes(t) : p \in Node
    BY <1>2 DEF Nodes
  <2> QED  BY <1>7, <2>1, <2>2, <2>3
<1>8. CASE owners(t, ip) = {} /\ Peers(t, ip) = {}
  <2> DEFINE p == [kind |-> "peer", key |-> ip, by |-> t]
  <2>1. peers_of(t, ip) = {p}
    BY <1>8 DEF peers_of
  <2>2. p \in Node /\ p.kind = "peer" /\ p.key = ip
    BY <1>1 DEF Node, UnresolvedPeer
  <2> HIDE DEF p
  <2> QED  BY <1>8, <2>1, <2>2 DEF Upon
<1> QED  BY <1>6, <1>7, <1>8

\* The adjacency is there afterwards, whichever transactions overlap.
LEMMA NeighborSound ==
    ASSUME IInv, NEW t \in Task, NEW ip \in IP, merge_neighbor(t, ip)
    PROVE  IInv'
<1>1. PICK peers : peers = peers_of(t, ip)
  OBVIOUS
<1>2. PICK added : added = (Self(t) \X peers) \ Edges(t)
  OBVIOUS
<1> DEFINE q == [task[t] EXCEPT !.todo = @ \ {ip}, !.new = @ \cup (peers \ node),
                                !.add = @ \cup added, !.locked = @ \cup Ends(added)]
<1>3. /\ task[t] \in TaskState /\ task[t].pc = "neighbors" /\ ip \in task[t].todo
      /\ t \in Writing /\ task[t].device \in Device /\ task[t].before \subseteq Committed
      /\ TypeOK /\ node \in SUBSET Node
  BY DEF merge_neighbor, IInv, TypeOK, Writing
<1>4. /\ Staged(t) /\ Anchored(t) /\ AddsSound(t) /\ DropsSound(t) /\ Keeps(t)
      /\ JoinsOut(t, Edges(t)) /\ GraphSound /\ Addressed
      /\ task[t].del = {} /\ task[t].gone = {}
  BY <1>3 DEF IInv, Sound, Staged
<1>5. task' = [task EXCEPT ![t] = q] /\ Free(t, Ends(added)) /\ UNCHANGED graph
  BY <1>1, <1>2 DEF merge_neighbor
<1>6. /\ q.pc = "neighbors" /\ q.device = task[t].device /\ q.top = task[t].top
      /\ q.before = task[t].before /\ q.todo = task[t].todo \ {ip}
      /\ q.add = task[t].add \cup added /\ q.del = task[t].del /\ q.gone = task[t].gone
      /\ q.new = task[t].new \cup (peers \ node) /\ q.old = task[t].old
      /\ q.own = task[t].own /\ q.locked = task[t].locked \cup Ends(added)
  BY <1>3 DEF TaskState
<1>7. \A s \in Self(t) : s \in DeviceNode /\ s.key = task[t].device /\ s \in Nodes(t)
  <2>1. \A s \in Self(t) : s \in Node /\ s.kind = "device" /\ s.key = task[t].device
                           /\ s \in Nodes(t)
    BY <1>3 DEF Self, Nodes, TaskState
  <2> QED  BY <2>1 DEF Node, UnresolvedPeer
<1>8. /\ peers # {} /\ peers \subseteq Node /\ owners(t, ip) \subseteq peers
      /\ \A p \in peers : p.kind = "device" => Owned(p.key, ip, Upon(t))
      /\ \A p \in peers : p.kind = "peer" => p.key = ip
  BY <1>1, <1>3, PeersOf
<1>9. \A e \in added : e[1] \in Self(t) /\ e[2] \in peers /\ e \in Route
  BY <1>2, <1>7, <1>8 DEF Route
<1>10. Ends(added) \subseteq Node
  BY <1>8, <1>9, <1>7 DEF Ends, Node
<1>11. q \in TaskState
  BY <1>3, <1>8, <1>9, <1>10 DEF TaskState
<1> PICK k : k = q
  OBVIOUS
<1>12. task' = [task EXCEPT ![t] = k]
  BY <1>5
<1> HIDE DEF q
<1>13. \A o \in Task : task'[o] = IF o = t THEN k ELSE task[o]
  BY <1>12 DEF IInv, TypeOK
<1>14. Committed' = Committed /\ t \notin Committed
  BY <1>3, <1>6, <1>13 DEF Committed
<1>15. UNCHANGED <<node, iface, edge>>
  BY <1>5 DEF graph
<1>16. PICK S, E, N : S = Upon(t) /\ E = Edges(t) /\ N = Nodes(t)
  OBVIOUS
<1>17. /\ Upon(t)' = S /\ Edges(t)' = E \cup added /\ Nodes(t)' = N \cup (peers \ node)
       /\ \A s \in Self(t) : s \in Self(t)'
  BY <1>4, <1>6, <1>13, <1>14, <1>15, <1>16 DEF Upon, Edges, Nodes, Self
<1>18. \A a \in Task : task'[a].device = task[a].device /\ task'[a].top = task[a].top
  BY <1>6, <1>13
<1>19. /\ \A e : Reported(e, S) => Reported(e, S)'
       /\ \A e, d, x : Leads(e, d, x, S) => Leads(e, d, x, S)'
  <2>1. \A a \in S : task'[a].device = task[a].device /\ task'[a].top = task[a].top
    BY <1>16, <1>18 DEF Upon, Committed
  <2> QED  BY <2>1, Judgements
<1>20. \A d, x : SoleOwner(d, x)' => SoleOwner(d, x)
  <2>1. \A a \in Committed : task'[a].device = task[a].device /\ task'[a].top = task[a].top
    BY <1>18 DEF Committed
  <2> QED  BY <1>14, <2>1, SoleOwnerStays
\* Every adjacency to the address that was missing is added.
<1>21. \A s \in Self(t), p \in peers : <<s, p>> \in E \cup added
  BY <1>2, <1>16
<1>22. ip \in task[t].top.neighbors
  BY <1>3, <1>4 DEF Staged
<1>23. \A e \in added : Reported(e, S)
  <2> SUFFICES ASSUME NEW e \in added
               PROVE  Reported(e, S)
    OBVIOUS
  <2>1. task[t].device = e[1].key /\ t \in S /\ e[2] \in peers /\ e[2] \in Node
    BY <1>7, <1>8, <1>9, <1>16 DEF Upon
  <2>2. CASE e[2].kind = "device"
    <3>1. PICK b \in S : task[b].device = e[2].key /\ ip \in ips(task[b].top)
      BY <1>8, <1>16, <2>1, <2>2 DEF Owned
    <3>2. Adjacent(t, b) # {}
      BY <1>22, <3>1 DEF Adjacent
    <3> QED  BY <2>1, <2>2, <3>1, <3>2 DEF Reported
  <2>3. CASE e[2].kind = "peer"
    BY <1>8, <1>22, <2>1, <2>3 DEF Reported
  <2> QED  BY <2>1, <2>2, <2>3 DEF Node, DeviceNode, UnresolvedPeer
<1>24. Staged(t)'
  BY <1>3, <1>4, <1>6, <1>7, <1>9, <1>13 DEF Staged
<1>25. Anchored(t)'
  BY <1>4, <1>6, <1>13, <1>17 DEF Anchored
<1>26. AddsSound(t)'
  <2>1. \A e \in added : /\ e[1] \in Nodes(t)' /\ e[2] \in Nodes(t)'
                         /\ e[2] \in Ends(added)
    <3>1. node \subseteq N
      BY <1>4, <1>16 DEF Nodes
    <3> QED  BY <1>7, <1>9, <1>16, <1>17, <3>1 DEF Ends
  <2>2. ASSUME NEW n \in task'[t].new, n.kind = "peer"
        PROVE  \E e \in task'[t].add : e[2] = n
    <3>1. CASE n \in task[t].new
      BY <1>4, <1>6, <1>13, <2>2, <3>1 DEF AddsSound
    <3>2. CASE n \in peers \ node
      <4>1. PICK s \in Self(t) : TRUE
        BY <1>4 DEF Anchored
      <4>2. <<s, n>> \notin edge
        BY <1>4, <3>2 DEF GraphSound
      <4>3. <<s, n>> \in added \cup task[t].add
        BY <1>16, <1>21, <3>2, <4>2 DEF Edges
      <4> QED  BY <1>6, <1>13, <4>3
    <3> QED  BY <1>6, <1>13, <3>1, <3>2
  <2>3. \A e \in task[t].add : /\ e[1] \in Nodes(t)' /\ e[2] \in Nodes(t)'
                               /\ e[2] \in task[t].locked /\ Reported(e, S)'
    BY <1>4, <1>16, <1>17, <1>19 DEF AddsSound
  <2> QED  BY <1>6, <1>13, <1>17, <1>19, <1>23, <2>1, <2>2, <2>3 DEF AddsSound
<1>27. DropsSound(t)'
  BY <1>4, <1>6, <1>13 DEF DropsSound
<1>28. Keeps(t)'
  <2>1. PICK s \in Self(t) : s \in task[t].locked
    BY <1>4 DEF Anchored
  <2>2. PICK p \in peers : TRUE
    BY <1>8
  <2>3. PICK d, e : d = task[t].device /\ e = <<s, p>>
    OBVIOUS
  <2>4. Leads(e, d, ip, S)
    BY <1>7, <1>8, <1>16, <2>1, <2>2, <2>3 DEF Leads, Node, DeviceNode, UnresolvedPeer
  <2>5. e \in E \cup added /\ e[1] \in q.locked /\ Leads(e, d, ip, S)'
    BY <1>6, <1>19, <1>21, <2>1, <2>2, <2>3, <2>4
  <2>6. \A x \in task[t].top.neighbors \ task[t].todo :
            \E y \in E : y[1] \in task[t].locked /\ Leads(y, d, x, S)
    BY <1>4, <1>16, <2>3 DEF Keeps
  <2>7. \A x \in task[t].top.neighbors \ task[t].todo :
            \E y \in E \cup added : y[1] \in q.locked /\ Leads(y, d, x, S)'
    BY <1>6, <1>19, <2>6
  <2> QED  BY <1>6, <1>13, <1>17, <2>3, <2>5, <2>7 DEF Keeps
<1>29. JoinsOut(t, Edges(t))'
  <2> SUFFICES ASSUME NEW b \in task[t].before, task[b].device # task[t].device,
                      NEW x \in Adjacent(t, b) \ (task[t].todo \ {ip}),
                      SoleOwner(task[b].device, x)
               PROVE  Joined(task[t].device, task[b].device, E \cup added)
    <3>1. \A b \in task[t].before : b \in Task
      BY <1>3 DEF Committed
    <3> QED  BY <1>6, <1>13, <1>17, <1>18, <1>20, <3>1 DEF JoinsOut, Joined, Adjacent
  <2>1. CASE x # ip
    BY <1>4, <1>16, <2>1 DEF JoinsOut, Joined
  <2>2. CASE x = ip
    <3>1. b \in Committed /\ x \in ips(task[b].top)
      BY <1>3 DEF Adjacent
    <3>2. PICK i \in iface : i[1].key = task[b].device /\ i[3] = x
      BY <1>4, <3>1 DEF Addressed
    <3>3. i \in Ifaces(t)
      BY <1>4, <3>2 DEF Anchored, Ifaces
    <3>4. i[1] \in peers
      BY <1>8, <2>2, <3>2, <3>3 DEF owners
    <3>5. PICK s \in Self(t) : TRUE
      BY <1>4 DEF Anchored
    <3>6. i[1] \in DeviceNode
      BY <1>3, <3>2 DEF TypeOK, Interface
    <3>7. <<s, i[1]>> \in E \cup added /\ <<s, i[1]>>[1].key = task[t].device
          /\ <<s, i[1]>>[2].kind = "device" /\ <<s, i[1]>>[2].key = task[b].device
      BY <1>7, <1>21, <3>2, <3>4, <3>5, <3>6 DEF DeviceNode
    <3> QED  BY <3>7 DEF Joined
  <2> QED  BY <2>1, <2>2
<1>30. Sound(t)'
  BY <1>6, <1>13, <1>24, <1>25, <1>26, <1>27, <1>28, <1>29 DEF Sound
<1>31. \A o \in Open \ {t} : k.locked \cap task[o].locked = {}
  BY <1>3, <1>5, <1>6 DEF Free, IInv, Exclusive, Open
<1> QED  BY <1>3, <1>5, <1>6, <1>11, <1>12, <1>14, <1>30, <1>31, Moves

\* Adjacencies parked on a placeholder of the device are redirected, all that are there.
LEMMA ReconcileSound ==
    ASSUME IInv, NEW t \in Task, reconcile(t)
    PROVE  IInv'
<1>1. PICK P, S, E, N, d : /\ P = parked(t) /\ S = Upon(t) /\ E = Edges(t) /\ N = Nodes(t)
                           /\ d = task[t].device
  OBVIOUS
<1>2. PICK added : added = redirected(t) \ E
  OBVIOUS
<1>3. PICK dropped : dropped = {e[2] : e \in P} \ {e[2] : e \in E \ P}
  OBVIOUS
<1> DEFINE q == [task[t] EXCEPT !.pc = "commit", !.add = (@ \ P) \cup added,
                                !.del = @ \cup (P \cap edge), !.new = @ \ dropped,
                                !.gone = @ \cup (dropped \cap node),
                                !.locked = @ \cup Ends(P) \cup Ends(added)]
<1>4. /\ task[t] \in TaskState /\ task[t].pc = "reconcile" /\ t \in Writing
      /\ d \in Device /\ task[t].before \subseteq Committed
      /\ TypeOK /\ edge \in SUBSET Route /\ node \in SUBSET Node
  BY <1>1 DEF reconcile, IInv, TypeOK, Writing
<1>5. /\ Staged(t) /\ Anchored(t) /\ AddsSound(t) /\ DropsSound(t) /\ Keeps(t)
      /\ JoinsOut(t, E) /\ GraphSound /\ AdjacencyKept
      /\ task[t].del = {} /\ task[t].gone = {} /\ task[t].todo = {}
  BY <1>1, <1>4 DEF IInv, Sound, Staged
<1>6. /\ task' = [task EXCEPT ![t] = q] /\ UNCHANGED graph
      /\ Free(t, Ends(P) \cup Ends(added))
  BY <1>1, <1>2, <1>3 DEF reconcile
<1>7. /\ q.pc = "commit" /\ q.device = d /\ q.top = task[t].top
      /\ q.before = task[t].before /\ q.todo = {}
      /\ q.add = (task[t].add \ P) \cup added /\ q.del = P \cap edge
      /\ q.gone = dropped \cap node /\ q.new = task[t].new \ dropped
      /\ q.old = task[t].old /\ q.own = task[t].own
      /\ q.locked = task[t].locked \cup Ends(P) \cup Ends(added)
  BY <1>1, <1>4, <1>5 DEF TaskState
\* All of them are committed: the transaction's own start at its device.
<1>8. P \subseteq edge /\ P \cap task[t].add = {}
  BY <1>1, <1>4, <1>5 DEF parked, Edges, Staged
<1>9. \A e \in P : /\ e \in E /\ e[2].kind = "peer" /\ e[2].key \in ips(task[t].top)
                   /\ e[1].key # d
  BY <1>1 DEF parked
<1>10. \A e \in E : e[2].kind = "peer" /\ e[2].key \in ips(task[t].top) /\ e[1].key # d => e \in P
  BY <1>1 DEF parked
<1>11. \A s \in Self(t) : s \in DeviceNode /\ s.kind = "device" /\ s.key = d /\ s \in N
  <2>1. \A s \in Self(t) : s \in Node /\ s.kind = "device" /\ s.key = d /\ s \in N
    BY <1>1, <1>4 DEF Self, Nodes, TaskState
  <2> QED  BY <2>1 DEF Node, UnresolvedPeer
<1>12. \A x \in added : \E e \in P, s \in Self(t) : x = <<e[1], s>>
  BY <1>1, <1>2 DEF redirected
<1>13. \A e \in P, s \in Self(t) : <<e[1], s>> \in E \cup added
  BY <1>1, <1>2 DEF redirected
<1>14. added \subseteq Route /\ P \subseteq Route /\ dropped \subseteq Node
  <2>1. \A e \in P : e[1] \in DeviceNode /\ e[2] \in Node /\ e \in Route
    BY <1>4, <1>8 DEF Route
  <2>2. added \subseteq Route
    BY <1>11, <1>12, <2>1 DEF Route, Node
  <2> QED  BY <1>3, <2>1, <2>2
<1>15. Ends(P) \subseteq Node /\ Ends(added) \subseteq Node
  BY <1>14 DEF Ends, Route, Node
<1>16. q \in TaskState
  BY <1>4, <1>14, <1>15 DEF TaskState
<1> PICK k : k = q
  OBVIOUS
<1>17. task' = [task EXCEPT ![t] = k]
  BY <1>6
<1> HIDE DEF q
<1>18. \A o \in Task : task'[o] = IF o = t THEN k ELSE task[o]
  BY <1>17 DEF IInv, TypeOK
<1>19. Committed' = Committed /\ t \notin Committed
  BY <1>4, <1>7, <1>18 DEF Committed
<1>20. UNCHANGED <<node, iface, edge>>
  BY <1>6 DEF graph
<1>21. dropped \subseteq {e[2] : e \in P} /\ \A n \in dropped : n.kind = "peer"
  BY <1>3, <1>9
<1>22. /\ Upon(t)' = S /\ Edges(t)' = (E \ P) \cup added
       /\ Nodes(t)' = N \ dropped /\ \A s \in Self(t) : s \in Self(t)'
  <2>1. Upon(t)' = S
    BY <1>1, <1>19 DEF Upon
  <2>2. Edges(t)' = (E \ P) \cup added
    BY <1>1, <1>5, <1>7, <1>8, <1>18, <1>20 DEF Edges
  <2>3. Nodes(t)' = N \ dropped
    BY <1>1, <1>5, <1>7, <1>18, <1>20 DEF Nodes
  <2>4. \A s \in Self(t) : s \in Self(t)'
    BY <1>1, <1>7, <1>11, <1>18, <1>21, <2>3 DEF Self
  <2> QED  BY <2>1, <2>2, <2>3, <2>4
<1>23. \A a \in Task : task'[a].device = task[a].device /\ task'[a].top = task[a].top
  BY <1>1, <1>7, <1>18
<1>24. /\ \A e : Reported(e, S) => Reported(e, S)'
       /\ \A e, x, y : Leads(e, x, y, S) => Leads(e, x, y, S)'
  <2>1. \A a \in S : task'[a].device = task[a].device /\ task'[a].top = task[a].top
    BY <1>1, <1>23 DEF Upon, Committed
  <2> QED  BY <2>1, Judgements
<1>25. \A x, y : SoleOwner(x, y)' => SoleOwner(x, y)
  <2>1. \A a \in Committed : task'[a].device = task[a].device /\ task'[a].top = task[a].top
    BY <1>23 DEF Committed
  <2> QED  BY <1>19, <2>1, SoleOwnerStays
<1>26. PICK s \in Self(t) : s \in task[t].locked
  BY <1>5 DEF Anchored
\* Every adjacency that was parked is there, at the device.
<1>27. \A e \in P : Joined(e[1].key, d, (E \ P) \cup added)
  <2> SUFFICES ASSUME NEW e \in P
               PROVE  Joined(e[1].key, d, (E \ P) \cup added)
    OBVIOUS
  <2>1. PICK f : f = <<e[1], s>>
    OBVIOUS
  <2>2. f \in E \cup added /\ f[1] = e[1] /\ f[2].kind = "device" /\ f[2].key = d
    BY <1>11, <1>13, <1>26, <2>1
  <2>3. f \in (E \ P) \cup added
    BY <1>9, <2>2
  <2> QED  BY <2>2, <2>3 DEF Joined
<1>28. Staged(t)'
  BY <1>7, <1>18 DEF Staged
<1>29. Anchored(t)'
  BY <1>1, <1>5, <1>7, <1>18, <1>22 DEF Anchored
<1>30. AddsSound(t)'
  <2>1. ASSUME NEW e \in added
        PROVE  e[1] \in N \ dropped /\ e[2] \in N \ dropped /\ e[2] \in q.locked
               /\ Reported(e, S)
    <3>1. PICK f \in P, n \in Self(t) : e = <<f[1], n>>
      BY <1>12
    <3>2. f \in edge /\ f[1] \in node /\ f[1] \in DeviceNode /\ Reported(f, Committed)
      BY <1>4, <1>5, <1>8 DEF GraphSound, Route
    <3>3. f[1] \in N /\ f[1].kind = "device"
      BY <1>1, <1>5, <3>2 DEF Nodes, DeviceNode
    <3>4. e[1] \in N \ dropped /\ e[2] \in N \ dropped
      BY <1>11, <1>21, <3>1, <3>3
    <3>5. e[2] \in q.locked
      BY <1>7 DEF Ends
    <3>6. PICK a \in Committed : /\ task[a].device = f[1].key
                                 /\ f[2].key \in task[a].top.neighbors
      BY <1>9, <3>2 DEF Reported
    <3>7. Adjacent(a, t) # {}
      BY <1>9, <3>6 DEF Adjacent
    <3>8. Reported(e, S)
      BY <1>1, <1>11, <3>1, <3>6, <3>7 DEF Reported, Upon
    <3> QED  BY <3>4, <3>5, <3>8
  <2>2. ASSUME NEW e \in task[t].add
        PROVE  e[1] \in N \ dropped /\ e[2] \in N \ dropped /\ e[2] \in q.locked
               /\ Reported(e, S)
    <3>1. /\ e[1] \in N /\ e[2] \in N /\ e[2] \in task[t].locked /\ Reported(e, S)
      BY <1>1, <1>5 DEF AddsSound
    <3>2. e \in E \ P /\ e[1].kind = "device"
      BY <1>1, <1>4, <1>8 DEF Edges, TaskState, Route, DeviceNode
    <3>3. e[1] \notin dropped /\ e[2] \notin dropped
      BY <1>3, <1>21, <3>2
    <3> QED  BY <1>7, <3>1, <3>3
  <2>3. \A n \in task'[t].new : n.kind = "peer" => \E e \in task'[t].add : e[2] = n
    BY <1>5, <1>7, <1>8, <1>18 DEF AddsSound
  <2> QED  BY <1>7, <1>18, <1>22, <1>24, <2>1, <2>2, <2>3 DEF AddsSound
<1>31. DropsSound(t)'
  <2>1. ASSUME NEW e \in P
        PROVE  /\ e[1] \in q.locked /\ e[2] \in q.locked
               /\ e[2] \notin q.gone => \E f \in (E \ P) \cup added : f[2] = e[2]
    <3>1. e[1] \in q.locked /\ e[2] \in q.locked
      BY <1>7 DEF Ends
    <3>2. e[2] \in node
      BY <1>5, <1>8 DEF GraphSound
    <3> QED  BY <1>3, <1>7, <3>1, <3>2
  <2>2. ASSUME NEW n \in q.gone
        PROVE  /\ n.kind = "peer" /\ n \in q.locked
               /\ \A e \in (E \ P) \cup added : e[2] # n
    <3>1. n \in dropped
      BY <1>7
    <3>2. n.kind = "peer" /\ n \in Ends(P)
      BY <1>21, <3>1 DEF Ends
    <3>3. \A e \in E \ P : e[2] # n
      BY <1>3, <3>1
    <3>4. \A e \in added : e[2].kind = "device"
      BY <1>11, <1>12
    <3> QED  BY <1>7, <3>2, <3>3, <3>4
  <2>3. \A e \in P : Joined(e[1].key, d, Edges(t))'
    BY <1>22, <1>27 DEF Joined
  <2> QED  BY <1>7, <1>9, <1>18, <1>22, <2>1, <2>2, <2>3 DEF DropsSound
<1>32. Keeps(t)'
  <2>1. \A ip \in task[t].top.neighbors :
            \E e \in E : e[1] \in task[t].locked /\ Leads(e, d, ip, S)
    BY <1>1, <1>5 DEF Keeps
  <2>2. \A ip \in task[t].top.neighbors :
            \E e \in E \ P : e[1] \in q.locked /\ Leads(e, d, ip, S)'
    BY <1>7, <1>9, <1>24, <2>1 DEF Leads
  <2> QED  BY <1>7, <1>18, <1>22, <2>2 DEF Keeps
<1>33. \A b \in task[t].before : b \in Task /\ b \in Committed
  BY <1>4 DEF Committed
<1>34. JoinsOut(t, Edges(t))'
  <2>1. \A c : Joined(d, c, E) => Joined(d, c, (E \ P) \cup added)
    BY <1>9 DEF Joined
  <2>2. \A b \in task[t].before : task[b].device # d =>
            \A ip \in Adjacent(t, b) :
                SoleOwner(task[b].device, ip) => Joined(d, task[b].device, (E \ P) \cup added)
    BY <1>1, <1>5, <2>1 DEF JoinsOut
  <2> QED
    BY <1>1, <1>7, <1>18, <1>22, <1>23, <1>25, <1>33, <2>2 DEF JoinsOut, Joined, Adjacent
<1>35. JoinsIn(t, Edges(t))'
  <2>1. ASSUME NEW b \in task[t].before, task[b].device # d, NEW ip \in Adjacent(b, t),
               SoleOwner(d, ip)
        PROVE  Joined(task[b].device, d, (E \ P) \cup added)
    <3>1. ip \in task[b].top.neighbors /\ ip \in ips(task[t].top)
      BY DEF Adjacent
    <3>2. PICK e \in edge : Leads(e, task[b].device, ip, Committed)
      BY <1>5, <1>33, <3>1 DEF AdjacencyKept
    <3>3. e \in E /\ e[1].key = task[b].device
      BY <1>1, <1>5, <3>2 DEF Edges, Leads
    <3>4. CASE e[2].kind = "peer"
      <4>1. e \in P
        BY <1>10, <2>1, <3>1, <3>2, <3>3, <3>4 DEF Leads
      <4> QED  BY <1>27, <3>3, <4>1
    <3>5. CASE e[2].kind # "peer"
      <4>1. e[2].kind = "device" /\ Owned(e[2].key, ip, Committed)
        BY <3>2, <3>5 DEF Leads
      <4>2. e[2].key = d
        BY <2>1, <4>1 DEF Owned, SoleOwner
      <4>3. e \in E \ P
        BY <1>9, <3>3, <3>5
      <4> QED  BY <3>3, <4>1, <4>2, <4>3 DEF Joined
    <3> QED  BY <3>4, <3>5
  <2> QED
    BY <1>1, <1>7, <1>18, <1>22, <1>23, <1>25, <1>33, <2>1 DEF JoinsIn, Joined, Adjacent
<1>36. Sound(t)'
  BY <1>7, <1>18, <1>28, <1>29, <1>30, <1>31, <1>32, <1>34, <1>35 DEF Sound
<1>37. \A o \in Open \ {t} : k.locked \cap task[o].locked = {}
  BY <1>4, <1>6, <1>7 DEF Free, IInv, Exclusive, Open
<1> QED  BY <1>4, <1>6, <1>7, <1>16, <1>17, <1>19, <1>36, <1>37, Moves

\* A commit makes what the transaction saw what is committed; devices, and what leads to
\* them, stay.
LEMMA CommitIs ==
    ASSUME IInv, NEW t \in Task, NEW findings \in BOOLEAN, commit(t, findings)
    PROVE  /\ node' = Nodes(t) /\ iface' = Ifaces(t) /\ edge' = Edges(t)
           /\ task[t].pc = "commit" /\ t \notin Committed /\ Committed' = Committed \cup {t}
           /\ \A o \in Task \ {t} : task'[o] = task[o]
           /\ \A a \in Task : /\ task'[a].device = task[a].device
                              /\ task'[a].top = task[a].top
                              /\ task'[a].before = task[a].before
           /\ task'[t].pc \in {"radius", "clean"} /\ task'[t].todo = {}
           /\ \A n \in node : n.kind = "device" => n \in node'
           /\ \A e \in edge : e[2].kind = "device" => e \in edge'
           /\ TypeOK'
<1> DEFINE s == IF findings THEN "radius" ELSE "clean"
           q == [Idle EXCEPT !.pc = s, !.device = task[t].device, !.top = task[t].top,
                             !.before = task[t].before]
<1>1. /\ task[t] \in TaskState /\ task[t].device \in Device /\ task[t].pc = "commit"
      /\ task[t].before \subseteq Committed /\ DropsSound(t) /\ TypeOK
  BY DEF commit, IInv, TypeOK, Sound, Writing
<1>2. /\ task' = [task EXCEPT ![t] = q]
      /\ node' = Nodes(t) /\ iface' = Ifaces(t) /\ edge' = Edges(t)
  BY DEF commit
<1>3. s \in {"radius", "clean"}
  OBVIOUS
<1> HIDE DEF s
<1>4. /\ q.pc = s /\ q.device = task[t].device /\ q.top = task[t].top
      /\ q.before = task[t].before /\ q.todo = {}
  BY DEF Idle
<1>5. q \in TaskState
  BY <1>1, <1>3, IdleTyped DEF TaskState, Idle
<1> PICK k : k = q
  OBVIOUS
<1>6. task' = [task EXCEPT ![t] = k]
  BY <1>2
<1> HIDE DEF q
<1>7. \A o \in Task : task'[o] = IF o = t THEN k ELSE task[o]
  BY <1>1, <1>6 DEF TypeOK
<1>8. t \notin Committed /\ Committed' = Committed \cup {t}
  BY <1>1, <1>3, <1>4, <1>7 DEF Committed
<1>9. \A n \in node : n.kind = "device" => n \in node'
  BY <1>1, <1>2 DEF Nodes, DropsSound
<1>10. \A e \in edge : e[2].kind = "device" => e \in edge'
  BY <1>1, <1>2 DEF Edges, DropsSound
<1>11. TypeOK'
  <2>1. /\ node' \in SUBSET Node /\ iface' \in SUBSET Interface /\ edge' \in SUBSET Route
    BY <1>1, <1>2 DEF Nodes, Ifaces, Edges, TaskState, TypeOK
  <2>2. Committed \subseteq Committed' /\ k.before \subseteq Committed'
    BY <1>1, <1>4, <1>8
  <2> QED  BY <1>1, <1>4, <1>5, <1>6, <2>1, <2>2, TaskTyped
<1> QED  BY <1>1, <1>2, <1>3, <1>4, <1>7, <1>8, <1>9, <1>10, <1>11

\* What another open transaction saw and wrote stands: the nodes at which it relies on the
\* graph are locked.
LEMMA CommitOthers ==
    ASSUME IInv, NEW t \in Task, NEW findings \in BOOLEAN, commit(t, findings),
           NEW o \in Task, o # t
    PROVE  Sound(o)'
<1>1. /\ node' = Nodes(t) /\ edge' = Edges(t)
      /\ t \notin Committed /\ Committed' = Committed \cup {t}
      /\ task'[o] = task[o] /\ t \in Open /\ t \in Writing
      /\ \A a \in Task : task'[a].device = task[a].device /\ task'[a].top = task[a].top
      /\ \A n \in node : n.kind = "device" => n \in node'
      /\ \A e \in edge : e[2].kind = "device" => e \in edge'
  BY CommitIs DEF Open, Writing
<1>2. PICK S, Z, E, F : S = Upon(o) /\ Z = S \cup {t} /\ E = Edges(o) /\ F = Edges(o)'
  OBVIOUS
<1>3. Upon(o)' = Z
  BY <1>1, <1>2 DEF Upon
<1>4. /\ \A e : Reported(e, S) => Reported(e, Z)'
      /\ \A e, x, y : Leads(e, x, y, S) => Leads(e, x, y, Z)'
  <2>1. S \subseteq Z /\ \A a \in S : /\ task'[a].device = task[a].device
                                      /\ task'[a].top = task[a].top
    BY <1>1, <1>2 DEF Upon, Committed
  <2> QED  BY <2>1, Judgements
<1>5. \A x, y : SoleOwner(x, y)' => SoleOwner(x, y)
  <2>1. \A a \in Committed : task'[a].device = task[a].device /\ task'[a].top = task[a].top
    BY <1>1 DEF Committed
  <2>2. Committed \subseteq Committed'
    BY <1>1
  <2> QED  BY <2>1, <2>2, SoleOwnerStays
<1>6. \A b \in task[o].before : b \in Task
  BY DEF IInv, TypeOK, Committed
<1>7. TypeOK /\ Sound(o) /\ Sound(t)
  BY DEF IInv
<1>8. Staged(o)' /\ (o \in Writing <=> (o \in Writing)')
  BY <1>1, <1>7 DEF Sound, Staged, Writing
<1>9. ASSUME o \in Writing
      PROVE  /\ Anchored(o)' /\ AddsSound(o)' /\ DropsSound(o)' /\ Keeps(o)'
             /\ \A c, d : Joined(c, d, E) => Joined(c, d, F)
  <2>1. /\ Anchored(o) /\ AddsSound(o) /\ DropsSound(o) /\ Keeps(o)
        /\ AddsSound(t) /\ DropsSound(t)
    BY <1>1, <1>7, <1>9 DEF Sound
  <2>2. task[o].locked \cap task[t].locked = {}
    <3>1. o \in Open
      BY <1>9 DEF Writing, Open
    <3> QED  BY <1>1, <3>1 DEF IInv, Exclusive
  \* What t drops and deletes is not o's.
  <2>3. \A e \in Edges(o) : e[1] \in task[o].locked \/ e[2] \in task[o].locked
                            \/ e[2].kind = "device" => e \in Edges(o)'
    BY <1>1, <2>1, <2>2 DEF Edges, DropsSound
  <2>4. \A n \in Nodes(o) : n \in task[o].locked \/ n.kind = "device" => n \in Nodes(o)'
    BY <1>1, <2>1, <2>2 DEF Nodes, DropsSound
  <2>5. Anchored(o)'
    <3>1. \A n \in Self(o) : n \in Self(o)'
      BY <1>1, <2>4 DEF Self
    <3> QED  BY <1>1, <2>1, <3>1 DEF Anchored
  <2>6. AddsSound(o)'
    <3>1. \A e \in task[o].add : e[1].kind = "device"
      BY <1>7 DEF TypeOK, TaskState, Route, DeviceNode
    <3> QED  BY <1>1, <1>2, <1>3, <1>4, <2>1, <2>4, <3>1 DEF AddsSound
  <2>7. \A c, d : Joined(c, d, E) => Joined(c, d, F)
    BY <1>2, <2>3 DEF Joined
  <2>8. DropsSound(o)'
    <3>1. ASSUME NEW e \in task[o].del
          PROVE  /\ Joined(e[1].key, task[o].device, Edges(o))'
                 /\ e[2] \notin task[o].gone => \E f \in Edges(o)' : f[2] = e[2]
      <4>1. PICK c, d : c = e[1].key /\ d = task[o].device
        OBVIOUS
      <4>2. Joined(c, d, F)
        BY <1>2, <2>1, <2>7, <4>1 DEF DropsSound
      <4>3. Joined(e[1].key, task[o].device, Edges(o))'
        BY <1>1, <1>2, <4>1, <4>2 DEF Joined
      <4>4. e[2] \in task[o].locked
        BY <2>1 DEF DropsSound
      <4> QED  BY <2>1, <2>3, <4>3, <4>4 DEF DropsSound
    <3>2. ASSUME NEW n \in task[o].gone, NEW e \in Edges(o)'
          PROVE  e[2] # n
      <4>1. n \in task[o].locked
        BY <2>1 DEF DropsSound
      <4>2. CASE e \in Edges(o)
        BY <2>1, <4>2 DEF DropsSound
      <4>3. CASE e \in task[t].add
        BY <2>1, <2>2, <4>1, <4>3 DEF AddsSound
      <4> QED  BY <1>1, <4>2, <4>3 DEF Edges
    <3> QED  BY <1>1, <2>1, <3>1, <3>2 DEF DropsSound
  <2>9. Keeps(o)'
    <3>1. PICK d : d = task[o].device
      OBVIOUS
    <3>2. \A ip \in task[o].top.neighbors \ task[o].todo :
              \E e \in Edges(o) : e[1] \in task[o].locked /\ Leads(e, d, ip, S)
      BY <1>2, <2>1, <3>1 DEF Keeps
    <3>3. \A ip \in task[o].top.neighbors \ task[o].todo :
              \E e \in Edges(o)' : e[1] \in task[o].locked /\ Leads(e, d, ip, Z)'
      BY <1>4, <2>3, <3>2
    <3> QED  BY <1>1, <1>3, <3>1, <3>3 DEF Keeps
  <2> QED  BY <2>5, <2>6, <2>7, <2>8, <2>9
<1>10. \A c, d : Joined(c, d, edge) => Joined(c, d, edge)'
  BY <1>1 DEF Joined
<1>11. o \in Writing /\ JoinsOut(o, Edges(o)) => JoinsOut(o, Edges(o))'
  <2> SUFFICES ASSUME o \in Writing, JoinsOut(o, E)
               PROVE  JoinsOut(o, Edges(o))'
    BY <1>2
  <2>1. \A b \in task[o].before : task[b].device # task[o].device =>
            \A ip \in Adjacent(o, b) \ task[o].todo :
                SoleOwner(task[b].device, ip) => Joined(task[o].device, task[b].device, F)
    BY <1>9 DEF JoinsOut
  <2> QED  BY <1>1, <1>2, <1>5, <1>6, <2>1 DEF JoinsOut, Joined, Adjacent
<1>12. o \in Writing /\ JoinsIn(o, Edges(o)) => JoinsIn(o, Edges(o))'
  <2> SUFFICES ASSUME o \in Writing, JoinsIn(o, E)
               PROVE  JoinsIn(o, Edges(o))'
    BY <1>2
  <2>1. \A b \in task[o].before : task[b].device # task[o].device =>
            \A ip \in Adjacent(b, o) :
                SoleOwner(task[o].device, ip) => Joined(task[b].device, task[o].device, F)
    BY <1>9 DEF JoinsIn
  <2> QED  BY <1>1, <1>2, <1>5, <1>6, <2>1 DEF JoinsIn, Joined, Adjacent
<1>13. JoinsOut(o, edge) => JoinsOut(o, edge)'
  BY <1>1, <1>5, <1>6, <1>10 DEF JoinsOut, Joined, Adjacent
<1>14. JoinsIn(o, edge) => JoinsIn(o, edge)'
  BY <1>1, <1>5, <1>6, <1>10 DEF JoinsIn, Joined, Adjacent
<1>15. task[o].pc = "commit" => o \in Writing
  BY DEF Writing
<1> QED
  BY <1>1, <1>7, <1>8, <1>9, <1>11, <1>12, <1>13, <1>14, <1>15 DEF Sound

\* The graph after a commit.
LEMMA CommitGraph ==
    ASSUME IInv, NEW t \in Task, NEW findings \in BOOLEAN, commit(t, findings)
    PROVE  GraphSound' /\ Addressed' /\ AdjacencyKept'
<1>1. /\ node' = Nodes(t) /\ iface' = Ifaces(t) /\ edge' = Edges(t)
      /\ Committed' = Committed \cup {t} /\ t \in Writing /\ task[t].pc = "commit"
      /\ \A a \in Task : task'[a].device = task[a].device /\ task'[a].top = task[a].top
      /\ \A n \in node : n.kind = "device" => n \in node'
      /\ \A e \in edge : e[2].kind = "device" => e \in edge'
  BY CommitIs DEF Writing
<1>2. /\ Staged(t) /\ Anchored(t) /\ AddsSound(t) /\ DropsSound(t) /\ Keeps(t)
      /\ TypeOK /\ GraphSound /\ Addressed /\ AdjacencyKept /\ task[t].todo = {}
  BY <1>1 DEF IInv, Sound, Staged
<1>3. PICK S, Z : S = Committed /\ Z = S \cup {t}
  OBVIOUS
<1>4. Committed' = Z /\ Upon(t) = Z /\ S \subseteq Z /\ S \subseteq Task
  BY <1>1, <1>3 DEF Upon, Committed
<1>5. /\ \A e : Reported(e, S) \/ Reported(e, Z) => Reported(e, Z)'
      /\ \A c, ip : Owned(c, ip, S) \/ Owned(c, ip, Z) => Owned(c, ip, Z)'
      /\ \A e, c, ip : Leads(e, c, ip, S) \/ Leads(e, c, ip, Z) => Leads(e, c, ip, Z)'
  <2>1. \A a \in Z : task'[a].device = task[a].device /\ task'[a].top = task[a].top
    BY <1>1, <1>3, <1>4
  <2>2. /\ \A e : Reported(e, S) => Reported(e, Z)'
        /\ \A c, ip : Owned(c, ip, S) => Owned(c, ip, Z)'
        /\ \A e, c, ip : Leads(e, c, ip, S) => Leads(e, c, ip, Z)'
    BY <1>4, <2>1, Judgements
  <2>3. /\ \A e : Reported(e, Z) => Reported(e, Z)'
        /\ \A c, ip : Owned(c, ip, Z) => Owned(c, ip, Z)'
        /\ \A e, c, ip : Leads(e, c, ip, Z) => Leads(e, c, ip, Z)'
    BY <2>1, Judgements
  <2> QED  BY <2>2, <2>3
<1>6. \A c, ip : SoleOwner(c, ip)' => SoleOwner(c, ip)
  BY <1>1, <1>3, <1>4, SoleOwnerStays
<1>7. \A e \in edge : e[1].kind = "device"
  BY <1>2 DEF TypeOK, Route, DeviceNode
<1>8. GraphSound'
  <2>1. ASSUME NEW e \in edge'
        PROVE  e[1] \in node' /\ e[2] \in node' /\ Reported(e, Z)'
    <3>1. CASE e \in task[t].add
      BY <1>1, <1>2, <1>4, <1>5, <3>1 DEF AddsSound
    <3>2. CASE e \in edge \ task[t].del
      <4>1. e[1] \in node /\ e[2] \in node /\ Reported(e, S)
        BY <1>2, <1>3, <3>2 DEF GraphSound
      <4>2. e[2] \notin task[t].gone
        BY <1>2, <3>2 DEF DropsSound, Edges
      <4> QED  BY <1>1, <1>5, <1>7, <3>2, <4>1, <4>2 DEF Nodes
    <3> QED  BY <1>1, <3>1, <3>2 DEF Edges
  <2>2. ASSUME NEW n \in node', n.kind = "peer"
        PROVE  \E e \in edge' : e[2] = n
    <3>1. CASE n \in task[t].new
      BY <1>1, <1>2, <2>2, <3>1 DEF AddsSound, Edges
    <3>2. CASE n \in node \ task[t].gone
      <4>1. PICK e \in edge : e[2] = n
        BY <1>2, <2>2, <3>2 DEF GraphSound
      <4>2. CASE e \in task[t].del
        BY <1>1, <1>2, <3>2, <4>1, <4>2 DEF DropsSound
      <4>3. CASE e \notin task[t].del
        BY <1>1, <4>1, <4>3 DEF Edges
      <4> QED  BY <4>2, <4>3
    <3> QED  BY <1>1, <3>1, <3>2 DEF Nodes
  <2>3. ASSUME NEW i \in iface'
        PROVE  i[1] \in node' /\ (i[3] # NoIP => Owned(i[1].key, i[3], Z)')
    <3>1. CASE i \in iface
      <4>1. i[1] \in node /\ (i[3] # NoIP => Owned(i[1].key, i[3], S))
        BY <1>2, <1>3, <3>1 DEF GraphSound
      <4>2. i[1].kind = "device"
        BY <1>2, <3>1 DEF TypeOK, Interface, DeviceNode
      <4> QED  BY <1>1, <1>5, <4>1, <4>2
    <3>2. CASE i \in task[t].own
      <4>1. /\ i[1] \in Nodes(t) /\ i[1].key = task[t].device
            /\ i[3] # NoIP => i[3] \in ips(task[t].top)
        BY <1>2, <3>2 DEF Anchored, Self
      <4>2. i[3] # NoIP => Owned(i[1].key, i[3], Z)
        BY <1>3, <4>1 DEF Owned
      <4> QED  BY <1>1, <1>5, <4>1, <4>2
    <3> QED  BY <1>1, <3>1, <3>2 DEF Ifaces
  <2> QED  BY <1>4, <2>1, <2>2, <2>3 DEF GraphSound
<1>9. Addressed'
  <2> SUFFICES ASSUME NEW b \in Z, NEW ip \in ips(task[b].top),
                      NEW d, d = task[b].device, SoleOwner(d, ip)'
               PROVE  \E i \in iface' : i[1].key = d /\ i[3] = ip
    <3>1. \A a \in Z : task'[a].device = task[a].device /\ task'[a].top = task[a].top
      BY <1>1, <1>3, <1>4
    <3>2. ASSUME NEW b \in Z, NEW ip \in ips(task'[b].top),
                 SoleOwner(task[b].device, ip)'
          PROVE  \E i \in iface' : i[1].key = task'[b].device /\ i[3] = ip
      <4>1. PICK d : d = task[b].device
        OBVIOUS
      <4>2. SoleOwner(d, ip)'
        BY <3>1, <3>2, <4>1 DEF SoleOwner
      <4> QED  BY <3>1, <4>1, <4>2
    <3> QED  BY <1>4, <3>2 DEF Addressed
  <2>1. ip \in ips(task[t].top) <=> task[t].device = d
    BY <1>1, <1>3, <1>4 DEF SoleOwner
  <2>2. CASE ip \in ips(task[t].top)
    BY <1>1, <1>2, <2>1, <2>2 DEF Anchored, Ifaces, Self
  <2>3. CASE ip \notin ips(task[t].top)
    <3>1. b \in Committed /\ SoleOwner(d, ip)
      BY <1>3, <1>6, <2>3
    <3>2. PICK i \in iface : i[1].key = d /\ i[3] = ip
      BY <1>2, <3>1 DEF Addressed
    <3>3. i \notin task[t].old
      BY <1>2, <2>1, <2>3, <3>2 DEF Anchored
    <3> QED  BY <1>1, <3>2, <3>3 DEF Ifaces
  <2> QED  BY <2>2, <2>3
<1>10. AdjacencyKept'
  <2> SUFFICES ASSUME NEW a \in Z, NEW ip \in task[a].top.neighbors,
                      NEW d, d = task[a].device
               PROVE  \E e \in edge' : Leads(e, d, ip, Z)'
    BY <1>1, <1>3, <1>4 DEF AdjacencyKept, Leads, Owned
  <2>1. CASE a = t
    <3>1. PICK e \in Edges(t) : Leads(e, d, ip, Z)
      BY <1>2, <1>4, <2>1 DEF Keeps
    <3> QED  BY <1>1, <1>5, <3>1
  <2>2. CASE a # t
    <3>1. PICK e \in edge : Leads(e, d, ip, S)
      BY <1>2, <1>3, <2>2 DEF AdjacencyKept
    <3>2. CASE e \notin task[t].del
      BY <1>1, <1>5, <3>1, <3>2 DEF Edges
    <3>3. CASE e \in task[t].del
      <4>1. /\ e[2].kind = "peer" /\ e[2].key \in ips(task[t].top)
            /\ Joined(e[1].key, task[t].device, Edges(t))
        BY <1>2, <3>3 DEF DropsSound
      <4>2. e[1].key = d /\ ip \in ips(task[t].top)
        BY <3>1, <4>1 DEF Leads
      <4>3. PICK f \in Edges(t) : /\ f[1].key = d /\ f[2].kind = "device"
                                  /\ f[2].key = task[t].device
        BY <4>1, <4>2 DEF Joined
      <4>4. Leads(f, d, ip, Z)
        BY <1>3, <4>2, <4>3 DEF Leads, Owned
      <4> QED  BY <1>1, <1>5, <4>4
    <3> QED  BY <3>2, <3>3
  <2> QED  BY <2>1, <2>2
<1> QED  BY <1>8, <1>9, <1>10

\* It joined its device to its neighbours, and the lookup finds that committed.
LEMMA CommitSound ==
    ASSUME IInv, NEW t \in Task, NEW findings \in BOOLEAN, commit(t, findings)
    PROVE  IInv'
<1>1. /\ edge' = Edges(t) /\ t \notin Committed /\ Committed' = Committed \cup {t}
      /\ task[t].pc = "commit" /\ task'[t].pc \in {"radius", "clean"} /\ task'[t].todo = {}
      /\ \A o \in Task \ {t} : task'[o] = task[o]
      /\ \A a \in Task : /\ task'[a].device = task[a].device
                         /\ task'[a].top = task[a].top
                         /\ task'[a].before = task[a].before
      /\ TypeOK'
  BY CommitIs
<1>2. TypeOK /\ JoinsOut(t, Edges(t)) /\ JoinsIn(t, Edges(t)) /\ task[t].todo = {}
  BY <1>1 DEF IInv, Sound, Staged, Writing
<1>3. \A a \in Committed : task'[a].device = task[a].device /\ task'[a].top = task[a].top
  BY <1>1 DEF Committed
<1>4. Exclusive'
  <2>1. \A o \in Task : o \in Open' => o \in Open /\ task'[o] = task[o]
    BY <1>1 DEF Open
  <2>2. \A o \in Open' : o \in Task
    BY DEF Open
  <2> QED  BY <2>1, <2>2 DEF IInv, Exclusive
<1>5. Sound(t)'
  <2>1. PICK E : E = Edges(t)
    OBVIOUS
  <2>2. \A c, ip : SoleOwner(c, ip)' => SoleOwner(c, ip)
    BY <1>1, <1>3, SoleOwnerStays
  <2>3. \A b \in task[t].before : b \in Task
    BY <1>2 DEF TypeOK, Committed
  <2>4. JoinsOut(t, edge)'
    BY <1>1, <1>2, <2>1, <2>2, <2>3 DEF JoinsOut, Joined, Adjacent
  <2>5. JoinsIn(t, edge)'
    BY <1>1, <1>2, <2>1, <2>2, <2>3 DEF JoinsIn, Joined, Adjacent
  <2>6. Staged(t)'
    BY <1>1 DEF Staged
  <2> QED  BY <1>1, <2>4, <2>5, <2>6 DEF Sound, Writing
<1>6. \A o \in Task : Sound(o)'
  BY <1>5, CommitOthers
<1>7. MaxHops # 0 => RadiusHasNeighbours'
  <2>1. \A o \in Task : task'[o].pc = "answered" => task'[o] = task[o]
    BY <1>1
  <2>2. Committed \subseteq Committed' /\ (MaxHops # 0 => RadiusHasNeighbours)
    BY <1>1 DEF IInv
  <2> QED  BY <1>2, <1>3, <2>1, <2>2, RadiiStand
<1>8. GraphSound' /\ Addressed' /\ AdjacencyKept'
  BY CommitGraph
<1> QED  BY <1>1, <1>4, <1>6, <1>7, <1>8 DEF IInv

\* The device ends of the adjacencies of a device are in its blast radius.
LEMMA NextInRadius ==
    ASSUME TypeOK, GraphSound, MaxHops # 0, NEW d, NEW c, c # d,
           Joined(d, c, edge) \/ Joined(c, d, edge)
    PROVE  c \in blast_radius(d)
<1>1. PICK N : N = {n \in node : n.kind = "device" /\ n.key = d}
  OBVIOUS
<1>2. Hop(N, edge) \subseteq within(d)
  BY <1>1, TopologyConstants, WithinReaches
<1>3. \A e \in edge : e[1] \in node /\ e[2] \in node /\ e[1].kind = "device"
  BY DEF GraphSound, TypeOK, Route, DeviceNode
<1>4. CASE Joined(d, c, edge)
  <2>1. PICK e \in edge : e[1].key = d /\ e[2].kind = "device" /\ e[2].key = c
    BY <1>4 DEF Joined
  <2>2. e[2] \in Hop(N, edge)
    BY <1>1, <1>3, <2>1 DEF Hop
  <2> QED  BY <1>2, <2>1, <2>2 DEF blast_radius
<1>5. CASE Joined(c, d, edge)
  <2>1. PICK e \in edge : e[1].key = c /\ e[2].kind = "device" /\ e[2].key = d
    BY <1>5 DEF Joined
  <2>2. e[1] \in Hop(N, edge)
    BY <1>1, <1>3, <2>1 DEF Hop
  <2> QED  BY <1>2, <1>3, <2>1, <2>2 DEF blast_radius
<1> QED  BY <1>4, <1>5

\* A blast radius is of devices.
LEMMA RadiusTyped ==
    ASSUME TypeOK, GraphSound, NEW d
    PROVE  blast_radius(d) \subseteq Device
<1>1. PICK S, E, N : /\ S = {n \in node : n.kind = "device" /\ n.key = d}
                     /\ E = edge /\ N = node
  OBVIOUS
<1> DEFINE f == CHOOSE g : Hops(g, S, E, MaxHops)
<1>2. Hops(f, S, E, MaxHops)
  BY HopsExist, TopologyConstants
<1>3. within(d) = f[MaxHops]
  BY <1>1, <1>2 DEF within, Hops, Hop
<1> HIDE DEF f
<1>4. \A e \in E : e[1] \in N /\ e[2] \in N
  BY <1>1 DEF GraphSound
<1>5. f[MaxHops] \subseteq N
  BY <1>1, <1>2, <1>4, HopsStay, TopologyConstants
<1>6. \A n \in N : n.kind = "device" => n.key \in Device
  BY <1>1 DEF TypeOK, Node, DeviceNode, UnresolvedPeer
<1> QED  BY <1>3, <1>5, <1>6 DEF blast_radius

LEMMA ReadSound ==
    ASSUME IInv, NEW t \in Task, read_blast_radius(t)
    PROVE  IInv'
<1>1. PICK R : R = blast_radius(task[t].device)
  OBVIOUS
<1> DEFINE q == [task[t] EXCEPT !.pc = "answered", !.radius = R]
<1>2. /\ task[t] \in TaskState /\ task[t].pc = "radius" /\ TypeOK /\ GraphSound
      /\ task[t].device \in Device /\ task[t].before \subseteq Committed
      /\ JoinsOut(t, edge) /\ JoinsIn(t, edge) /\ task[t].todo = {}
  BY DEF read_blast_radius, IInv, TypeOK, Sound
<1>3. task' = [task EXCEPT ![t] = q] /\ UNCHANGED graph
  BY <1>1 DEF read_blast_radius
<1>4. /\ q.pc = "answered" /\ q.device = task[t].device /\ q.top = task[t].top
      /\ q.before = task[t].before /\ q.radius = R /\ q.todo = {}
  BY <1>2 DEF TaskState
<1>5. q \in TaskState
  <2>1. R \subseteq Device
    BY <1>1, <1>2, RadiusTyped
  <2> QED  BY <1>2, <2>1 DEF TaskState
<1> PICK k : k = q
  OBVIOUS
<1>6. task' = [task EXCEPT ![t] = k]
  BY <1>3
<1> HIDE DEF q
<1>7. \A o \in Task : task'[o] = IF o = t THEN k ELSE task[o]
  BY <1>2, <1>6 DEF TypeOK
<1>8. Committed' = Committed
  BY <1>2, <1>4, <1>7 DEF Committed
<1>9. /\ \A a \in Committed : task'[a].device = task[a].device /\ task'[a].top = task[a].top
      /\ \A a \in Task : task'[a].device = task[a].device /\ task'[a].top = task[a].top
  BY <1>4, <1>7 DEF Committed
<1>10. TypeOK'
  BY <1>2, <1>3, <1>4, <1>5, <1>6, <1>8, TaskTyped DEF graph, TypeOK
<1>11. Exclusive'
  <2>1. \A o \in Task : o \in Open' => o \in Open /\ task'[o] = task[o]
    BY <1>4, <1>7 DEF Open
  <2>2. \A o \in Open' : o \in Task
    BY DEF Open
  <2> QED  BY <2>1, <2>2 DEF IInv, Exclusive
<1>12. GraphSound' /\ Addressed' /\ AdjacencyKept'
  BY <1>3, <1>8, <1>9, GraphStands DEF IInv
<1>13. \A o \in Task : Sound(o)'
  <2>1. Sound(t)'
    BY <1>4, <1>7 DEF Sound, Staged, Writing
  <2>2. ASSUME NEW o \in Task, o # t
        PROVE  Sound(o)'
    <3>1. task'[o] = task[o] /\ Sound(o)
      BY <1>7, <2>2 DEF IInv
    <3> QED  BY <1>2, <1>3, <1>8, <1>9, <3>1, OthersStand
  <2> QED  BY <2>1, <2>2
<1>14. ASSUME MaxHops # 0
       PROVE  RadiusHasNeighbours'
  <2>1. \A c, ip : SoleOwner(c, ip)' => SoleOwner(c, ip)
    BY <1>8, <1>9, SoleOwnerStays
  <2> SUFFICES ASSUME NEW o \in Task, task'[o].pc = "answered", NEW b \in task'[o].before,
                      NEW c, NEW d, c = task[b].device, d = task[o].device, c # d,
                      c \notin task'[o].radius
               PROVE  /\ \A ip \in Adjacent(o, b) : ~SoleOwner(c, ip)
                      /\ \A ip \in Adjacent(b, o) : ~SoleOwner(d, ip)
    <3>1. \A o \in Task : \A b \in task'[o].before : b \in Task
      BY <1>10 DEF TypeOK, Committed
    <3> QED  BY <1>9, <2>1, <3>1 DEF RadiusHasNeighbours, Adjacent
  <2>2. CASE o = t
    <3>1. ~Joined(d, c, edge) /\ ~Joined(c, d, edge)
      <4>1. c \notin blast_radius(d)
        BY <1>1, <1>4, <1>7, <2>2
      <4> QED  BY <1>2, <1>14, <4>1, NextInRadius
    <3>2. b \in task[t].before
      BY <1>4, <1>7, <2>2
    <3> QED  BY <1>2, <2>2, <3>1, <3>2 DEF JoinsOut, JoinsIn
  <2>3. CASE o # t
    <3>1. task'[o] = task[o]
      BY <1>7, <2>3
    <3> QED  BY <1>14, <3>1 DEF IInv, RadiusHasNeighbours
  <2> QED  BY <2>2, <2>3
<1> QED  BY <1>10, <1>11, <1>12, <1>13, <1>14 DEF IInv

LEMMA InitSound == Init => IInv
<1> SUFFICES ASSUME Init
             PROVE  IInv
  OBVIOUS
<1>1. /\ node = {} /\ iface = {} /\ edge = {}
      /\ \A o \in Task : task[o] = Idle
  BY DEF Init
<1>2. \A o \in Task : task[o].pc = "idle"
  BY <1>1 DEF Idle
<1>3. TypeOK
  BY <1>1, <1>2, IdleTyped DEF Init, TypeOK, Idle
<1>4. Open = {} /\ Committed = {}
  BY <1>2 DEF Open, Committed
<1>5. \A o \in Task : Sound(o)
  <2>1. \A o \in Task : task[o].todo = {}
    BY <1>1 DEF Idle
  <2> QED  BY <1>2, <2>1 DEF Sound, Staged, Writing
<1> QED
  BY <1>1, <1>2, <1>3, <1>4, <1>5
  DEF IInv, Exclusive, GraphSound, Addressed, AdjacencyKept, RadiusHasNeighbours

LEMMA NextSound == IInv /\ [Next]_vars => IInv'
<1> SUFFICES ASSUME IInv, [Next]_vars
             PROVE  IInv'
  OBVIOUS
<1>1. CASE UNCHANGED vars
  <2>1. UNCHANGED graph /\ task' = task
    BY <1>1 DEF vars
  <2>2. UNCHANGED <<Committed, Open>>
    BY <2>1 DEF Committed, Open
  <2>3. TypeOK /\ TypeOK'
    BY <2>1, <2>2 DEF graph, IInv, TypeOK
  <2>4. Exclusive'
    BY <2>1, <2>2 DEF IInv, Exclusive
  <2>5. \A a \in Committed : task'[a].device = task[a].device /\ task'[a].top = task[a].top
    BY <2>1
  <2>6. GraphSound' /\ Addressed' /\ AdjacencyKept'
    BY <2>1, <2>2, <2>5, GraphStands DEF IInv
  <2>7. \A o \in Task : Sound(o)'
    BY <2>1, <2>2, <2>3, <2>5, OthersStand DEF IInv
  <2>8. MaxHops # 0 => RadiusHasNeighbours'
    BY <2>1, <2>2, <2>3, <2>5, RadiiStand DEF IInv
  <2> QED  BY <2>3, <2>4, <2>6, <2>7, <2>8 DEF IInv
<1>2. ASSUME NEW t \in Task, NEW d \in Device, NEW top \in Topologies[d], ingest(t, d, top)
      PROVE  IInv'
  BY <1>2, TopTyped, IngestSound DEF ingest
<1>3. ASSUME NEW t \in Task, write_topology(t)
      PROVE  IInv'
  BY <1>3, DeviceSound, NeighborSound, DoneSound, ReconcileSound, CommitSound
  DEF write_topology
<1>4. ASSUME NEW t \in Task, ingest_retries(t)
      PROVE  IInv'
  <2>1. /\ task[t].device \in Device /\ task[t].top \in Tops
        /\ task[t].pc \notin {"radius", "answered", "clean", "lost"}
    BY <1>4 DEF ingest_retries, Open, IInv, TypeOK, TaskState
  <2>2. PICK d, top : d = task[t].device /\ top = task[t].top
    OBVIOUS
  <2>3. /\ UNCHANGED graph
        /\ task' = [task EXCEPT ![t] = [Idle EXCEPT !.pc = "device", !.device = d,
                                                    !.top = top, !.before = Committed]]
    BY <1>4, <2>2 DEF ingest_retries
  <2> QED  BY <2>1, <2>2, <2>3, IngestSound
<1>5. ASSUME NEW t \in Task, graph_fails(t)
      PROVE  IInv'
  BY <1>5, FailureSound
<1>6. ASSUME NEW t \in Task, read_blast_radius(t)
      PROVE  IInv'
  BY <1>6, ReadSound
<1> QED  BY <1>1, <1>2, <1>3, <1>4, <1>5, <1>6 DEF Next

LEMMA Inductive == Spec => []IInv
BY InitSound, NextSound, PTL DEF Spec

-----------------------------------------------------------------------------
(* The theorems.                                                           *)

\* No adjacency a committed evaluation reported is lost, however transactions overlap,
\* roll back and run again.
THEOREM AdjacenciesAreKept == Spec => []AdjacencyIsKept
<1>1. IInv => AdjacencyIsKept
  BY DEF IInv, AdjacencyKept, Leads, Owned, AdjacencyIsKept, Owner
<1> QED  BY <1>1, Inductive, PTL

\* Every adjacency between devices was reported by the first for an address of the second,
\* and no placeholder outlives the adjacencies that lead to it.
THEOREM AdjacenciesAreReported == Spec => []AdjacencyIsReported
<1>1. IInv => AdjacencyIsReported
  BY DEF IInv, GraphSound, Reported, AdjacencyIsReported
<1> QED  BY <1>1, Inductive, PTL

\* A blast radius holds every device next to it that was evaluated before, for any limit
\* of at least one hop; the configured default is three.
THEOREM RadiiHaveNeighbours ==
    ASSUME MaxHops # 0
    PROVE  Spec => []RadiusHasNeighbours
<1>1. IInv => RadiusHasNeighbours
  BY MaxHops # 0 DEF IInv
<1> QED  BY <1>1, Inductive, PTL

=============================================================================
