------------------------------ MODULE Topology ------------------------------
(***************************************************************************)
(* The topology graph the compliance workers share in Neo4j                *)
(* (graph_client.py), as evaluations write and read it (evaluator.py).     *)
(*                                                                         *)
(* ingest runs its statements in one transaction.  A step is a statement:  *)
(* it reads what is committed and what its own transaction wrote, and      *)
(* locks, until the transaction ends, the nodes it writes and both ends of *)
(* the relationships it adds or deletes.  No constraint makes a device id  *)
(* or the ip of a placeholder unique, so two transactions that MERGE the   *)
(* same new node make two.                                                 *)
(***************************************************************************)
EXTENDS Naturals, FiniteSets

CONSTANTS
    Device,     \* config_sha256 of the configurations
    Name,       \* interface names
    IP,         \* addresses
    NoIP,       \* the ip_address of an interface without one
    Topologies, \* what the parser may make of the topology of each device
    Task,       \* evaluations; each is used once
    Nothing,    \* the device of a task that has not started
    MaxHops,    \* GRAPH_BLAST_RADIUS_MAX_HOPS
    MaxBusy     \* bound: evaluations in progress at a time

\* The interfaces by name, and the neighbor_ip of the routing neighbours.
TopologyOf(interfaces, neighbors) == [interfaces |-> interfaces, neighbors |-> neighbors]

IsTopology(top) ==
    /\ top = TopologyOf(top.interfaces, top.neighbors)
    /\ top.interfaces \in SUBSET (Name \X (IP \cup {NoIP}))
    /\ \A i \in top.interfaces, j \in top.interfaces : i[1] = j[1] => i = j
    /\ top.neighbors \in SUBSET IP

ASSUME TopologyConstants ==
    /\ DOMAIN Topologies = Device
    /\ \A d \in Device : \A top \in Topologies[d] : IsTopology(top)
    /\ NoIP \notin IP
    /\ Nothing \notin Device
    /\ MaxHops \in Nat
    /\ MaxBusy \in Nat

VARIABLES
    node,    \* the committed Device and UnresolvedPeer nodes
    iface,   \* HAS_INTERFACE: <<device node, interface name, ip_address>>
    edge,    \* ROUTES_TO: <<device node, node>>
    task     \* the evaluations

graph == <<node, iface, edge>>
vars == <<graph, task>>

-----------------------------------------------------------------------------
(* State.                                                                  *)

\* by tells apart nodes that two transactions made for one key.
DeviceNode == [kind : {"device"}, key : Device, by : Task]
UnresolvedPeer == [kind : {"peer"}, key : IP, by : Task]
Node == DeviceNode \cup UnresolvedPeer

Idle == [pc |-> "idle", device |-> Nothing, top |-> TopologyOf({}, {}), todo |-> {},
         new |-> {}, gone |-> {}, own |-> {}, old |-> {}, add |-> {}, del |-> {},
         locked |-> {}, before |-> {}, radius |-> {}]

Open == {t \in Task : task[t].pc \in {"device", "neighbors", "reconcile", "commit"}}
Busy == Open \cup {t \in Task : task[t].pc = "radius"}
Committed == {t \in Task : task[t].pc \in {"radius", "answered", "clean", "lost"}}

\* What t's transaction sees.
Nodes(t) == (node \ task[t].gone) \cup task[t].new
Ifaces(t) == (iface \ task[t].old) \cup task[t].own
Edges(t) == (edge \ task[t].del) \cup task[t].add

Self(t) == {n \in Nodes(t) : n.kind = "device" /\ n.key = task[t].device}
Peers(t, ip) == {n \in Nodes(t) : n.kind = "peer" /\ n.key = ip}
Ends(es) == {e[1] : e \in es} \cup {e[2] : e \in es}
Free(t, ns) == \A o \in Open \ {t} : task[o].locked \cap ns = {}

ips(top) == {i[2] : i \in top.interfaces} \ {NoIP}
names(top) == {i[1] : i \in top.interfaces}

Init ==
    /\ node = {} /\ iface = {} /\ edge = {}
    /\ task = [t \in Task |-> Idle]

-----------------------------------------------------------------------------
(* evaluate_baseline up to the graph, and _write_topology.                 *)

ingest(t, d, top) ==
    /\ task[t].pc = "idle" /\ Cardinality(Busy) < MaxBusy
    /\ top \in Topologies[d]
    /\ task' = [task EXCEPT ![t] = [Idle EXCEPT !.pc = "device", !.device = d, !.top = top,
                                                !.before = Committed]]
    /\ UNCHANGED graph

\* The interfaces of a topology, on each of the nodes.
interfaces_on(ns, top) == {<<n, i[1], i[2]>> : n \in ns, i \in top.interfaces}

\* MERGE the device, and every interface on it.
merge_device(t) ==
    LET self == IF Self(t) = {} THEN {[kind |-> "device", key |-> task[t].device, by |-> t]}
                                ELSE Self(t)
        top == task[t].top
    IN  /\ task[t].pc = "device"
        /\ Free(t, self)
        /\ task' = [task EXCEPT
              ![t].pc = "neighbors",
              ![t].todo = top.neighbors,
              ![t].new = self \ node,
              ![t].locked = self,
              ![t].old = {i \in iface : i[1] \in self /\ i[2] \in names(top)},
              ![t].own = interfaces_on(self, top)]
        /\ UNCHANGED graph

\* The devices that own an interface with this address.
owners(t, ip) == {i[1] : i \in {x \in Ifaces(t) : x[3] = ip}}

\* Where an adjacency with the address leads: its owners, or else a placeholder.
peers_of(t, ip) ==
    CASE owners(t, ip) # {} -> owners(t, ip)
      [] owners(t, ip) = {} /\ Peers(t, ip) # {} -> Peers(t, ip)
      [] OTHER -> {[kind |-> "peer", key |-> ip, by |-> t]}

merge_neighbor(t, ip) ==
    LET peers == peers_of(t, ip)
        added == (Self(t) \X peers) \ Edges(t)
    IN  /\ task[t].pc = "neighbors" /\ ip \in task[t].todo
        /\ Free(t, Ends(added))
        /\ task' = [task EXCEPT ![t].todo = @ \ {ip},
                                ![t].new = @ \cup (peers \ node),
                                ![t].add = @ \cup added,
                                ![t].locked = @ \cup Ends(added)]
        /\ UNCHANGED graph

neighbors_done(t) ==
    /\ task[t].pc = "neighbors" /\ task[t].todo = {}
    /\ task' = [task EXCEPT ![t].pc = IF ips(task[t].top) = {} THEN "commit" ELSE "reconcile"]
    /\ UNCHANGED graph

\* MUTANT: whatever the placeholder's address.
parked_anywhere(t) == {e \in Edges(t) : e[2].kind = "peer" /\ e[1].key # task[t].device}

\* The adjacencies of other devices parked on a placeholder of one of t's addresses.
parked(t) == {e \in Edges(t) : /\ e[2].kind = "peer" /\ e[2].key \in ips(task[t].top)
                               /\ e[1].key # task[t].device}

nowhere(t) == {}     \* MUTANT: the placeholder is dropped with its adjacencies

\* They are redirected to t's device, and a placeholder nothing leads to is dropped.
redirected(t) == {<<e[1], n>> : e \in parked(t), n \in Self(t)}

reconcile(t) ==
    LET added == redirected(t) \ Edges(t)
        left == Edges(t) \ parked(t)
        dropped == {e[2] : e \in parked(t)} \ {e[2] : e \in left}
    IN  /\ task[t].pc = "reconcile"
        /\ Free(t, Ends(parked(t)) \cup Ends(added))
        /\ task' = [task EXCEPT ![t].pc = "commit",
                                ![t].add = (@ \ parked(t)) \cup added,
                                ![t].del = @ \cup (parked(t) \cap edge),
                                ![t].new = @ \ dropped,
                                ![t].gone = @ \cup (dropped \cap node),
                                ![t].locked = @ \cup Ends(parked(t)) \cup Ends(added)]
        /\ UNCHANGED graph

\* The transaction commits; a device with findings goes on to its blast radius.
commit(t, findings) ==
    /\ task[t].pc = "commit"
    /\ node' = Nodes(t) /\ iface' = Ifaces(t) /\ edge' = Edges(t)
    /\ task' = [task EXCEPT ![t] = [Idle EXCEPT
                    !.pc = IF findings THEN "radius" ELSE "clean", !.device = task[t].device,
                    !.top = task[t].top, !.before = task[t].before]]

\* A deadlock or another transient error: the transaction is rolled back and
\* execute_write runs it again,
ingest_retries(t) ==
    /\ t \in Open
    /\ task' = [task EXCEPT ![t] = [Idle EXCEPT !.pc = "device", !.device = task[t].device,
                                                !.top = task[t].top, !.before = Committed]]
    /\ UNCHANGED graph

\* or gives up; the evaluation goes on without the graph, as it does when the
\* blast radius cannot be read.
graph_fails(t) ==
    /\ t \in Busy
    /\ task' = [task EXCEPT ![t] = [Idle EXCEPT
                    !.pc = IF t \in Open THEN "failed" ELSE "lost", !.device = task[t].device,
                    !.top = task[t].top, !.before = task[t].before]]
    /\ UNCHANGED graph

-----------------------------------------------------------------------------
(* Reads.                                                                  *)

\* The nodes within k adjacencies of a device, in either direction.
within(d) ==
    LET step[k \in 0 .. MaxHops] ==
            IF k = 0 THEN {n \in node : n.kind = "device" /\ n.key = d}
            ELSE step[k - 1] \cup {e[1] : e \in {x \in edge : x[2] \in step[k - 1]}}
                             \cup {e[2] : e \in {x \in edge : x[1] \in step[k - 1]}}
    IN  step[MaxHops]

\* MUTANT: ROUTES_TO is followed forwards only.
successors_only(d) == {e[2].key : e \in {x \in edge : x[1].key = d /\ x[2].kind = "device"}}

blast_radius(d) == {n.key : n \in {m \in within(d) : m.kind = "device"}} \ {d}

read_blast_radius(t) ==
    /\ task[t].pc = "radius"
    /\ task' = [task EXCEPT ![t].pc = "answered", ![t].radius = blast_radius(task[t].device)]
    /\ UNCHANGED graph

-----------------------------------------------------------------------------
write_topology(t) ==
    \/ merge_device(t)
    \/ \E ip \in IP : merge_neighbor(t, ip)
    \/ neighbors_done(t)
    \/ reconcile(t)
    \/ \E findings \in BOOLEAN : commit(t, findings)

Next ==
    \/ \E t \in Task, d \in Device : \E top \in Topologies[d] : ingest(t, d, top)
    \/ \E t \in Task : write_topology(t) \/ ingest_retries(t) \/ graph_fails(t)
    \/ \E t \in Task : read_blast_radius(t)

Spec == Init /\ [][Next]_vars

-----------------------------------------------------------------------------
(* Properties.                                                             *)

\* The address of an interface b reported and of a neighbour a reported.
Adjacent(a, b) == ips(task[b].top) \cap task[a].top.neighbors

\* Some device was seen with this address.
Owner(d, ip) == \E b \in Committed : task[b].device = d /\ ip \in ips(task[b].top)

\* No adjacency a committed evaluation reported is lost, whatever placeholders other
\* evaluations redirect or drop at the same time: it leads to a device that was seen
\* with the address or to the address's placeholder.
AdjacencyIsKept ==
    \A a \in Committed : \A ip \in task[a].top.neighbors :
        \E e \in edge : /\ e[1].key = task[a].device
                        /\ \/ e[2].kind = "peer" /\ e[2].key = ip
                           \/ e[2].kind = "device" /\ Owner(e[2].key, ip)

\* The graph invents no adjacency: one between two devices was reported by the first, for
\* an address of the second; and a placeholder is there because some adjacency needs it.
AdjacencyIsReported ==
    /\ \A e \in edge : e[2].kind = "device" =>
           \E a \in Committed, b \in Committed :
               /\ task[a].device = e[1].key /\ task[b].device = e[2].key
               /\ Adjacent(a, b) # {}
    /\ \A n \in node : n.kind = "peer" => \E e \in edge : e[2] = n

\* Exactly one device is ever seen with the address, and always.
SoleOwner(d, ip) == \A c \in Committed : ip \in ips(task[c].top) <=> task[c].device = d

\* An evaluation that gets its blast radius gets every device next to it whose evaluation
\* was over when its own transaction began, in whichever order and in whichever direction
\* the adjacency was reported. This is what placeholders are redirected for.
RadiusHasNeighbours ==
    \A t \in Task : task[t].pc = "answered" =>
        \A b \in task[t].before : task[b].device # task[t].device =>
            \/ task[b].device \in task[t].radius
            \/ /\ \A ip \in Adjacent(t, b) : ~SoleOwner(task[b].device, ip)
               /\ \A ip \in Adjacent(b, t) : ~SoleOwner(task[t].device, ip)

=============================================================================
