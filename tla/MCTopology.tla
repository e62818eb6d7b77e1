----------------------------- MODULE MCTopology -----------------------------
(***************************************************************************)
(* A small fleet: two routers that name each other, and a third that names *)
(* one of them and that the parser may also see with its address.          *)
(***************************************************************************)
EXTENDS Topology, TLC

CONSTANTS d1, d2, d3, eth, i1, i2, i3

MCTopologies ==
    (d1 :> {TopologyOf({<<eth, i1>>}, {i2})})
        @@ (d2 :> {TopologyOf({<<eth, i2>>}, {i1, i3})})
        @@ (d3 :> {TopologyOf({<<eth, i3>>}, {i2}), TopologyOf({<<eth, NoIP>>}, {i1})})

TaskSymmetry == Permutations(Task)

=============================================================================
