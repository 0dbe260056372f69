----------------------------- MODULE MeshGraph -----------------------------
(***************************************************************************)
(* What a topology snapshot is reduced to (ingest/topology.py) and the     *)
(* route depth of each device that prices its unicasts (capacity/hops.py). *)
(* A raw link is one row of a neighbour table: target heard source at some *)
(* quality, and the rows of target's routing table that go through it.     *)
(* The rows come in any order; the search takes peers in any order.        *)
(***************************************************************************)
EXTENDS Integers, FiniteSets, FiniteSetsExt, Sequences, Functions

CONSTANTS
    None,
    Nodes,       \* the devices of the map
    Links,       \* the rows there may be: source, target, and the next hop of
                 \* an active route through it, or None; ends may be unknown to the map
    Registries,  \* what the registry may know as the coordinator's address
    Coordinator, \* the node the map types as the coordinator
    Name,        \* friendly name of each node
    Qualities, WEAK_LINK_LQI,
    MaxRows      \* bound of the model

\* A map names one of its devices the coordinator; None is a value of its own.
GraphAssumption ==
    /\ IsFiniteSet(Nodes) /\ Coordinator \in Nodes
    /\ Qualities \subseteq Nat /\ None \notin Nat
    /\ None \notin Seq(Nodes)

VARIABLES
    rows,        \* the rows read so far
    edges,       \* graph: edge -> worst quality, as far as known
    degree,      \* graph: edges of each node
    routesVia,   \* graph: active routes through each node
    tableDegree, \* summarize: rows that name each node
    registry,    \* the coordinator the registry knew at the search
    depths,      \* depths_by_ieee, of the nodes it has reached
    queue        \* its queue; None before the search

vars == <<rows, edges, degree, routesVia, tableDegree, registry, depths, queue>>

Init ==
    /\ rows = {} /\ edges = << >>
    /\ degree = [n \in Nodes |-> 0] /\ routesVia = [n \in Nodes |-> 0]
    /\ tableDegree = [n \in Nodes |-> 0]
    /\ registry = None
    /\ depths = << >> /\ queue = None

-----------------------------------------------------------------------------

\* graph: one edge for each pair, at the worst quality that is known of it.
V_LastQuality(e, lqi) == lqi
Worst(e, lqi) ==
    IF lqi # None /\ (edges[e] = None \/ lqi < edges[e]) THEN lqi ELSE edges[e]

Read(link, lqi) ==
    LET e == {link.source, link.target}
        inside == e \subseteq Nodes /\ link.source # link.target
    IN /\ queue = None /\ Cardinality(rows) < MaxRows
       /\ \A r \in rows : r.link # link
       /\ rows' = rows \cup {[link |-> link, lqi |-> lqi]}
       /\ routesVia' = [n \in Nodes |-> routesVia[n] + (IF n = link.hop THEN 1 ELSE 0)]
       /\ edges' = IF ~inside THEN edges
                   ELSE [d \in DOMAIN edges \cup {e} |->
                           IF d # e THEN edges[d]
                           ELSE IF e \in DOMAIN edges THEN Worst(e, lqi) ELSE lqi]
       /\ degree' = [n \in Nodes |->
             degree[n] + (IF inside /\ e \notin DOMAIN edges /\ n \in e THEN 1 ELSE 0)]
       /\ tableDegree' = [n \in Nodes |->
             tableDegree[n] + (IF n = link.source THEN 1 ELSE 0)
                            + (IF n = link.target THEN 1 ELSE 0)]
       /\ UNCHANGED <<registry, depths, queue>>

\* summarize's weak links: rows, not edges.
WeakLinks == {r \in rows : r.lqi # None /\ r.lqi < WEAK_LINK_LQI}

-----------------------------------------------------------------------------

\* depths_by_ieee: the registry's coordinator if the map has it.
Root == IF registry \in Nodes THEN registry ELSE Coordinator

Peers(n) == {m \in Nodes : {n, m} \in DOMAIN edges /\ n # m}

Search ==
    /\ queue = None
    /\ registry' \in Registries
    /\ depths' = [n \in {Root'} |-> 0] /\ queue' = <<Root'>>
    /\ UNCHANGED <<rows, edges, degree, routesVia, tableDegree>>

Beyond(n) == depths[n] + 1

\* The peers of one node are queued in the order of a set of strings.
Visit ==
    /\ queue \notin {None, << >>}
    /\ LET found == Peers(queue[1]) \ DOMAIN depths
       IN \E order \in {f \in [1..Cardinality(found) -> found] : IsInjective(f)} :
            /\ queue' = Tail(queue) \o order
            /\ depths' = [n \in DOMAIN depths \cup found |->
                            IF n \in found THEN Beyond(queue[1]) ELSE depths[n]]
    /\ UNCHANGED <<rows, edges, degree, routesVia, tableDegree, registry>>

\* depths_by_name: the nearer of two devices of a name; the root is no target.
Named(name) == {n \in DOMAIN depths : Name[n] = name /\ depths[n] # 0}
DepthByName == [name \in {Name[n] : n \in {m \in DOMAIN depths : depths[m] # 0}} |->
                  Min({depths[n] : n \in Named(name)})]

Next ==
    \/ \E link \in Links, lqi \in Qualities \cup {None} : Read(link, lqi)
    \/ Search \/ Visit

Spec == Init /\ [][Next]_vars

-----------------------------------------------------------------------------

TypeOK ==
    /\ DOMAIN edges \subseteq SUBSET Nodes /\ DOMAIN depths \subseteq Nodes
    /\ \A e \in DOMAIN edges : Cardinality(e) = 2
    /\ Cardinality(WeakLinks) <= Cardinality(rows)

\* The graph is that of the rows in any order (topology.py:95-106): an edge for
\* each pair of nodes with a row in either direction, at the worst quality of
\* both, each counted once in the degrees of its ends, twice if both reported
\* it in the summary's; and each active route counts for its next hop.
GraphOfRows ==
    LET of(e) == {r \in rows : {r.link.source, r.link.target} = e}
        lqis(e) == {r.lqi : r \in of(e)} \ {None}
    IN /\ DOMAIN edges = {e \in SUBSET Nodes : Cardinality(e) = 2 /\ of(e) # {}}
       /\ \A e \in DOMAIN edges : edges[e] = IF lqis(e) = {} THEN None ELSE Min(lqis(e))
       /\ \A n \in Nodes :
            /\ degree[n] = Cardinality({e \in DOMAIN edges : n \in e})
            /\ degree[n] <= tableDegree[n]
            /\ routesVia[n] = Cardinality({r \in rows : r.link.hop = n})

\* Nodes within k edges of the root.
Within[k \in 0..Cardinality(Nodes)] ==
    IF k = 0 THEN {Root} ELSE Within[k - 1] \cup UNION {Peers(n) : n \in Within[k - 1]}

\* The depths are lower bounds of the real routes (hops.py:8-14): the fewest
\* edges from the root, for every node that has a path to it and no other; and
\* a name costs no more than any device that bears it.
DepthsShortest ==
    queue = << >> =>
      /\ DOMAIN depths = Within[Cardinality(Nodes)]
      /\ \A n \in DOMAIN depths :
           /\ n \in Within[depths[n]]
           /\ depths[n] > 0 => n \notin Within[depths[n] - 1]
           /\ n # Root => DepthByName[Name[n]] <= depths[n]

=============================================================================
