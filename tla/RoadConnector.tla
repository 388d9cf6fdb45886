---------------------------- MODULE RoadConnector ---------------------------
(***************************************************************************)
(* connect_road_components: lines whose ends are within the node tolerance *)
(* form components, and the shortest connectors between components, taken  *)
(* in order of length, join them into as few networks as they can.         *)
(*                                                                         *)
(* The lines are those the road repairer has left, so that both work on    *)
(* the plane of RoadRepair.                                                *)
(***************************************************************************)
EXTENDS RoadRepair, SequencesExt

CONSTANT Connections    \* the configurations: [node, ceiling], ceiling None for no maximum

VARIABLES
    connection,     \* the configuration, None before the call
    candidates,     \* connectors still to be considered: <<distance, left, right>>
    forest,         \* component -> the representative of its tree
    connectors      \* the connectors taken, None before the call

connectVars == <<connection, candidates, forest, connectors>>

\* The lines that have a length, by their numbers.
Lengthy == {k \in DOMAIN repaired : HasLength(repaired[k])}
EndsOf(line) == {line[1], line[Len(line)]}
Near(k, j, node) == \E p \in EndsOf(repaired[k]), q \in EndsOf(repaired[j]) : Dist(p, q) <= node

\* No edge leaves the set.
Closed(set, edges) == \A edge \in edges : edge \subseteq set \/ edge \cap set = {}

\* The blocks that edges between nodes make of them: the least sets no edge leaves.
Block(n, nodes, edges) ==
    {m \in nodes : \A set \in SUBSET nodes : n \in set /\ Closed(set, edges) => m \in set}

Blocks(nodes, edges) == {Block(n, nodes, edges) : n \in nodes}

\* _component_ids: the lines of every component.
ComponentIds(node) ==
    Blocks(Lengthy, {{p[1], p[2]} : p \in {p \in Lengthy \X Lengthy : Near(p[1], p[2], node)}})

\* Components, named by their first lines, with the places they cover.
Components(c) ==
    LET blocks == ComponentIds(c.node)
    IN [n \in {Min(b) : b \in blocks} |->
           UNION {Covered(repaired[k]) : k \in CHOOSE b \in blocks : n \in b}]

Shortest(s, t) == Min({Dist(p, q) : p \in s, q \in t})

\* Pairs farther apart than the node tolerance and no farther than the ceiling.
Eligible(parts, c) ==
    LET pairs == {<<Shortest(parts[left], parts[right]), left, right>> : left, right \in DOMAIN parts}
    IN {p \in pairs :
           /\ p[2] < p[3]
           /\ p[1] > c.node
           /\ c.ceiling # None => p[1] <= c.ceiling}

Before(c, d) ==
    \/ c[1] < d[1]
    \/ c[1] = d[1] /\ c[2] < d[2]
    \/ c[1] = d[1] /\ c[2] = d[2] /\ c[3] < d[3]

ConnectInit ==
    /\ connection = None
    /\ candidates = {}
    /\ forest = <<>>
    /\ connectors = None

\* The lines of a finished repair are given to the connector.
Connect ==
    /\ exit = "ok"
    /\ connectors = None
    /\ connection' \in Connections
    /\ LET parts == Components(connection')
       IN /\ candidates' = Eligible(parts, connection')
          /\ forest' = [n \in DOMAIN parts |-> n]
    /\ connectors' = {}
    /\ UNCHANGED <<roadVars, fileVars>>

Enough == Cardinality(connectors) = Cardinality(DOMAIN forest) - 1

\* _UnionFind.union
UnionOfOne(left, right) == [forest EXCEPT ![right] = forest[left]]

Union(left, right) ==
    [n \in DOMAIN forest |-> IF forest[n] = forest[right] THEN forest[left] ELSE forest[n]]

\* One candidate: a connector when it joins two trees.
Consider ==
    /\ connectors # None
    /\ candidates # {}
    /\ ~Enough
    /\ LET c == CHOOSE c \in candidates : \A d \in candidates \ {c} : Before(c, d)
       IN /\ IF forest[c[2]] = forest[c[3]] THEN UNCHANGED <<forest, connectors>>
             ELSE /\ forest' = Union(c[2], c[3])
                  /\ connectors' = connectors \cup {c}
          /\ candidates' = candidates \ {c}
    /\ UNCHANGED <<connection, roadVars, fileVars>>

Connected == connectors # None /\ (candidates = {} \/ Enough)

Remaining == Cardinality(Range(forest))

ConnectNext == Connect \/ Consider

(***************************************************************************)
(* Properties                                                              *)
(***************************************************************************)
Joined(edges) == Blocks(DOMAIN forest, {{c[2], c[3]} : c \in edges})

\* The sum of the lengths of connectors, as the number of their units.
Length(edges) == Cardinality(UNION {{c} \X (1..c[1]) : c \in edges})

\* Components are joined by the connectors exactly when the eligible pairs join
\* them, as the count of remaining networks says; there is one connector fewer
\* for every network that is gone, and no other choice of connectors that joins
\* the same components is shorter.
NetworkConnected ==
    Connected =>
        LET possible == Eligible(Components(connection), connection)
            networks == Joined(possible)
        IN /\ connectors \subseteq possible
           /\ Joined(connectors) = networks
           /\ Remaining = Cardinality(networks)
           /\ Cardinality(connectors) = Cardinality(DOMAIN forest) - Remaining
           /\ \A other \in SUBSET possible :
                  Joined(other) = networks => Length(connectors) <= Length(other)
=============================================================================
