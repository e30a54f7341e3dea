------------------------------ MODULE RoadMap ------------------------------
(***************************************************************************)
(* mac_relay: a map of roads.  The filter keeps the roads of a document, and *)
(* the importer turns them into a graph: a vertex for each place, known by   *)
(* its coordinates printed with seven decimals, and an edge for each two     *)
(* neighbours on a road.  One action per round of the importer's loops.      *)
(***************************************************************************)
EXTENDS Integers, Sequences
LOCAL INSTANCE SequencesExt

CONSTANTS
  Points,     \* coordinates as they are in the document, some numbers
  Grain,      \* so many of them are the same once printed
  MaxFeatures, MaxPoints      \* bounds of the model

ASSUME MapAssumption ==
  /\ Points \subseteq Nat /\ Grain \in Nat \ {0}
  /\ MaxFeatures \in Nat /\ MaxPoints \in Nat

VARIABLES
  features,   \* the roads that are left after the filter
  at,         \* the loops: the road, and the point on it; 0 before and after
  nodes,      \* nodes_, in their order
  ids,        \* coordinate_id_bimap, from the printed place to its number
  edges,      \* edges_, two numbers each
  roads,      \* roads_
  graph       \* map_: its vertices, and its edges with their road

mapVars == <<features, at, nodes, ids, edges, roads, graph>>

NoMap == [vertices |-> <<>>, edges |-> <<>>]
Beyond == 0                 \* a Road that is read past the end of roads_
Feature == [osm_id : {1, 2}, highway : BOOLEAN,
            line : UNION {[1 .. n -> Points] : n \in 1 .. MaxPoints}]
Place(p) == p \div Grain    \* make_coordinate_string

MapInit ==
  /\ features = <<>> /\ at = [stage |-> "filter", road |-> 0, point |-> 0]
  /\ nodes = <<>> /\ ids = <<>> /\ edges = <<>> /\ roads = <<>> /\ graph = NoMap

(* filter.cpp                                                                *)
Filter ==
  /\ at.stage = "filter"
  /\ \E d \in UNION {[1 .. n -> Feature] : n \in 0 .. MaxFeatures} :
       features' = SelectSeq(d, LAMBDA f : f.highway)
  /\ at' = [at EXCEPT !.stage = "import"]
  /\ UNCHANGED <<nodes, ids, edges, roads, graph>>

-----------------------------------------------------------------------------
NextRoad ==
  /\ at.stage = "import" /\ at.point = 0 /\ at.road < Len(features)
  /\ at' = [at EXCEPT !.road = @ + 1, !.point = 1]
  /\ roads' = Append(roads, features[at.road + 1].osm_id)
  /\ UNCHANGED <<features, nodes, ids, edges, graph>>

(* A place that is not known gets the next number: places, at most two.      *)
Fresh(ps) == SelectSeq(ps, LAMBDA p : Place(p) \notin DOMAIN ids)
Once(ps)  == IF Len(ps) = 2 /\ Place(ps[1]) = Place(ps[2]) THEN <<ps[1]>> ELSE ps
Numbered(ps) ==
  LET new == Once(Fresh(ps))
  IN  /\ nodes' = nodes \o new
      /\ ids' = [q \in DOMAIN ids \cup {Place(new[i]) : i \in DOMAIN new} |->
                   IF q \in DOMAIN ids THEN ids[q]
                   ELSE Len(nodes) - 1 + CHOOSE i \in DOMAIN new : Place(new[i]) = q]

(* A round at a point: it and the next one are numbered and joined; at the   *)
(* last point there is no next one, and the road ends.                       *)
Line == features[at.road].line
RoundTo(next) ==
  LET point == at.point
      last == point = Len(Line)
      both == IF last THEN <<Line[point]>> ELSE <<Line[point], Line[point + 1]>>
  IN  /\ Numbered(both)
      /\ edges' = IF last THEN edges
                  ELSE Append(edges, <<ids'[Place(both[1])], ids'[Place(both[2])]>>)
      /\ at' = [at EXCEPT !.point =
                  IF last \/ next > Len(Line) THEN 0 ELSE next]

RoundSkips ==                       \* wrong: the iterator is not set back
  /\ at.stage = "import" /\ at.point > 0 /\ RoundTo(at.point + 2)
  /\ UNCHANGED <<features, roads, graph>>
Round ==
  /\ at.stage = "import" /\ at.point > 0 /\ RoundTo(at.point + 1)
  /\ UNCHANGED <<features, roads, graph>>

(* The graph: vertex i is the node whose place has number i; edge k gets the *)
(* k-th road, although there is one for each road and not for each edge.     *)
Assemble ==
  /\ at.stage = "import" /\ at.point = 0 /\ at.road = Len(features)
  /\ at' = [at EXCEPT !.stage = "done"]
  /\ graph' =
       [vertices |-> [i \in 1 .. Len(nodes) |->
          LET place == CHOOSE q \in DOMAIN ids : ids[q] = i - 1
          IN  nodes[CHOOSE n \in DOMAIN nodes : Place(nodes[n]) = place]],
        edges |-> [k \in DOMAIN edges |->
          [ends |-> edges[k], road |-> IF k <= Len(roads) THEN roads[k] ELSE Beyond]]]
  /\ UNCHANGED <<features, nodes, ids, edges, roads>>

MapNext == Filter \/ NextRoad \/ Round \/ Assemble
MapSpec == MapInit /\ [][MapNext]_mapVars

-----------------------------------------------------------------------------
(* The map that main builds (importer.cpp:101-198) has a vertex for each     *)
(* place of a road, at the coordinates the place was first met with, and its *)
(* edges are, in order, the steps from point to point along the roads, also  *)
(* where roads meet, run together or cross themselves.                       *)
Steps(f) == [i \in 1 .. Len(f.line) - 1 |-> <<Place(f.line[i]), Place(f.line[i + 1])>>]
AllPoints == FlattenSeq([r \in DOMAIN features |-> features[r].line])
MapFaithful ==
  at.stage = "done" =>
    LET vertex(id) == graph.vertices[id + 1]
        met(p) == AllPoints[CHOOSE i \in DOMAIN AllPoints :
                    /\ Place(AllPoints[i]) = Place(p)
                    /\ \A j \in 1 .. i - 1 : Place(AllPoints[j]) # Place(p)]
    IN  /\ {graph.vertices[i] : i \in DOMAIN graph.vertices}
             = {met(AllPoints[i]) : i \in DOMAIN AllPoints}
        /\ \A i, j \in DOMAIN graph.vertices :
             graph.vertices[i] = graph.vertices[j] => i = j
        /\ [k \in DOMAIN graph.edges |-> <<Place(vertex(graph.edges[k].ends[1])),
                                           Place(vertex(graph.edges[k].ends[2]))>>]
             = FlattenSeq([r \in DOMAIN features |-> Steps(features[r])])
=============================================================================
