----------------------------- MODULE Visualizer -----------------------------
(***************************************************************************)
(* The path visualizer (INT/visualizer): it asks the database again and    *)
(* again for the paths of the last second and colours the edges of the     *)
(* topology they use; an edge that has not been used for two seconds goes. *)
(* Time is in quarters of a second.                                        *)
(***************************************************************************)
EXTENDS Integers, Sequences, FiniteSets, SequencesExt, Functions

CONSTANTS
  Colors,        \* the list `colors'
  AnyColor,      \* colours that may be drawn at random when the list is used up
  PollTimes      \* times from one look at the database to the next

VARIABLES
  clock,
  flowStats,     \* points of flow_stats
  view           \* the globals of the program, see VInit

SECOND == 4
Edge == {e \in (1 .. 5) \X (1 .. 5) : e[1] # e[2]}

(* edge: edge_colors; since: edge_update_time, an edge that is missing was *)
(* never used; index: the edges of edge_flow_indices, flow by flow, for    *)
(* numbers that are not drawn (an edge is looked for among the flows); at, *)
(* due: the last look at the database and the next.                        *)
VInit ==
  view = [running |-> TRUE, at |-> 0, due |-> 0, colors |-> Colors,
          color |-> << >>, id |-> << >>, edge |-> << >>, since |-> << >>, index |-> << >>]

(* f with the value c for the arguments of S. *)
Put(f, S, c) == [x \in DOMAIN f \cup S |-> IF x \in S THEN c ELSE f[x]]

assign_color(v, f, random) ==
  IF f \in DOMAIN v.color THEN v
  ELSE IF v.colors # << >>
  THEN [v EXCEPT !.color = Put(@, {f}, Head(v.colors)), !.colors = Tail(@)]
  ELSE [v EXCEPT !.color = Put(@, {f}, random)]

assign_flow_id(v, f) ==
  IF f \in DOMAIN v.id THEN v
  ELSE [v EXCEPT !.id = Put(@, {f}, Cardinality(DOMAIN @) + 1)]

EdgesOf(path) == [i \in 1 .. Len(path) - 1 |-> <<path[i], path[i+1]>>]
Uses(x, e)    == e \in ToSet(EdgesOf(x.fields.path))
FlowOf(x)     == x.tags[1]
EdgesUsed(points, f) ==
  UNION {ToSet(EdgesOf(x.fields.path)) : x \in {y \in points : FlowOf(y) = f}}

(* An edge has one colour: that of the flow that was looked at last. *)
UpdateFlow(v, points, f, random) ==
  LET w    == assign_flow_id(assign_color(v, f, random), f)
      used == EdgesUsed(points, f)
  IN  [w EXCEPT !.edge  = Put(@, used, w.color[f]),
                !.since = Put(@, used, clock),
                !.index = Put(@, {f}, used)]

(* The flows are a set: Python takes them in any order. *)
update_graph(points, order, random) ==
  LET after[k \in 0 .. Len(order)] ==
        IF k = 0 THEN view ELSE UpdateFlow(after[k-1], points, order[k], random)
  IN  after[Len(order)]

(* The edges that have been unused for too long, or always, lose their     *)
(* colour; flows that use any of them lose all their indices.              *)
Stale(v) == {e \in Edge \cup DOMAIN v.since :
               e \in DOMAIN v.since => clock - v.since[e] > 2 * SECOND}
RemoveNothing(v) == v           \* seeded fault: edges stay
RemoveStale(v) ==
  [v EXCEPT !.edge  = Restrict(@, DOMAIN @ \ Stale(v)),
            !.index = Restrict(@, {f \in DOMAIN @ : @[f] \cap Stale(v) = {}})]

LastHalfSecond == {x \in flowStats : x.time[1] > clock - SECOND \div 2} \* seeded fault: the pause
LastSecond == {x \in flowStats : x.time[1] > clock - SECOND}

(* A turn of the loop of main; the next is due when the graph is drawn. *)
Poll ==
  LET flows == {FlowOf(x) : x \in LastSecond} IN
  /\ view.running /\ clock >= view.due
  /\ \E order \in SetToSeqs(flows), random \in AnyColor, d \in PollTimes :
       view' = [RemoveStale(update_graph(LastSecond, order, random))
                  EXCEPT !.at = clock, !.due = clock + d]

(* A query that is not answered ends the program. *)
PollFails ==
  /\ view.running /\ clock >= view.due
  /\ view' = [view EXCEPT !.running = FALSE]

-----------------------------------------------------------------------------
(* Properties.                                                             *)

(* An edge is shown in the colour of a flow that has used it in the three  *)
(* seconds before the last look: one of the query and two of the margin,   *)
(* the constants of the code.  README "Visualizer" has another, see        *)
(* FinishedNotDrawn.                                                       *)
ShownIsRecentTraffic ==
  \A e \in DOMAIN view.edge : \E x \in flowStats :
    /\ Uses(x, e) /\ x.time[1] > view.at - 3 * SECOND
    /\ FlowOf(x) \in DOMAIN view.color /\ view.color[FlowOf(x)] = view.edge[e]

(* As long as looking, drawing and writing take less than a second, no     *)
(* path falls between two looks: an edge that was used is shown for a      *)
(* second at least, by the two constants of the code, even if a flow sent  *)
(* a single packet: long after the README calls that flow finished.        *)
EveryPathShown ==
  view.running => \A x \in flowStats : \A e \in Edge :
    Uses(x, e) /\ view.at \in x.time[1] + SECOND .. x.time[1] + 2 * SECOND
      => e \in DOMAIN view.edge

(* README "Visualizer": a flow that has no entry in the last 0.1 seconds,  *)
(* less than one tick, is finished and its path no longer drawn.           *)
FinishedNotDrawn ==
  \A e \in DOMAIN view.edge : \E x \in flowStats :
    Uses(x, e) /\ x.time[1] >= view.at - 1
=============================================================================
