------------------------------ MODULE CycleCheck ------------------------------
(***************************************************************************)
(* The compiler's cycle pass (internal/compiler/validate.go): Tarjan's     *)
(* algorithm without recursion, the edges whose max_traversals bounds      *)
(* nothing, and a depth-first search for a cycle of unbounded edges inside *)
(* each cyclic component.  One action is one round of a loop of the code,  *)
(* for any graph of NodeCount nodes with at most one edge from a node to   *)
(* another, and for every order in which a node lists its edges.           *)
(***************************************************************************)
EXTENDS Naturals, SequencesExt

CONSTANTS NodeCount, EdgeKinds

ASSUME CycleAssumption == NodeCount \in Nat \ {0} /\ EdgeKinds \subseteq {"none", "bounded", "unbounded"}

Vertices == 1 .. NodeCount

VARIABLES
  graph,     \* the kind of edge from a node to another
  phase,     \* which loop runs
  tarjan,    \* the locals of iterativeSCC
  unchecked, \* components findCycle has not seen
  search,    \* the locals of findCycle
  useless,   \* edges reported for their max_traversals
  cycles     \* cycles reported

cycleVars == <<graph, phase, tarjan, unchecked, search, useless, cycles>>

Unseen == NodeCount
Graphs == [Vertices \X Vertices -> EdgeKinds]

\* adj[u]: the targets, in an order the behaviour chooses as it goes.
Targets(u, kinds, within) == {w \in within : graph[<<u, w>>] \in kinds}
Adj(u) == Targets(u, {"bounded", "unbounded"}, Vertices)

TarjanStart ==
  [call |-> <<>>, stack |-> <<>>, next |-> 0, comps |-> 0,
   order |-> [v \in Vertices |-> Unseen], low |-> [v \in Vertices |-> Unseen],
   cursor |-> [v \in Vertices |-> {}], scc |-> [v \in Vertices |-> Unseen]]
SearchStart ==
  [members |-> {}, visit |-> <<>>, path |-> <<>>,
   color |-> [v \in Vertices |-> "white"], pos |-> [v \in Vertices |-> {}]]

\* A cursor is the set of the targets it has passed.
Tarjan ==
  [call : Seq(Vertices), stack : Seq(Vertices), next : 0 .. NodeCount, comps : 0 .. NodeCount,
   order : [Vertices -> 0 .. Unseen], low : [Vertices -> 0 .. Unseen],
   cursor : [Vertices -> SUBSET Vertices], scc : [Vertices -> 0 .. Unseen]]
Search ==
  [members : SUBSET Vertices, visit : Seq(Vertices), path : Seq(Vertices),
   color : [Vertices -> {"white", "gray", "black"}], pos : [Vertices -> SUBSET Vertices]]

CycleTypeOK ==
  /\ graph \in Graphs
  /\ phase \in {"scc", "split", "search", "done"}
  /\ tarjan \in Tarjan /\ search \in Search
  /\ unchecked \subseteq 0 .. NodeCount - 1
  /\ useless \subseteq Vertices \X Vertices /\ cycles \subseteq Seq(Vertices)

CycleStart(g) ==
  /\ graph = g
  /\ phase = "scc" /\ tarjan = TarjanStart
  /\ unchecked = {} /\ search = SearchStart
  /\ useless = {} /\ cycles = {}

CycleInit == \E g \in Graphs : CycleStart(g)

-----------------------------------------------------------------------------
(***************************************************************************)
(* iterativeSCC.                                                           *)
(***************************************************************************)
NextRoot ==
  LET roots == {v \in Vertices : tarjan.order[v] = Unseen}
  IN  /\ phase = "scc" /\ tarjan.call = <<>> /\ roots # {}
      /\ tarjan' = [tarjan EXCEPT !.call = <<Min(roots)>>]
      /\ UNCHANGED <<graph, phase, unchecked, search, useless, cycles>>

\* A node seen for the first time gets its number and goes on the stack.
Numbered(u) ==
  IF tarjan.order[u] # Unseen THEN tarjan
  ELSE [tarjan EXCEPT !.order = [@ EXCEPT ![u] = tarjan.next], !.low = [@ EXCEPT ![u] = tarjan.next],
                      !.next = @ + 1, !.stack = Append(@, u)]

\* Mutant of Lowered: a target counts although its component is complete.
LoweredOffStack(t, u, seen) == Min({t.low[u]} \cup {t.order[w] : w \in seen})

\* low[u] after the targets in seen: only those on the stack count.
Lowered(t, u, seen) == Min({t.low[u]} \cup {t.order[w] : w \in seen \cap ToSet(t.stack)})

\* The component of u is what lies above it on the stack.
Popped(t, u) ==
  IF t.low[u] # t.order[u] THEN t
  ELSE LET at == CHOOSE i \in DOMAIN t.stack : t.stack[i] = u
           component == {t.stack[i] : i \in at .. Len(t.stack)}
       IN  [t EXCEPT !.stack = SubSeq(@, 1, at - 1), !.comps = @ + 1,
                     !.scc = [v \in Vertices |-> IF v \in component THEN t.comps ELSE t.scc[v]]]

\* The call's parent takes over the low of the node that is finished.
Returned(t, u) ==
  LET call == Front(t.call)
      low(p) == [t.low EXCEPT ![p] = Min({@, t.low[u]})]
  IN  [t EXCEPT !.call = call, !.low = IF call = <<>> THEN @ ELSE low(Last(call))]

\* The targets not passed yet; what passing those in seen does.
Left(t, u) == Adj(u) \ t.cursor[u]
Fresh(t, u) == {w \in Left(t, u) : t.order[w] = Unseen}
Passed(t, u, seen) ==
  [t EXCEPT !.low = [t.low EXCEPT ![u] = Lowered(t, u, seen)], !.cursor = [t.cursor EXCEPT ![u] = @ \cup seen]]

\* The first unseen target is called.
Called(t, u, w) ==
  [t EXCEPT !.cursor = [t.cursor EXCEPT ![u] = @ \cup {w}], !.call = Append(@, w)]

\* One round: go through the targets up to the first unseen one, and call it;
\* without one, return.
VisitNode ==
  /\ phase = "scc" /\ tarjan.call # <<>>
  /\ LET u == Last(tarjan.call)
         t == Numbered(u)
     IN  \/ \E w \in Fresh(t, u), seen \in SUBSET (Left(t, u) \ Fresh(t, u)) :
              tarjan' = Called(Passed(t, u, seen), u, w)
         \/ /\ Fresh(t, u) = {}
            /\ tarjan' = Popped(Returned(Passed(t, u, Left(t, u)), u), u)
  /\ UNCHANGED <<graph, phase, unchecked, search, useless, cycles>>

-----------------------------------------------------------------------------
(***************************************************************************)
(* cyclePass between and after.                                            *)
(***************************************************************************)
Members(c) == {v \in Vertices : tarjan.scc[v] = c}
Cyclic(c) == Cardinality(Members(c)) > 1 \/ \E v \in Members(c) : graph[<<v, v>>] # "none"

SplitComponents ==
  /\ phase = "scc" /\ tarjan.call = <<>> /\ \A v \in Vertices : tarjan.order[v] # Unseen
  /\ phase' = "split"
  /\ useless' = {e \in Vertices \X Vertices :
                   graph[e] = "bounded" /\ tarjan.scc[e[1]] # tarjan.scc[e[2]]}
  /\ unchecked' = {c \in 0 .. tarjan.comps - 1 : Cyclic(c)}
  /\ UNCHANGED <<graph, tarjan, search, cycles>>

\* The components come out of a map, in any order.
StartSearch(c) ==
  /\ phase = "split" /\ c \in unchecked
  /\ phase' = "search"
  /\ unchecked' = unchecked \ {c}
  /\ search' = [SearchStart EXCEPT !.members = Members(c)]
  /\ UNCHANGED <<graph, tarjan, useless, cycles>>

AllSearched ==
  /\ phase = "split" /\ unchecked = {}
  /\ phase' = "done"
  /\ UNCHANGED <<graph, tarjan, unchecked, search, useless, cycles>>

-----------------------------------------------------------------------------
(***************************************************************************)
(* findCycle, on the unbounded edges inside one component.                 *)
(***************************************************************************)
Unbounded(u) == Targets(u, {"unbounded"}, search.members)

SearchRoot ==
  LET roots == {v \in search.members : search.color[v] = "white"}
  IN  /\ phase = "search" /\ search.visit = <<>>
      /\ IF roots = {} THEN phase' = "split" /\ UNCHANGED search
         ELSE search' = [search EXCEPT !.visit = <<Min(roots)>>] /\ UNCHANGED phase
      /\ UNCHANGED <<graph, tarjan, unchecked, useless, cycles>>

Enter(u) ==
  /\ search.color[u] = "white"
  /\ search' = [search EXCEPT !.color = [@ EXCEPT ![u] = "gray"], !.path = Append(@, u)]
  /\ UNCHANGED <<phase, cycles>>

\* Mutant of Leave: the path keeps the node.
LeaveOnPath(u) ==
  /\ search.color[u] = "gray" /\ Unbounded(u) \subseteq search.pos[u]
  /\ search' = [search EXCEPT !.color = [@ EXCEPT ![u] = "black"], !.visit = Front(@)]
  /\ UNCHANGED <<phase, cycles>>

Leave(u) ==
  /\ search.color[u] = "gray" /\ Unbounded(u) \subseteq search.pos[u]
  /\ search' = [search EXCEPT !.color = [@ EXCEPT ![u] = "black"], !.path = Front(@), !.visit = Front(@)]
  /\ UNCHANGED <<phase, cycles>>

\* A gray target closes a cycle: the path from it on.
Follow(u, w) ==
  /\ search.color[u] = "gray" /\ w \notin search.pos[u]
  /\ IF search.color[w] = "gray"
     THEN /\ LET at == CHOOSE i \in DOMAIN search.path : search.path[i] = w
             IN  cycles' = cycles \cup {SubSeq(search.path, at, Len(search.path))}
          /\ phase' = "split" /\ search' = SearchStart
     ELSE /\ search' = [search EXCEPT !.pos = [search.pos EXCEPT ![u] = @ \cup {w}],
                          !.visit = IF search.color[w] = "white" THEN Append(@, w) ELSE @]
          /\ UNCHANGED <<phase, cycles>>

SearchStep ==
  /\ phase = "search" /\ search.visit # <<>>
  /\ LET u == Last(search.visit) IN  Enter(u) \/ Leave(u) \/ \E w \in Unbounded(u) : Follow(u, w)
  /\ UNCHANGED <<graph, tarjan, unchecked, useless>>

CycleNext ==
  \/ NextRoot \/ VisitNode \/ SplitComponents \/ AllSearched \/ SearchRoot \/ SearchStep
  \/ \E c \in unchecked : StartSearch(c)

CycleSpec == CycleInit /\ [][CycleNext]_cycleVars

-----------------------------------------------------------------------------
(***************************************************************************)
(* Properties: the loops against a definition of what they compute.        *)
(***************************************************************************)
EdgesOf(kinds) == {e \in Vertices \X Vertices : graph[e] \in kinds}

\* Pairs connected by a path of such edges.
Connected(kinds) ==
  LET path[k \in 0 .. NodeCount] ==
        IF k = 0 THEN EdgesOf(kinds)
        ELSE path[k - 1] \cup {e \in Vertices \X Vertices :
               <<e[1], k>> \in path[k - 1] /\ <<k, e[2]>> \in path[k - 1]}
  IN  path[NodeCount]

\* iterativeSCC puts two nodes into one component exactly if each reaches the
\* other, so max_traversals is reported exactly on edges that are on no cycle.
ComponentsAreRight ==
  phase = "split" /\ cycles = {} =>
    LET connected == Connected({"bounded", "unbounded"})
    IN  /\ \A u, w \in Vertices : u # w =>
             (tarjan.scc[u] = tarjan.scc[w] <=> <<u, w>> \in connected /\ <<w, u>> \in connected)
        /\ useless = {e \in EdgesOf({"bounded"}) : <<e[2], e[1]>> \notin connected}

\* A cycle is reported exactly if there is one without a bounded edge, and
\* what is reported is such a cycle.
UnboundedCyclesReported ==
  /\ phase = "done" => (cycles # {} <=> \E v \in Vertices : <<v, v>> \in Connected({"unbounded"}))
  /\ \A c \in cycles : \A i \in DOMAIN c :
       graph[<<c[i], IF i = Len(c) THEN c[1] ELSE c[i + 1]>>] = "unbounded"
=============================================================================
