---------------------------- MODULE CycleProofs ----------------------------
(***************************************************************************)
(* The compiler's cycle pass is right for every graph, of any size and     *)
(* with its edges in any order: iterativeSCC puts two nodes into one       *)
(* component exactly if each reaches the other, and findCycle reports a    *)
(* cycle exactly if there is one without a bounded edge.                   *)
(***************************************************************************)
EXTENDS CycleCheck, FiniteSetTheorems, WellFoundedInduction, TLAPS

\* A set of numbers that is not empty has a least one.
LEMMA LeastNumber ==
  ASSUME NEW S, S \subseteq Nat, S # {}
  PROVE  \E m \in S : \A k \in S : m <= k
<1> DEFINE R == OpToRel(<, Nat)
<1>1. IsWellFoundedOn(R, Nat)
  BY NatLessThanWellFounded
<1>2. \A x, y \in Nat : y < x => <<y, x>> \in R
  BY DEF OpToRel
<1> HIDE DEF R
<1>3. PICK m \in S : \A k \in S : ~ (<<k, m>> \in R)
  BY <1>1, WFMin
<1>4. \A k \in S : ~ (k < m)
  BY <1>2, <1>3
<1> QED
  BY <1>3, <1>4

\* Min returns it.
LEMMA MinIsLeast ==
  ASSUME NEW S, S \subseteq Nat, S # {}
  PROVE  Min(S) \in S /\ \A k \in S : Min(S) <= k
  BY LeastNumber DEF Min

-----------------------------------------------------------------------------
(***************************************************************************)
(* Paths: Connected is the least transitive relation with the edges.       *)
(***************************************************************************)
Pairs == Vertices \X Vertices

Transitive(R) ==
  \A a, b, c \in Vertices : <<a, b>> \in R /\ <<b, c>> \in R => <<a, c>> \in R

\* The paths that may also go through k, and the levels of Connected's recursion.
Through(P, k) ==
  P \cup {e \in Pairs : <<e[1], k>> \in P /\ <<k, e[2]>> \in P}
Levels(f, E) ==
  [k \in 0 .. NodeCount |-> IF k = 0 THEN E ELSE Through(f[k - 1], k)]

\* There are levels up to any number of nodes, and so the recursion defines
\* a function.
LEMMA LevelsExist ==
  ASSUME NEW E
  PROVE  \E f : f = Levels(f, E)
<1> DEFINE good(n, g) == \A k \in 0 .. n : g[k] = IF k = 0 THEN E ELSE Through(g[k - 1], k)
           bad == {n \in Nat : ~ \E g : good(n, g)}
<1>1. bad = {}
  <2> SUFFICES ASSUME bad # {} PROVE FALSE
    OBVIOUS
  <2>1. PICK m \in bad : \A k \in bad : m <= k
    BY LeastNumber
  <2>2. m # 0
    <3>1. good(0, [k \in {0} |-> E])
      OBVIOUS
    <3> QED
      BY <2>1, <3>1
  <2>3. PICK g : good(m - 1, g)
    <3> HIDE DEF good
    <3>1. bad \subseteq Nat
      OBVIOUS
    <3> HIDE DEF bad
    <3>2. m \in Nat /\ m - 1 \in Nat /\ m - 1 \notin bad
      BY <2>1, <2>2, <3>1
    <3> USE DEF bad
    <3> QED
      BY <3>2
  <2> DEFINE h == [k \in 0 .. m |-> IF k < m THEN g[k] ELSE Through(g[m - 1], m)]
  <2>4. good(m, h)
    <3> SUFFICES ASSUME NEW k \in 0 .. m
                 PROVE  h[k] = IF k = 0 THEN E ELSE Through(h[k - 1], k)
      OBVIOUS
    <3>1. CASE k = m
      <4>1. h[k] = Through(g[m - 1], m) /\ h[k - 1] = g[m - 1]
        BY <2>1, <2>2, <3>1
      <4> QED
        BY <2>2, <3>1, <4>1
    <3>2. CASE k # m
      <4>1. k \in 0 .. m - 1 /\ h[k] = g[k] /\ (k # 0 => h[k - 1] = g[k - 1])
        BY <2>1, <3>2
      <4> QED
        BY <2>3, <4>1
    <3> QED
      BY <3>1, <3>2
  <2> HIDE DEF good, h
  <2> QED
    BY <2>1, <2>4
<1>2. PICK g : good(NodeCount, g)
  BY <1>1, CycleAssumption
<1> DEFINE f == [k \in 0 .. NodeCount |-> g[k]]
<1>3. f = Levels(f, E)
  <2>1. ASSUME NEW k \in 0 .. NodeCount
        PROVE  f[k] = IF k = 0 THEN E ELSE Through(f[k - 1], k)
    BY <1>2, CycleAssumption
  <2> QED
    BY <2>1 DEF Levels
<1> QED
  BY <1>3

\* Connected is the last of the levels.
LEMMA ConnectedLevels ==
  ASSUME NEW kinds
  PROVE  \E f : f = Levels(f, EdgesOf(kinds)) /\ Connected(kinds) = f[NodeCount]
<1> DEFINE f == CHOOSE f : f = Levels(f, EdgesOf(kinds))
<1>1. f = Levels(f, EdgesOf(kinds))
  BY LevelsExist
<1>2. Connected(kinds) = f[NodeCount]
  BY DEF Connected, Levels, Through, Pairs
<1> QED
  BY <1>1, <1>2

\* One level more: transitive through k as well.
LEMMA ThroughMore ==
  ASSUME NEW P \in SUBSET Pairs, NEW k \in Vertices,
         \A a, b, c \in Vertices : c < k /\ <<a, c>> \in P /\ <<c, b>> \in P => <<a, b>> \in P
  PROVE  \A a, b, c \in Vertices :
           c <= k /\ <<a, c>> \in Through(P, k) /\ <<c, b>> \in Through(P, k)
             => <<a, b>> \in Through(P, k)
<1>1. \A a, b \in Vertices :
        <<a, b>> \in Through(P, k) <=> <<a, b>> \in P \/ (<<a, k>> \in P /\ <<k, b>> \in P)
  BY DEF Through, Pairs
<1> SUFFICES ASSUME NEW a \in Vertices, NEW b \in Vertices, NEW c \in Vertices, c <= k,
                    <<a, c>> \in Through(P, k), <<c, b>> \in Through(P, k)
             PROVE  <<a, b>> \in Through(P, k)
  OBVIOUS
<1>2. CASE c = k
  BY <1>1, <1>2
<1>3. CASE c < k
  BY <1>1, <1>3
<1> QED
  BY <1>2, <1>3, CycleAssumption DEF Vertices

\* The closure of the edges, in a form without recursion.
LEMMA ConnectedIs ==
  ASSUME NEW kinds
  PROVE  /\ Connected(kinds) \subseteq Pairs
         /\ EdgesOf(kinds) \subseteq Connected(kinds)
         /\ Transitive(Connected(kinds))
         /\ \A R : EdgesOf(kinds) \subseteq R /\ Transitive(R) => Connected(kinds) \subseteq R
<1> DEFINE E == EdgesOf(kinds)
           N == NodeCount
<1>0. E \subseteq Pairs /\ N \in Nat /\ N # 0 /\ Vertices = 1 .. N
  BY CycleAssumption DEF EdgesOf, Pairs, Vertices
<1>1. PICK f : f = Levels(f, E) /\ Connected(kinds) = f[N]
  BY ConnectedLevels
<1>2. /\ f[0] = E
      /\ \A k \in 1 .. N : f[k] = Through(f[k - 1], k)
  BY <1>0, <1>1 DEF Levels
<1> HIDE DEF E, N
<1> DEFINE lower(k) == \A a, b, c \in Vertices :
                         c <= k /\ <<a, c>> \in f[k] /\ <<c, b>> \in f[k] => <<a, b>> \in f[k]
           good(k) == f[k] \subseteq Pairs /\ E \subseteq f[k] /\ lower(k)
                      /\ \A R : E \subseteq R /\ Transitive(R) => f[k] \subseteq R
           bad == {k \in 0 .. N : ~ good(k)}
<1>3. bad = {}
  <2> SUFFICES ASSUME bad # {} PROVE FALSE
    OBVIOUS
  <2>1. PICK m \in bad : \A k \in bad : m <= k
    <3> HIDE DEF good
    <3>1. bad \subseteq Nat
      BY <1>0
    <3> HIDE DEF bad
    <3> QED
      BY <3>1, LeastNumber
  <2>2. good(0)
    BY <1>0, <1>2
  <2>3. m \in 1 .. N /\ m - 1 \in 0 .. N /\ m - 1 \notin bad
    <3> HIDE DEF good
    <3> QED
      BY <1>0, <2>1, <2>2
  <2>4. good(m - 1)
    <3> HIDE DEF good
    <3> QED
      BY <2>3
  <2> DEFINE P == f[m - 1]
  <2>5. f[m] = Through(P, m)
    BY <1>2, <2>3
  <2>6. P \subseteq Pairs /\ E \subseteq P
    BY <2>4
  <2>7. \A a, b, c \in Vertices : c < m /\ <<a, c>> \in P /\ <<c, b>> \in P => <<a, b>> \in P
    <3>1. \A c \in Vertices : c < m => c <= m - 1
      BY <1>0, <2>3
    <3> QED
      BY <2>4, <3>1
  <2>8. ASSUME NEW R, E \subseteq R, Transitive(R) PROVE f[m] \subseteq R
    <3>1. P \subseteq R /\ m \in Vertices
      BY <1>0, <2>3, <2>4, <2>8
    <3>2. ASSUME NEW a \in Vertices, NEW b \in Vertices, <<a, m>> \in P, <<m, b>> \in P
          PROVE  <<a, b>> \in R
      BY <2>8, <3>1, <3>2 DEF Transitive
    <3> HIDE DEF P
    <3>3. ASSUME NEW e \in Pairs, <<e[1], m>> \in P, <<m, e[2]>> \in P
          PROVE  e \in R
      <4>1. e = <<e[1], e[2]>> /\ e[1] \in Vertices /\ e[2] \in Vertices
        BY DEF Pairs
      <4> QED
        BY <3>2, <3>3, <4>1
    <3> QED
      BY <2>5, <3>1, <3>3 DEF Through
  <2>9. lower(m)
    <3> HIDE DEF P
    <3>1. m \in Vertices /\ P \in SUBSET Pairs
      BY <1>0, <2>3, <2>6
    <3>2. \A a, b, c \in Vertices :
            c <= m /\ <<a, c>> \in Through(P, m) /\ <<c, b>> \in Through(P, m)
              => <<a, b>> \in Through(P, m)
      BY <2>7, <3>1, ThroughMore
    <3> QED
      BY <2>5, <3>2
  <2>10. f[m] \subseteq Pairs /\ E \subseteq f[m]
    BY <2>5, <2>6 DEF Through
  <2>11. good(m)
    BY <2>8, <2>9, <2>10
  <2> HIDE DEF good
  <2> QED
    BY <2>1, <2>11
<1>4. good(N)
  <2> HIDE DEF good
  <2> QED
    BY <1>0, <1>3
<1>5. Transitive(f[N])
  BY <1>0, <1>4 DEF Transitive
<1> QED
  BY <1>1, <1>4, <1>5 DEF E

\* A path starts with an edge.
LEMMA FirstEdge ==
  ASSUME NEW kinds, NEW a \in Vertices, NEW b \in Vertices, <<a, b>> \in Connected(kinds)
  PROVE  \E c \in Vertices :
           <<a, c>> \in EdgesOf(kinds) /\ (c = b \/ <<c, b>> \in Connected(kinds))
<1> DEFINE C == Connected(kinds)
           starts(x, y) == \E c \in Vertices :
                             <<x, c>> \in EdgesOf(kinds) /\ (c = y \/ <<c, y>> \in C)
           R == {e \in C : starts(e[1], e[2])}
<1>1. /\ C \subseteq Pairs /\ EdgesOf(kinds) \subseteq C /\ Transitive(C)
      /\ \A Q : EdgesOf(kinds) \subseteq Q /\ Transitive(Q) => C \subseteq Q
  BY ConnectedIs
<1>2. EdgesOf(kinds) \subseteq R
  BY <1>1 DEF Pairs
<1>3. Transitive(R)
  <2> SUFFICES ASSUME NEW x \in Vertices, NEW y \in Vertices, NEW z \in Vertices,
                      <<x, y>> \in C, starts(x, y), <<y, z>> \in C
               PROVE  <<x, z>> \in C /\ starts(x, z)
    BY DEF Transitive
  <2>1. PICK c \in Vertices : <<x, c>> \in EdgesOf(kinds) /\ (c = y \/ <<c, y>> \in C)
    OBVIOUS
  <2>2. <<x, z>> \in C /\ <<c, z>> \in C
    BY <1>1, <2>1 DEF Transitive
  <2> QED
    BY <2>1, <2>2
<1>4. <<a, b>> \in R
  BY <1>1, <1>2, <1>3
<1> QED
  BY <1>4

\* A set no edge leaves is left by no path.
LEMMA StaysIn ==
  ASSUME NEW kinds, NEW S \in SUBSET Vertices,
         \A a \in S, b \in Vertices : <<a, b>> \in EdgesOf(kinds) => b \in S
  PROVE  \A a \in S, b \in Vertices : <<a, b>> \in Connected(kinds) => b \in S
<1> DEFINE R == {e \in Pairs : e[1] \in S => e[2] \in S}
<1>1. EdgesOf(kinds) \subseteq R
  BY DEF EdgesOf, Pairs
<1>2. Transitive(R)
  BY DEF Transitive, Pairs
<1>3. Connected(kinds) \subseteq R
  BY <1>1, <1>2, ConnectedIs
<1> QED
  BY <1>3

-----------------------------------------------------------------------------
(***************************************************************************)
(* iterativeSCC: what holds of its locals t at every round.                *)
(***************************************************************************)
Edges == {"bounded", "unbounded"}
Reach(a, b) == a = b \/ <<a, b>> \in Connected(Edges)

Seen(t) == {v \in Vertices : t.order[v] # Unseen}
Stacked(t) == ToSet(t.stack)
Finished(t) == {v \in Vertices : t.scc[v] # Unseen}
Calls(t) == ToSet(t.call)
Gray(t) == Calls(t) \cap Seen(t)

\* Numbers are given in order, to nodes that are on the stack, in that order,
\* until their component is complete.
StackInv(t) ==
  /\ t.next = Cardinality(Seen(t)) /\ t.comps <= Cardinality(Finished(t))
  /\ Seen(t) = Stacked(t) \cup Finished(t) /\ Stacked(t) \cap Finished(t) = {}
  /\ \A v \in Seen(t) : t.order[v] < t.next
  /\ \A i, j \in DOMAIN t.stack : i < j => t.order[t.stack[i]] < t.order[t.stack[j]]

\* The calls are a path of nodes on the stack; only the last may be new.
CallInv(t) ==
  /\ \A i \in DOMAIN t.call : t.call[i] \notin Finished(t)
  /\ \A i, j \in DOMAIN t.call :
       i < j => /\ t.call[i] \in Stacked(t)
                /\ t.call[j] \in Stacked(t) => t.order[t.call[i]] < t.order[t.call[j]]
  /\ \A i \in DOMAIN t.call : i # 1 => t.call[i] \in Adj(t.call[i - 1])

\* A target that was passed has been seen or is being called; a node that has
\* returned has passed all of its targets.
CursorInv(t) ==
  /\ \A v \in Vertices : t.cursor[v] \subseteq Seen(t) \cup Calls(t)
  /\ \A v \in Vertices \ Seen(t) : t.cursor[v] = {}
  /\ \A v \in Seen(t) \ Calls(t) : Adj(v) \subseteq t.cursor[v]

\* A node being visited reaches what is above it on the stack, and everything
\* on the stack reaches a node below it that is being visited.
PathInv(t) ==
  /\ \A x \in Gray(t), y \in Stacked(t) : t.order[x] <= t.order[y] => Reach(x, y)
  /\ \A y \in Stacked(t) : \E x \in Gray(t) : t.order[x] <= t.order[y] /\ Reach(y, x)

\* The node being visited to whose visit v belongs.
Owns(t, u, v) ==
  /\ t.order[u] <= t.order[v]
  /\ \A g \in Gray(t) : t.order[g] <= t.order[v] => t.order[g] <= t.order[u]

\* low is the number of a node that is reached, and of none above one that an
\* edge passed during the visit leads to.
LowInv(t) ==
  /\ \A u \in Gray(t) : /\ t.low[u] <= t.order[u]
                        /\ \E w \in Stacked(t) : t.low[u] = t.order[w] /\ Reach(u, w)
  /\ \A u \in Gray(t), v \in Stacked(t) : \A w \in t.cursor[v] \cap Stacked(t) :
       Owns(t, u, v) => t.low[u] <= t.order[w]

\* What is complete is left by no edge and divided as it should be.
DoneInv(t) ==
  /\ \A v \in Finished(t) : Adj(v) \subseteq Finished(t) /\ t.scc[v] < t.comps
  /\ \A v, w \in Finished(t) : t.scc[v] = t.scc[w] <=> Reach(v, w) /\ Reach(w, v)

TarjanInv(t) ==
  /\ t \in Tarjan
  /\ StackInv(t) /\ CallInv(t) /\ CursorInv(t) /\ PathInv(t) /\ LowInv(t) /\ DoneInv(t)

-----------------------------------------------------------------------------
\* Nodes reach what their edges and paths lead to.
LEMMA Reaching ==
  /\ \A a \in Vertices : Reach(a, a)
  /\ \A a, b \in Vertices : b \in Adj(a) => Reach(a, b)
  /\ \A a, b, c \in Vertices : Reach(a, b) /\ Reach(b, c) => Reach(a, c)
<1>1. ASSUME NEW a \in Vertices, NEW b \in Vertices, b \in Adj(a)
      PROVE  <<a, b>> \in EdgesOf(Edges)
  BY <1>1 DEF EdgesOf, Edges, Adj, Targets
<1> QED
  BY <1>1, ConnectedIs DEF Reach, Transitive

\* A set that holds all targets of its nodes holds all they reach.
LEMMA ReachStays ==
  ASSUME NEW S \in SUBSET Vertices, \A v \in S : Adj(v) \subseteq S,
         NEW a \in S, NEW b \in Vertices, Reach(a, b)
  PROVE  b \in S
<1>1. \A v \in S, w \in Vertices : <<v, w>> \in EdgesOf(Edges) => w \in S
  BY DEF EdgesOf, Edges, Adj, Targets
<1> QED
  BY <1>1, StaysIn DEF Reach

\* Targets are nodes, and so is everything on the lists.
LEMMA Places ==
  ASSUME NEW t \in Tarjan
  PROVE  /\ \A v \in Vertices : Adj(v) \subseteq Vertices
         /\ Seen(t) \subseteq Vertices /\ Stacked(t) \subseteq Vertices
         /\ Finished(t) \subseteq Vertices /\ Calls(t) \subseteq Vertices
         /\ \A v \in Vertices : t.order[v] \in Nat /\ t.low[v] \in Nat /\ t.scc[v] \in Nat
         /\ NodeCount \in Nat /\ Unseen = NodeCount /\ Vertices = 1 .. NodeCount
<1>1. t.call \in Seq(Vertices) /\ t.stack \in Seq(Vertices)
  BY DEF Tarjan
<1>2. Stacked(t) \subseteq Vertices /\ Calls(t) \subseteq Vertices
  BY <1>1 DEF Stacked, Calls, ToSet
<1>3. NodeCount \in Nat /\ Unseen = NodeCount /\ Vertices = 1 .. NodeCount
  BY CycleAssumption DEF Unseen, Vertices
<1>4. \A v \in Vertices : t.order[v] \in Nat /\ t.low[v] \in Nat /\ t.scc[v] \in Nat
  BY <1>3 DEF Tarjan
<1> QED
  BY <1>2, <1>3, <1>4 DEF Adj, Targets, Seen, Finished

\* How many nodes there are, and that fewer have a property one lacks.
LEMMA Count ==
  ASSUME NEW S \in SUBSET Vertices
  PROVE  /\ IsFiniteSet(S) /\ Cardinality(S) \in 0 .. NodeCount
         /\ \A v \in Vertices \ S : /\ Cardinality(S) < NodeCount
                                    /\ Cardinality(S \cup {v}) = Cardinality(S) + 1
         /\ \A T \in SUBSET Vertices : S \subseteq T => Cardinality(S) <= Cardinality(T)
<1>1. IsFiniteSet(Vertices) /\ Cardinality(Vertices) = NodeCount /\ NodeCount \in Nat
  <2>1. 1 \in Int /\ NodeCount \in Int /\ NodeCount \in Nat /\ ~(1 > NodeCount)
    BY CycleAssumption
  <2>2. IsFiniteSet(1 .. NodeCount) /\ Cardinality(1 .. NodeCount) = NodeCount - 1 + 1
    BY <2>1, FS_Interval
  <2> QED
    BY <2>1, <2>2 DEF Vertices
<1>2. ASSUME NEW T \in SUBSET Vertices
      PROVE  IsFiniteSet(T) /\ Cardinality(T) \in 0 .. NodeCount
  <2>1. IsFiniteSet(T) /\ Cardinality(T) <= NodeCount
    BY <1>1, FS_Subset
  <2>2. Cardinality(T) \in Nat
    BY <2>1, FS_CardinalityType
  <2> QED
    BY <1>1, <2>1, <2>2
<1>3. ASSUME NEW T \in SUBSET Vertices, S \subseteq T
      PROVE  Cardinality(S) <= Cardinality(T)
  BY <1>2, <1>3, FS_Subset
<1>4. ASSUME NEW v \in Vertices \ S
      PROVE  Cardinality(S) < NodeCount /\ Cardinality(S \cup {v}) = Cardinality(S) + 1
  <2>1. Cardinality(S \cup {v}) = Cardinality(S) + 1
    BY <1>2, FS_AddElement
  <2>2. S \cup {v} \in SUBSET Vertices
    OBVIOUS
  <2> QED
    BY <1>1, <1>2, <2>1, <2>2
<1> QED
  BY <1>2, <1>3, <1>4

\* The stack is sorted by number: numbers name its nodes.
LEMMA Sorted ==
  ASSUME NEW t \in Tarjan, StackInv(t), NEW x \in Stacked(t), NEW y \in Stacked(t),
         t.order[x] = t.order[y]
  PROVE  x = y
<1>1. PICK i \in DOMAIN t.stack, j \in DOMAIN t.stack : x = t.stack[i] /\ y = t.stack[j]
  BY DEF Stacked, ToSet
<1>2. DOMAIN t.stack = 1 .. Len(t.stack)
  BY DEF Tarjan
<1>3. ~(i < j) /\ ~(j < i)
  BY <1>1, Places DEF StackInv
<1> QED
  BY <1>1, <1>2, <1>3

\* A node being visited is on the stack.
LEMMA GrayStacked ==
  ASSUME NEW t, StackInv(t), CallInv(t)
  PROVE  Gray(t) \subseteq Stacked(t)
<1>1. Calls(t) \cap Finished(t) = {}
  BY DEF CallInv, Calls, ToSet
<1> QED
  BY <1>1 DEF StackInv, Gray

\* The last call: every other node being visited has a lower number, and is
\* its parent or below its parent.
LEMMA LastCall ==
  ASSUME NEW t \in Tarjan, CallInv(t), StackInv(t), t.call # <<>>
  PROVE  LET u == Last(t.call)
         IN  /\ u \in Vertices /\ u \in Calls(t) /\ u \notin Finished(t)
             /\ \A x \in Calls(t) \ {u} : x \in Stacked(t) /\ x \in Gray(t)
             /\ \A x \in Calls(t) \ {u} : u \in Seen(t) => t.order[x] < t.order[u]
             /\ \A x \in Calls(t) \ {u} :
                  \E p \in Gray(t) \ {u} : u \in Adj(p) /\ t.order[x] <= t.order[p]
<1> DEFINE u == Last(t.call)
           n == Len(t.call)
<1>1. n \in Nat /\ n # 0 /\ DOMAIN t.call = 1 .. n /\ u = t.call[n] /\ t.call \in Seq(Vertices)
  BY DEF Last, Tarjan
<1>2. u \in Vertices /\ u \in Calls(t) /\ u \notin Finished(t)
  BY <1>1 DEF Calls, ToSet, CallInv
<1>3. ASSUME NEW x \in Calls(t) \ {u}
      PROVE  /\ x \in Stacked(t) /\ x \in Gray(t)
             /\ u \in Seen(t) => t.order[x] < t.order[u]
             /\ \E p \in Gray(t) \ {u} : u \in Adj(p) /\ t.order[x] <= t.order[p]
  <2>1. PICK i \in 1 .. n : x = t.call[i] /\ i < n
    BY <1>1 DEF Calls, ToSet
  <2>2. x \in Stacked(t) /\ (u \in Stacked(t) => t.order[x] < t.order[u])
    BY <1>1, <2>1 DEF CallInv
  <2>3. x \in Gray(t) /\ (u \in Seen(t) => t.order[x] < t.order[u])
    BY <1>2, <2>2 DEF StackInv, Gray
  <2> DEFINE p == t.call[n - 1]
  <2>4. n - 1 \in 1 .. n /\ n - 1 < n /\ n # 1
    BY <1>1, <2>1
  <2>5. p \in Stacked(t) /\ u \in Adj(p) /\ p \in Calls(t)
        /\ (u \in Stacked(t) => t.order[p] < t.order[u])
    <3>1. n \in DOMAIN t.call /\ n - 1 \in DOMAIN t.call /\ n - 1 < n /\ n # 1
      BY <1>1, <2>4
    <3>2. t.call[n] \in Adj(t.call[n - 1])
      BY <3>1 DEF CallInv
    <3>3. p \in Stacked(t) /\ (u \in Stacked(t) => t.order[p] < t.order[u])
      BY <1>1, <3>1 DEF CallInv
    <3> QED
      BY <1>1, <3>1, <3>2, <3>3 DEF Calls, ToSet
  <2>6. t.order[x] <= t.order[p]
    <3>1. CASE i = n - 1
      BY <2>1, <2>5, <3>1, Places
    <3>2. CASE i # n - 1
      <4>1. i < n - 1
        BY <1>1, <2>1, <3>2
      <4> QED
        <5>1. t.order[t.call[i]] < t.order[p]
          BY <1>1, <2>1, <2>4, <2>5, <4>1 DEF CallInv
        <5>2. x \in Vertices /\ p \in Vertices
          BY <2>5, Places
        <5> QED
          BY <2>1, <5>1, <5>2, Places
    <3> QED
      BY <3>1, <3>2
  <2>7. p # u
    BY <2>5, Places
  <2> QED
    BY <2>2, <2>3, <2>5, <2>6, <2>7 DEF StackInv, Gray
<1> QED
  BY <1>2, <1>3

\* Giving the last call its number, the first time it is looked at.
LEMMA NumberedInv ==
  ASSUME TarjanInv(tarjan), tarjan.call # <<>>
  PROVE  LET u == Last(tarjan.call)
         IN  /\ TarjanInv(Numbered(u)) /\ u \in Seen(Numbered(u))
             /\ Numbered(u).call = tarjan.call
<1> DEFINE t == tarjan
           u == Last(tarjan.call)
           q == Numbered(u)
<1>0. t \in Tarjan /\ StackInv(t) /\ CallInv(t) /\ CursorInv(t) /\ PathInv(t) /\ LowInv(t) /\ DoneInv(t)
  BY DEF TarjanInv
<1>1. /\ u \in Vertices /\ u \in Calls(t) /\ u \notin Finished(t)
      /\ \A x \in Calls(t) \ {u} : x \in Stacked(t) /\ x \in Gray(t)
      /\ \A x \in Calls(t) \ {u} :
           \E p \in Gray(t) \ {u} : u \in Adj(p) /\ t.order[x] <= t.order[p]
  BY <1>0, LastCall
<1>2. CASE t.order[u] # Unseen
  BY <1>0, <1>1, <1>2 DEF Numbered, Seen, TarjanInv
<1>3. CASE t.order[u] = Unseen
  <2>1. /\ q.order = [t.order EXCEPT ![u] = t.next] /\ q.low = [t.low EXCEPT ![u] = t.next]
        /\ q.next = t.next + 1 /\ q.stack = Append(t.stack, u)
        /\ q.call = t.call /\ q.comps = t.comps /\ q.cursor = t.cursor /\ q.scc = t.scc
        /\ q = [call |-> t.call, stack |-> q.stack, next |-> q.next, comps |-> t.comps,
                order |-> q.order, low |-> q.low, cursor |-> t.cursor, scc |-> t.scc]
    BY <1>0, <1>3 DEF Numbered, Tarjan
  <2> HIDE DEF q, u, t
  <2>2. /\ Seen(t) \subseteq Vertices /\ Stacked(t) \subseteq Seen(t) /\ u \notin Seen(t)
        /\ t.next = Cardinality(Seen(t)) /\ t.next \in Nat /\ t.next < NodeCount
        /\ Seen(t) = Stacked(t) \cup Finished(t)
        /\ Unseen = NodeCount /\ NodeCount \in Nat
        /\ Cardinality(Seen(t) \cup {u}) = t.next + 1
    <3>1. /\ Seen(t) \subseteq Vertices /\ u \notin Seen(t)
          /\ Unseen = NodeCount /\ NodeCount \in Nat
      BY <1>0, <1>3, Places DEF Seen
    <3>2. /\ Cardinality(Seen(t)) \in 0 .. NodeCount /\ Cardinality(Seen(t)) < NodeCount
          /\ Cardinality(Seen(t) \cup {u}) = Cardinality(Seen(t)) + 1
      BY <1>1, <3>1, Count
    <3> QED
      BY <1>0, <3>1, <3>2 DEF StackInv
  <2>3. q \in Tarjan
    <3>1. q.order \in [Vertices -> 0 .. Unseen] /\ q.low \in [Vertices -> 0 .. Unseen]
      BY <1>0, <2>1, <2>2 DEF Tarjan
    <3>2. q.stack \in Seq(Vertices) /\ q.next \in 0 .. NodeCount
      BY <1>0, <1>1, <2>1, <2>2 DEF Tarjan
    <3> QED
      BY <1>0, <2>1, <3>1, <3>2 DEF Tarjan
  <2>4. /\ \A v \in Vertices : v # u => q.order[v] = t.order[v] /\ q.low[v] = t.low[v]
        /\ q.order[u] = t.next /\ q.low[u] = t.next
    BY <1>0, <1>1, <2>1 DEF Tarjan
  <2>5. /\ Seen(q) = Seen(t) \cup {u} /\ Finished(q) = Finished(t) /\ Calls(q) = Calls(t)
        /\ Stacked(q) = Stacked(t) \cup {u}
    <3>1. Seen(q) = Seen(t) \cup {u}
      BY <1>1, <2>2, <2>4 DEF Seen
    <3>2. Stacked(q) = Stacked(t) \cup {u}
      <4>1. t.stack \in Seq(Vertices)
        BY <1>0 DEF Tarjan
      <4>2. /\ DOMAIN q.stack = 1 .. Len(t.stack) + 1 /\ Len(t.stack) \in Nat
            /\ \A i \in 1 .. Len(t.stack) : q.stack[i] = t.stack[i]
            /\ q.stack[Len(t.stack) + 1] = u /\ DOMAIN t.stack = 1 .. Len(t.stack)
        BY <1>1, <2>1, <4>1
      <4> QED
        BY <4>2 DEF Stacked, ToSet
    <3> QED
      BY <2>1, <3>1, <3>2 DEF Finished, Calls
  <2>6. Gray(q) = Gray(t) \cup {u}
    BY <1>1, <2>5 DEF Gray
  <2>7. /\ \A v \in Seen(t) : v # u /\ v \in Vertices /\ q.order[v] = t.order[v] /\ t.order[v] < t.next
        /\ \A v \in Seen(t) : t.order[v] \in Nat
    BY <1>0, <2>2, <2>4, Places DEF StackInv
  <2>8. StackInv(q)
    <3>1. q.next = Cardinality(Seen(q))
      BY <2>1, <2>2, <2>5
    <3>2. \A i, j \in DOMAIN q.stack : i < j => q.order[q.stack[i]] < q.order[q.stack[j]]
      <4>1. t.stack \in Seq(Vertices)
        BY <1>0 DEF Tarjan
      <4>2. /\ DOMAIN q.stack = 1 .. Len(t.stack) + 1 /\ Len(t.stack) \in Nat
            /\ \A i \in 1 .. Len(t.stack) : q.stack[i] = t.stack[i] /\ t.stack[i] \in Seen(t)
            /\ q.stack[Len(t.stack) + 1] = u /\ DOMAIN t.stack = 1 .. Len(t.stack)
        BY <1>1, <2>1, <2>2, <4>1 DEF Stacked, ToSet
      <4> SUFFICES ASSUME NEW i \in 1 .. Len(t.stack) + 1, NEW j \in 1 .. Len(t.stack) + 1, i < j
                   PROVE  q.order[q.stack[i]] < q.order[q.stack[j]]
        BY <4>2
      <4>3. i \in 1 .. Len(t.stack)
        BY <4>2
      <4>4. CASE j = Len(t.stack) + 1
        BY <2>4, <2>7, <4>2, <4>3, <4>4
      <4>5. CASE j \in 1 .. Len(t.stack)
        BY <1>0, <2>7, <4>2, <4>3, <4>5 DEF StackInv
      <4> QED
        BY <4>2, <4>4, <4>5
    <3>3. ASSUME NEW v \in Seen(q) PROVE q.order[v] < q.next
      <4>1. CASE v = u
        BY <2>1, <2>2, <2>4, <4>1
      <4>2. CASE v # u
        <5>1. q.order[v] < t.next /\ q.order[v] \in Nat
          BY <2>5, <2>7, <4>2
        <5> QED
          BY <2>1, <2>2, <5>1
      <4> QED
        BY <4>1, <4>2
    <3>4. q.comps <= Cardinality(Finished(q))
      BY <1>0, <2>1, <2>5 DEF StackInv
    <3>5. Seen(q) = Stacked(q) \cup Finished(q)
      BY <2>2, <2>5
    <3>6. Stacked(q) \cap Finished(q) = {}
      <4>1. Stacked(t) \cap Finished(t) = {}
        BY <1>0 DEF StackInv
      <4> QED
        BY <1>1, <2>5, <4>1
    <3> QED
      BY <3>1, <3>2, <3>3, <3>4, <3>5, <3>6 DEF StackInv
  <2>9. CallInv(q)
    <3>1. t.call \in Seq(Vertices) /\ u = t.call[Len(t.call)] /\ DOMAIN t.call = 1 .. Len(t.call)
          /\ Len(t.call) \in Nat
      BY <1>0 DEF Tarjan, Last, u, t
    <3>2. ASSUME NEW i \in DOMAIN t.call, NEW j \in DOMAIN t.call, i < j
          PROVE  t.call[i] \in Stacked(q)
                 /\ (t.call[j] \in Stacked(q) => q.order[t.call[i]] < q.order[t.call[j]])
      <4>1. t.call[i] \in Stacked(t) /\ (t.call[j] \in Stacked(t) => t.order[t.call[i]] < t.order[t.call[j]])
        BY <1>0, <3>2 DEF CallInv
      <4> QED
        BY <2>2, <2>4, <2>5, <2>7, <4>1
    <3> QED
      BY <1>0, <2>1, <2>5, <3>2 DEF CallInv
  <2>10. CursorInv(q)
    BY <1>0, <1>1, <2>1, <2>5 DEF CursorInv
  <2>11. PathInv(q)
    <3>0. Gray(t) \subseteq Seen(t)
      BY DEF Gray
    <3>1. ASSUME NEW x \in Gray(q), NEW y \in Stacked(q), q.order[x] <= q.order[y]
          PROVE  Reach(x, y)
      <4>1. CASE x = u
        <5>1. y = u
          <6>1. y # u => q.order[y] < t.next /\ q.order[y] \in Nat
            BY <2>2, <2>5, <2>7
          <6> QED
            BY <2>2, <2>4, <3>1, <4>1, <6>1
        <5> QED
          BY <1>1, <4>1, <5>1, Reaching
      <4>2. CASE x # u /\ y # u
        <5>1. x \in Gray(t) /\ y \in Stacked(t) /\ t.order[x] <= t.order[y]
          BY <2>2, <2>5, <2>6, <2>7, <3>0, <3>1, <4>2
        <5> QED
          BY <1>0, <5>1 DEF PathInv
      <4>3. CASE x # u /\ y = u
        <5>1. x \in Calls(t) \ {u} /\ x \in Gray(t) /\ x \in Vertices
          BY <2>2, <2>6, <4>3 DEF Gray
        <5>2. PICK p \in Gray(t) \ {u} : u \in Adj(p) /\ t.order[x] <= t.order[p]
          BY <1>1, <5>1
        <5>3. p \in Stacked(t) /\ p \in Vertices
          BY <1>1, <2>2, <5>2 DEF Gray
        <5>4. Reach(x, p) /\ Reach(p, u)
          BY <1>0, <1>1, <5>1, <5>2, <5>3, Reaching DEF PathInv
        <5> QED
          BY <1>1, <4>3, <5>1, <5>3, <5>4, Reaching
      <4> QED
        BY <4>1, <4>2, <4>3
    <3>2. ASSUME NEW y \in Stacked(q)
          PROVE  \E x \in Gray(q) : q.order[x] <= q.order[y] /\ Reach(y, x)
      <4>1. CASE y = u
        BY <1>1, <2>2, <2>4, <2>6, <4>1, Reaching
      <4>2. CASE y # u
        <5>1. PICK x \in Gray(t) : t.order[x] <= t.order[y] /\ Reach(y, x)
          BY <1>0, <2>5, <4>2 DEF PathInv
        <5>2. x \in Seen(t) /\ y \in Seen(t)
          BY <2>2, <2>5, <4>2 DEF Gray
        <5> QED
          BY <2>6, <2>7, <5>1, <5>2
      <4> QED
        BY <4>1, <4>2
    <3> QED
      BY <3>1, <3>2 DEF PathInv
  <2>12. LowInv(q)
    <3>0. Gray(t) \subseteq Seen(t)
      BY DEF Gray
    <3>1. ASSUME NEW g \in Gray(q)
          PROVE  q.low[g] <= q.order[g] /\ \E w \in Stacked(q) : q.low[g] = q.order[w] /\ Reach(g, w)
      <4>1. CASE g = u
        BY <1>1, <2>2, <2>4, <2>5, <4>1, Reaching
      <4>2. CASE g # u
        <5>1. g \in Gray(t) /\ g \in Seen(t)
          BY <2>6, <3>0, <4>2
        <5>2. PICK w \in Stacked(t) : t.low[g] = t.order[w] /\ Reach(g, w)
          BY <1>0, <5>1 DEF LowInv
        <5>3. t.low[g] <= t.order[g] /\ q.low[g] = t.low[g] /\ q.order[g] = t.order[g]
              /\ q.order[w] = t.order[w]
          BY <1>0, <2>2, <2>4, <2>7, <5>1, <5>2 DEF LowInv
        <5> QED
          BY <2>5, <5>2, <5>3
      <4> QED
        BY <4>1, <4>2
    <3>2. ASSUME NEW g \in Gray(q), NEW v \in Stacked(q), NEW w \in q.cursor[v] \cap Stacked(q),
                 Owns(q, g, v)
          PROVE  q.low[g] <= q.order[w]
      <4>1. v # u /\ v \in Stacked(t)
        BY <1>0, <1>1, <2>1, <2>2, <2>5 DEF CursorInv
      <4>2. g # u /\ g \in Gray(t) /\ g \in Seen(t)
        <5>1. q.order[g] <= q.order[v]
          BY <3>2 DEF Owns
        <5>2. q.order[v] < t.next /\ q.order[v] \in Nat
          BY <2>2, <2>7, <4>1
        <5> QED
          BY <2>2, <2>4, <2>6, <3>0, <5>1, <5>2
      <4>3. Owns(t, g, v)
        BY <2>2, <2>6, <2>7, <3>0, <3>2, <4>1, <4>2 DEF Owns
      <4>4. t.low[g] <= t.order[g] /\ q.low[g] = t.low[g] /\ t.low[g] \in Nat /\ t.order[g] < t.next
        BY <1>0, <2>4, <2>7, <4>2, Places DEF LowInv
      <4>5. CASE w = u
        BY <2>2, <2>4, <2>7, <4>2, <4>4, <4>5
      <4>6. CASE w # u
        BY <1>0, <2>1, <2>2, <2>5, <2>7, <4>1, <4>2, <4>3, <4>4, <4>6 DEF LowInv
      <4> QED
        BY <4>5, <4>6
    <3> QED
      BY <3>1, <3>2 DEF LowInv
  <2>13. DoneInv(q)
    BY <1>0, <2>1, <2>5 DEF DoneInv
  <2>14. u \in Seen(q) /\ q.call = t.call
    BY <2>1, <2>5
  <2> QED
    BY <2>3, <2>8, <2>9, <2>10, <2>11, <2>12, <2>13, <2>14 DEF TarjanInv, q, u, t
<1> QED
  BY <1>2, <1>3

\* The targets passed lower low to the least number on the stack among them.
LEMMA PassedInv ==
  ASSUME NEW t, TarjanInv(t), t.call # <<>>, NEW u, u = Last(t.call), u \in Seen(t),
         NEW seen, seen \subseteq Left(t, u) \ Fresh(t, u)
  PROVE  /\ TarjanInv(Passed(t, u, seen))
         /\ Passed(t, u, seen).call = t.call /\ Seen(Passed(t, u, seen)) = Seen(t)
         /\ Passed(t, u, seen).cursor[u] = t.cursor[u] \cup seen
<1> DEFINE q == Passed(t, u, seen)
           l == Lowered(t, u, seen)
           S == {t.low[u]} \cup {t.order[w] : w \in seen \cap Stacked(t)}
<1>0. t \in Tarjan /\ StackInv(t) /\ CallInv(t) /\ CursorInv(t) /\ PathInv(t) /\ LowInv(t) /\ DoneInv(t)
  BY DEF TarjanInv
<1>1. /\ u \in Vertices /\ u \in Calls(t) /\ u \notin Finished(t)
      /\ \A x \in Calls(t) \ {u} : x \in Gray(t) /\ t.order[x] < t.order[u]
      /\ u \in Stacked(t) /\ u \in Gray(t)
  BY <1>0, LastCall DEF StackInv, Gray
<1>2. seen \subseteq Adj(u) /\ seen \subseteq Seen(t) /\ seen \subseteq Vertices
  <2>1. Adj(u) \subseteq Vertices
    BY <1>0, <1>1, Places
  <2> QED
    BY <2>1 DEF Left, Fresh, Seen
<1>3. /\ l \in Nat /\ l <= t.low[u] /\ \A w \in seen \cap Stacked(t) : l <= t.order[w]
      /\ l = t.low[u] \/ \E w \in seen \cap Stacked(t) : l = t.order[w]
  <2>1. S \subseteq Nat /\ S # {}
    BY <1>0, <1>1, <1>2, Places
  <2>2. l = Min(S)
    BY DEF Lowered, Stacked
  <2> HIDE DEF l
  <2>3. l \in S /\ \A k \in S : l <= k
    <3> HIDE DEF S
    <3> QED
      BY <2>1, <2>2, MinIsLeast
  <2> QED
    BY <2>1, <2>3
<1>4. /\ q.low = [t.low EXCEPT ![u] = l] /\ q.cursor = [t.cursor EXCEPT ![u] = @ \cup seen]
      /\ q.call = t.call /\ q.comps = t.comps /\ q.scc = t.scc /\ q.next = t.next
      /\ q.stack = t.stack /\ q.order = t.order
      /\ q = [call |-> t.call, stack |-> t.stack, next |-> t.next, comps |-> t.comps,
              order |-> t.order, low |-> q.low, cursor |-> q.cursor, scc |-> t.scc]
  <2> DEFINE lo == [t.low EXCEPT ![u] = l]
             cu == [t.cursor EXCEPT ![u] = @ \cup seen]
  <2>1. q = [t EXCEPT !.low = lo, !.cursor = cu]
    BY DEF Passed
  <2> HIDE DEF q, lo, cu
  <2>2. t = [call |-> t.call, stack |-> t.stack, next |-> t.next, comps |-> t.comps,
             order |-> t.order, low |-> t.low, cursor |-> t.cursor, scc |-> t.scc]
    BY <1>0 DEF Tarjan
  <2>3. /\ q.low = lo /\ q.cursor = cu
        /\ q.call = t.call /\ q.comps = t.comps /\ q.scc = t.scc /\ q.next = t.next
        /\ q.stack = t.stack /\ q.order = t.order
        /\ q = [call |-> t.call, stack |-> t.stack, next |-> t.next, comps |-> t.comps,
                order |-> t.order, low |-> q.low, cursor |-> q.cursor, scc |-> t.scc]
    BY <2>1, <2>2
  <2> QED
    BY <2>3 DEF lo, cu
<1> HIDE DEF q, l, S
<1>5. q \in Tarjan
  <2>1. l \in 0 .. Unseen
    <3>1. t.low[u] \in 0 .. Unseen
      BY <1>0, <1>1 DEF Tarjan
    <3>2. Unseen \in Nat
      BY <1>0, Places
    <3> QED
      BY <1>3, <3>1, <3>2
  <2>2. t.low \in [Vertices -> 0 .. Unseen] /\ t.cursor \in [Vertices -> SUBSET Vertices]
    BY <1>0 DEF Tarjan
  <2>3. q.low \in [Vertices -> 0 .. Unseen]
    <3>1. q.low = [t.low EXCEPT ![u] = l]
      BY <1>4
    <3> QED
      BY <2>1, <2>2, <3>1
  <2>4. q.cursor \in [Vertices -> SUBSET Vertices]
    <3>1. q.cursor = [t.cursor EXCEPT ![u] = @ \cup seen]
      BY <1>4
    <3> QED
      BY <1>1, <1>2, <2>2, <3>1
  <2> QED
    BY <1>0, <1>4, <2>3, <2>4 DEF Tarjan
<1>6. /\ \A v \in Vertices : v # u => q.low[v] = t.low[v] /\ q.cursor[v] = t.cursor[v]
      /\ q.low[u] = l /\ q.cursor[u] = t.cursor[u] \cup seen
  BY <1>0, <1>1, <1>4 DEF Tarjan
<1>7. /\ Seen(q) = Seen(t) /\ Finished(q) = Finished(t) /\ Calls(q) = Calls(t)
      /\ Stacked(q) = Stacked(t) /\ Gray(q) = Gray(t)
  BY <1>4 DEF Seen, Finished, Calls, Stacked, Gray
<1>8. StackInv(q) /\ CallInv(q) /\ PathInv(q) /\ DoneInv(q)
  <2>1. StackInv(q)
    BY <1>0, <1>4, <1>7 DEF StackInv
  <2>2. CallInv(q)
    BY <1>0, <1>4, <1>7 DEF CallInv
  <2>3. PathInv(q)
    BY <1>0, <1>4, <1>7 DEF PathInv
  <2>4. DoneInv(q)
    BY <1>0, <1>4, <1>7 DEF DoneInv
  <2> QED
    BY <2>1, <2>2, <2>3, <2>4
<1>9. CursorInv(q)
  <2>1. ASSUME NEW v \in Vertices PROVE q.cursor[v] \subseteq Seen(q) \cup Calls(q)
    BY <1>0, <1>2, <1>6, <1>7 DEF CursorInv
  <2>2. ASSUME NEW v \in Vertices \ Seen(q) PROVE q.cursor[v] = {}
    BY <1>0, <1>6, <1>7 DEF CursorInv
  <2>3. ASSUME NEW v \in Seen(q) \ Calls(q) PROVE Adj(v) \subseteq q.cursor[v]
    BY <1>0, <1>1, <1>6, <1>7, Places DEF CursorInv
  <2> QED
    BY <2>1, <2>2, <2>3 DEF CursorInv
<1>10. LowInv(q)
  <2>0. Gray(t) \subseteq Vertices /\ Stacked(t) \subseteq Vertices
        /\ \A v \in Vertices : t.order[v] \in Nat /\ t.low[v] \in Nat
    BY <1>0, Places DEF Gray
  <2>1. ASSUME NEW g \in Gray(q)
        PROVE  q.low[g] <= q.order[g] /\ \E w \in Stacked(q) : q.low[g] = q.order[w] /\ Reach(g, w)
    <3>1. t.low[g] <= t.order[g] /\ \E w \in Stacked(t) : t.low[g] = t.order[w] /\ Reach(g, w)
      BY <1>0, <1>7 DEF LowInv
    <3>2. CASE g # u
      BY <1>4, <1>6, <1>7, <2>0, <3>1, <3>2
    <3>3. CASE g = u
      <4>1. l <= t.order[u]
        BY <1>1, <1>3, <2>0, <3>1, <3>3
      <4>2. \E w \in Stacked(t) : l = t.order[w] /\ Reach(u, w)
        BY <1>1, <1>2, <1>3, <3>1, <3>3, Reaching
      <4> QED
        BY <1>4, <1>6, <1>7, <3>3, <4>1, <4>2
    <3> QED
      BY <3>2, <3>3
  <2>2. ASSUME NEW g \in Gray(q), NEW v \in Stacked(q), NEW w \in q.cursor[v] \cap Stacked(q),
               Owns(q, g, v)
        PROVE  q.low[g] <= q.order[w]
    <3>1. /\ g \in Gray(t) /\ v \in Stacked(t) /\ w \in Stacked(t) /\ Owns(t, g, v)
          /\ g \in Vertices /\ v \in Vertices /\ w \in Vertices
      BY <1>4, <1>7, <2>0, <2>2 DEF Owns
    <3>2. q.low[g] <= t.low[g]
      BY <1>3, <1>6, <2>0, <3>1
    <3>3. CASE w \in t.cursor[v]
      <4>1. t.low[g] <= t.order[w]
        BY <1>0, <3>1, <3>3 DEF LowInv
      <4>2. q.low[g] \in Nat
        BY <1>3, <1>6, <2>0, <3>1
      <4> QED
        BY <1>4, <2>0, <3>1, <3>2, <4>1, <4>2
    <3>4. CASE w \notin t.cursor[v]
      <4>1. v = u /\ w \in seen
        BY <1>6, <2>2, <3>1, <3>4
      <4>2. t.order[g] <= t.order[u] /\ t.order[u] <= t.order[g]
        BY <1>1, <2>0, <3>1, <4>1 DEF Owns
      <4>3. g = u
        <5>1. g \in Stacked(t)
          BY <1>0, <3>1, GrayStacked
        <5> QED
          BY <1>0, <1>1, <2>0, <3>1, <4>2, <5>1, Sorted
      <4> QED
        BY <1>3, <1>4, <1>6, <3>1, <4>1, <4>3
    <3> QED
      BY <3>3, <3>4
  <2> QED
    BY <2>1, <2>2 DEF LowInv
<1> QED
  BY <1>4, <1>5, <1>6, <1>7, <1>8, <1>9, <1>10 DEF TarjanInv, q

\* The call of an unseen target.
LEMMA CalledInv ==
  ASSUME NEW t, TarjanInv(t), t.call # <<>>, NEW u, u = Last(t.call), u \in Seen(t),
         NEW w \in Adj(u), w \notin Seen(t)
  PROVE  TarjanInv(Called(t, u, w))
<1> DEFINE q == Called(t, u, w)
           n == Len(t.call)
<1>0. t \in Tarjan /\ StackInv(t) /\ CallInv(t) /\ CursorInv(t) /\ PathInv(t) /\ LowInv(t) /\ DoneInv(t)
  BY DEF TarjanInv
<1>1. /\ u \in Vertices /\ u \in Calls(t) /\ u \in Stacked(t) /\ w \in Vertices
      /\ w \notin Stacked(t) /\ w \notin Finished(t)
  BY <1>0, LastCall, Places DEF StackInv
<1>2. /\ q.call = Append(t.call, w) /\ q.cursor = [t.cursor EXCEPT ![u] = @ \cup {w}]
      /\ q.low = t.low /\ q.comps = t.comps /\ q.scc = t.scc /\ q.next = t.next
      /\ q.stack = t.stack /\ q.order = t.order
      /\ q = [call |-> q.call, stack |-> t.stack, next |-> t.next, comps |-> t.comps,
              order |-> t.order, low |-> t.low, cursor |-> q.cursor, scc |-> t.scc]
  <2>1. t = [call |-> t.call, stack |-> t.stack, next |-> t.next, comps |-> t.comps,
             order |-> t.order, low |-> t.low, cursor |-> t.cursor, scc |-> t.scc]
    BY <1>0 DEF Tarjan
  <2> DEFINE cu == [t.cursor EXCEPT ![u] = @ \cup {w}]
             ca == Append(t.call, w)
  <2>2. q = [t EXCEPT !.cursor = cu, !.call = ca]
    BY DEF Called
  <2> HIDE DEF q, cu, ca
  <2>3. /\ q.call = ca /\ q.cursor = cu
        /\ q.low = t.low /\ q.comps = t.comps /\ q.scc = t.scc /\ q.next = t.next
        /\ q.stack = t.stack /\ q.order = t.order
        /\ q = [call |-> q.call, stack |-> t.stack, next |-> t.next, comps |-> t.comps,
                order |-> t.order, low |-> t.low, cursor |-> q.cursor, scc |-> t.scc]
    BY <2>1, <2>2
  <2> QED
    BY <2>3 DEF cu, ca
<1>3. /\ n \in Nat /\ n # 0 /\ DOMAIN t.call = 1 .. n /\ t.call[n] = u /\ t.call \in Seq(Vertices)
      /\ DOMAIN q.call = 1 .. n + 1 /\ q.call[n + 1] = w /\ q.call \in Seq(Vertices)
      /\ \A i \in 1 .. n : q.call[i] = t.call[i]
  BY <1>0, <1>1, <1>2 DEF Last, Tarjan
<1> HIDE DEF q, n
<1>4. /\ \A v \in Vertices : v # u => q.cursor[v] = t.cursor[v]
      /\ q.cursor[u] = t.cursor[u] \cup {w} /\ q.cursor \in [Vertices -> SUBSET Vertices]
  <2>1. t.cursor \in [Vertices -> SUBSET Vertices] /\ q.cursor = [t.cursor EXCEPT ![u] = @ \cup {w}]
    BY <1>0, <1>2 DEF Tarjan
  <2> QED
    BY <1>1, <2>1
<1>5. q \in Tarjan
  BY <1>0, <1>2, <1>3, <1>4 DEF Tarjan
<1>6. /\ Seen(q) = Seen(t) /\ Finished(q) = Finished(t) /\ Stacked(q) = Stacked(t)
      /\ Calls(q) = Calls(t) \cup {w}
  <2>1. Calls(q) = Calls(t) \cup {w}
    BY <1>3 DEF Calls, ToSet
  <2> QED
    BY <1>2, <2>1 DEF Seen, Finished, Stacked
<1>7. Gray(q) = Gray(t)
  BY <1>6 DEF Gray
<1>8. StackInv(q) /\ PathInv(q) /\ DoneInv(q)
  <2>1. StackInv(q)
    BY <1>0, <1>2, <1>6 DEF StackInv
  <2>2. PathInv(q)
    BY <1>0, <1>2, <1>6, <1>7 DEF PathInv
  <2>3. DoneInv(q)
    BY <1>0, <1>2, <1>6 DEF DoneInv
  <2> QED
    BY <2>1, <2>2, <2>3
<1>9. CallInv(q)
  <2>1. ASSUME NEW i \in 1 .. n + 1 PROVE q.call[i] \notin Finished(q)
    BY <1>0, <1>1, <1>3, <1>6 DEF CallInv
  <2>2. ASSUME NEW i \in 1 .. n + 1, NEW j \in 1 .. n + 1, i < j
        PROVE  /\ q.call[i] \in Stacked(q)
               /\ q.call[j] \in Stacked(q) => q.order[q.call[i]] < q.order[q.call[j]]
    <3>1. CASE j = n + 1
      <4>1. i \in 1 .. n /\ (i = n \/ i < n) /\ n \in 1 .. n
        BY <1>3, <2>2, <3>1
      <4>2. t.call[i] \in Stacked(t)
        BY <1>0, <1>1, <1>3, <4>1 DEF CallInv
      <4> QED
        BY <1>1, <1>3, <1>6, <3>1, <4>1, <4>2
    <3>2. CASE j # n + 1
      <4>1. i \in 1 .. n /\ j \in 1 .. n
        BY <1>3, <2>2, <3>2
      <4> QED
        BY <1>0, <1>2, <1>3, <1>6, <2>2, <4>1 DEF CallInv
    <3> QED
      BY <3>1, <3>2
  <2>3. ASSUME NEW i \in 1 .. n + 1, i # 1 PROVE q.call[i] \in Adj(q.call[i - 1])
    <3>1. CASE i = n + 1
      BY <1>3, <3>1
    <3>2. CASE i # n + 1
      <4>1. i \in 1 .. n /\ i - 1 \in 1 .. n
        BY <1>3, <2>3, <3>2
      <4> QED
        BY <1>0, <1>3, <2>3, <4>1 DEF CallInv
    <3> QED
      BY <3>1, <3>2
  <2> QED
    BY <1>3, <2>1, <2>2, <2>3 DEF CallInv
<1>10. CursorInv(q)
  <2>1. ASSUME NEW v \in Vertices PROVE q.cursor[v] \subseteq Seen(q) \cup Calls(q)
    BY <1>0, <1>4, <1>6 DEF CursorInv
  <2>2. ASSUME NEW v \in Vertices \ Seen(q) PROVE q.cursor[v] = {}
    BY <1>0, <1>4, <1>6 DEF CursorInv
  <2>3. ASSUME NEW v \in Seen(q) \ Calls(q) PROVE Adj(v) \subseteq q.cursor[v]
    BY <1>0, <1>1, <1>4, <1>6, Places DEF CursorInv
  <2> QED
    BY <2>1, <2>2, <2>3 DEF CursorInv
<1>11. LowInv(q)
  <2>1. \A v \in Stacked(q) : q.cursor[v] \cap Stacked(q) = t.cursor[v] \cap Stacked(t)
    BY <1>0, <1>1, <1>4, <1>6, Places
  <2>2. \A g, v : Owns(q, g, v) <=> Owns(t, g, v)
    BY <1>2, <1>7 DEF Owns
  <2> QED
    BY <1>0, <1>2, <1>6, <1>7, <2>1, <2>2 DEF LowInv
<1> QED
  BY <1>5, <1>8, <1>9, <1>10, <1>11 DEF TarjanInv, q

\* All but the last of a sequence.
LEMMA Fronts ==
  ASSUME NEW S, NEW q \in Seq(S), q # <<>>
  PROVE  /\ Len(q) \in Nat /\ Len(q) # 0 /\ DOMAIN q = 1 .. Len(q) /\ Last(q) = q[Len(q)]
         /\ Last(q) \in S
         /\ Front(q) \in Seq(S) /\ Len(Front(q)) = Len(q) - 1 /\ DOMAIN Front(q) = 1 .. Len(q) - 1
         /\ \A i \in 1 .. Len(q) - 1 : i \in 1 .. Len(q) /\ Front(q)[i] = q[i] /\ q[i] \in S
<1> DEFINE n == Len(q)
<1>1. n \in Nat /\ n # 0 /\ DOMAIN q = 1 .. n /\ \A i \in 1 .. n : q[i] \in S
  OBVIOUS
<1>2. Front(q) = SubSeq(q, 1, n - 1) /\ Last(q) = q[n]
  BY DEF Front, Last
<1> HIDE DEF n
<1>3. n \in 1 .. n /\ \A i \in 1 .. n - 1 : i \in 1 .. n
  BY <1>1
<1>4. /\ SubSeq(q, 1, n - 1) \in Seq(S) /\ Len(SubSeq(q, 1, n - 1)) = n - 1
      /\ \A i \in 1 .. n - 1 : SubSeq(q, 1, n - 1)[i] = q[i]
  BY <1>1, <1>3
<1>5. DOMAIN SubSeq(q, 1, n - 1) = 1 .. n - 1
  BY <1>4
<1> QED
  BY <1>1, <1>2, <1>3, <1>4, <1>5 DEF n

\* A sequence with one more element.
LEMMA Appended ==
  ASSUME NEW S, NEW q \in Seq(S), NEW e \in S, NEW a, a = Append(q, e), NEW n, n = Len(q)
  PROVE  /\ a \in Seq(S) /\ Len(a) = n + 1 /\ DOMAIN a = 1 .. n + 1 /\ a[n + 1] = e
         /\ \A i \in 1 .. n : a[i] = q[i]
  OBVIOUS

\* The call that ends: its node is no longer being visited, and its parent's
\* low is now at most its own.
LEMMA ReturnedFacts ==
  ASSUME NEW t, TarjanInv(t), t.call # <<>>, NEW u, u = Last(t.call), u \in Seen(t),
         Adj(u) \subseteq t.cursor[u]
  PROVE  LET q == Returned(t, u)
         IN  /\ q \in Tarjan /\ StackInv(q) /\ CallInv(q) /\ CursorInv(q) /\ DoneInv(q)
             /\ q.order = t.order /\ q.stack = t.stack /\ q.cursor = t.cursor /\ q.scc = t.scc
             /\ q.comps = t.comps /\ q.next = t.next /\ q.low[u] = t.low[u]
             /\ Seen(q) = Seen(t) /\ Stacked(q) = Stacked(t) /\ Finished(q) = Finished(t)
             /\ Calls(q) = Calls(t) \ {u} /\ Gray(q) = Gray(t) \ {u} /\ Calls(q) = Gray(q)
             /\ \A g \in Gray(q) : /\ t.order[g] < t.order[u] /\ q.low[g] <= t.low[g]
                                   /\ q.low[g] # t.low[g] => q.low[g] = t.low[u] /\ u \in Adj(g)
                                   /\ (\A x \in Gray(q) : t.order[x] <= t.order[g]) =>
                                        q.low[g] <= t.low[u]
<1> DEFINE q == Returned(t, u)
           n == Len(t.call)
           p == Last(Front(t.call))
           m == Min({t.low[p], t.low[u]})
           lo == IF Front(t.call) = <<>> THEN t.low ELSE [t.low EXCEPT ![p] = m]
<1>0. t \in Tarjan /\ StackInv(t) /\ CallInv(t) /\ CursorInv(t) /\ PathInv(t) /\ LowInv(t) /\ DoneInv(t)
  BY DEF TarjanInv
<1>1. /\ u \in Vertices /\ u \in Calls(t) /\ u \in Stacked(t) /\ u \notin Finished(t)
      /\ \A x \in Calls(t) \ {u} : /\ x \in Stacked(t) /\ x \in Gray(t) /\ t.order[x] < t.order[u]
                                   /\ x \in Vertices
  BY <1>0, LastCall, Places DEF StackInv
<1>2. /\ n \in Nat /\ n # 0 /\ DOMAIN t.call = 1 .. n /\ t.call[n] = u /\ t.call \in Seq(Vertices)
      /\ Front(t.call) \in Seq(Vertices) /\ Len(Front(t.call)) = n - 1
      /\ DOMAIN Front(t.call) = 1 .. n - 1
      /\ \A i \in 1 .. n - 1 : Front(t.call)[i] = t.call[i] /\ t.call[i] \in Vertices
  <2>1. t.call \in Seq(Vertices)
    BY <1>0 DEF Tarjan
  <2> QED
    BY <2>1, Fronts
<1>3. /\ q.call = Front(t.call) /\ q.low = lo /\ q.cursor = t.cursor /\ q.comps = t.comps
      /\ q.scc = t.scc /\ q.next = t.next /\ q.stack = t.stack /\ q.order = t.order
      /\ q = [call |-> q.call, stack |-> t.stack, next |-> t.next, comps |-> t.comps,
              order |-> t.order, low |-> q.low, cursor |-> t.cursor, scc |-> t.scc]
  <2>1. t = [call |-> t.call, stack |-> t.stack, next |-> t.next, comps |-> t.comps,
             order |-> t.order, low |-> t.low, cursor |-> t.cursor, scc |-> t.scc]
    BY <1>0 DEF Tarjan
  <2> DEFINE ca == Front(t.call)
  <2>2. q = [t EXCEPT !.call = ca, !.low = lo]
    BY DEF Returned
  <2> HIDE DEF q, ca, lo
  <2>3. /\ q.call = ca /\ q.low = lo /\ q.cursor = t.cursor /\ q.comps = t.comps
        /\ q.scc = t.scc /\ q.next = t.next /\ q.stack = t.stack /\ q.order = t.order
        /\ q = [call |-> q.call, stack |-> t.stack, next |-> t.next, comps |-> t.comps,
                order |-> t.order, low |-> q.low, cursor |-> t.cursor, scc |-> t.scc]
    BY <2>1, <2>2
  <2> QED
    BY <2>3 DEF ca
<1>4. \A i \in 1 .. n - 1 : t.call[i] # u
  <2>1. SUFFICES ASSUME NEW i \in 1 .. n - 1, t.call[i] = u PROVE FALSE
    OBVIOUS
  <2>2. i \in 1 .. n /\ n \in 1 .. n /\ i < n
    BY <1>2
  <2>3. t.order[u] < t.order[u]
    BY <1>0, <1>1, <1>2, <2>1, <2>2 DEF CallInv
  <2> QED
    BY <1>0, <1>1, <2>3, Places
<1>5. Front(t.call) # <<>> => n - 1 \in 1 .. n - 1 /\ p = t.call[n - 1]
  BY <1>2 DEF Last
<1>6. Front(t.call) # <<>> => p \in Gray(t) /\ p # u /\ u \in Adj(p) /\ p \in Vertices
  <2>1. SUFFICES ASSUME Front(t.call) # <<>> PROVE p \in Gray(t) /\ p # u /\ u \in Adj(p) /\ p \in Vertices
    OBVIOUS
  <2>2. p = t.call[n - 1] /\ n - 1 \in 1 .. n - 1 /\ n \in 1 .. n /\ n # 1 /\ n - 1 \in 1 .. n
    BY <1>2, <1>5, <2>1
  <2> HIDE DEF p
  <2>3. p # u /\ u \in Adj(p)
    BY <1>0, <1>2, <1>4, <2>2 DEF CallInv
  <2>4. p \in Calls(t)
    BY <1>2, <2>2 DEF Calls, ToSet
  <2> QED
    BY <1>1, <2>3, <2>4
<1> HIDE DEF q, n, p, lo
<1>7. Calls(q) = Calls(t) \ {u} /\ Gray(q) = Gray(t) \ {u} /\ Calls(q) = Gray(q)
      /\ Seen(q) = Seen(t) /\ Stacked(q) = Stacked(t) /\ Finished(q) = Finished(t)
  <2>1. \A i \in 1 .. n : i # n => i \in 1 .. n - 1
    BY <1>2
  <2>2. Calls(q) = Calls(t) \ {u}
    <3>1. Calls(t) = {t.call[i] : i \in 1 .. n}
      BY <1>2 DEF Calls, ToSet
    <3>2. Calls(q) = {Front(t.call)[i] : i \in 1 .. n - 1}
      BY <1>2, <1>3 DEF Calls, ToSet
    <3>3. Calls(q) = {t.call[i] : i \in 1 .. n - 1}
      BY <1>2, <3>2
    <3>4. \A i \in 1 .. n - 1 : i \in 1 .. n
      BY <1>2
    <3> QED
      BY <1>2, <1>4, <2>1, <3>1, <3>3, <3>4
  <2>3. Seen(q) = Seen(t) /\ Stacked(q) = Stacked(t) /\ Finished(q) = Finished(t)
    BY <1>3 DEF Seen, Stacked, Finished
  <2> QED
    BY <1>1, <2>2, <2>3 DEF Gray
<1>8. /\ \A v \in Vertices : t.low[v] \in 0 .. Unseen /\ t.low[v] \in Nat /\ t.order[v] \in Nat
      /\ Unseen \in Nat
  BY <1>0, Places DEF Tarjan
<1>9. Front(t.call) # <<>> =>
        /\ m \in 0 .. Unseen /\ m <= t.low[p] /\ m <= t.low[u] /\ (m = t.low[p] \/ m = t.low[u])
  <2>1. SUFFICES ASSUME Front(t.call) # <<>>
                 PROVE  m \in 0 .. Unseen /\ m <= t.low[p] /\ m <= t.low[u] /\ (m = t.low[p] \/ m = t.low[u])
    OBVIOUS
  <2> DEFINE S == {t.low[p], t.low[u]}
  <2>2. S \subseteq Nat /\ S # {}
    BY <1>1, <1>6, <1>8, <2>1
  <2>3. m = Min(S)
    OBVIOUS
  <2> HIDE DEF m
  <2>4. m \in S /\ \A k \in S : m <= k
    <3> HIDE DEF S
    <3> QED
      BY <2>2, <2>3, MinIsLeast
  <2> QED
    BY <1>1, <1>6, <1>8, <2>1, <2>4
<1> HIDE DEF m
<1>10. /\ lo \in [Vertices -> 0 .. Unseen] /\ lo[u] = t.low[u]
       /\ \A v \in Vertices : v # p \/ Front(t.call) = <<>> => lo[v] = t.low[v]
       /\ Front(t.call) # <<>> => lo[p] = m
  <2>1. t.low \in [Vertices -> 0 .. Unseen]
    BY <1>0 DEF Tarjan
  <2> QED
    BY <1>1, <1>6, <1>9, <2>1 DEF lo
<1>11. q \in Tarjan
  BY <1>0, <1>2, <1>3, <1>10 DEF Tarjan
<1>12. StackInv(q)
  BY <1>0, <1>3, <1>7 DEF StackInv
<1>13. CallInv(q)
  <2>1. \A i \in 1 .. n - 1 : i \in 1 .. n /\ (i # 1 => i - 1 \in 1 .. n - 1 /\ i - 1 \in 1 .. n)
    BY <1>2
  <2>2. \A i \in DOMAIN q.call : q.call[i] \notin Finished(q)
    BY <1>0, <1>2, <1>3, <1>7, <2>1 DEF CallInv
  <2>3. \A i, j \in DOMAIN q.call :
          i < j => /\ q.call[i] \in Stacked(q)
                   /\ q.call[j] \in Stacked(q) => q.order[q.call[i]] < q.order[q.call[j]]
    BY <1>0, <1>2, <1>3, <1>7, <2>1 DEF CallInv
  <2>4. \A i \in DOMAIN q.call : i # 1 => q.call[i] \in Adj(q.call[i - 1])
    BY <1>0, <1>2, <1>3, <2>1 DEF CallInv
  <2> QED
    BY <2>2, <2>3, <2>4 DEF CallInv
<1>14. CursorInv(q)
  <2>1. ASSUME NEW v \in Vertices PROVE q.cursor[v] \subseteq Seen(q) \cup Calls(q)
    BY <1>0, <1>3, <1>7 DEF CursorInv
  <2>2. ASSUME NEW v \in Vertices \ Seen(q) PROVE q.cursor[v] = {}
    BY <1>0, <1>3, <1>7 DEF CursorInv
  <2>3. ASSUME NEW v \in Seen(q) \ Calls(q) PROVE Adj(v) \subseteq q.cursor[v]
    <3>1. CASE v = u
      BY <1>3, <3>1
    <3>2. CASE v # u
      BY <1>0, <1>3, <1>7, <3>2 DEF CursorInv
    <3> QED
      BY <3>1, <3>2
  <2> QED
    BY <2>1, <2>2, <2>3 DEF CursorInv
<1>15. DoneInv(q)
  BY <1>0, <1>3, <1>7 DEF DoneInv
<1>16. ASSUME NEW g \in Gray(q)
       PROVE  /\ t.order[g] < t.order[u] /\ q.low[g] <= t.low[g]
              /\ q.low[g] # t.low[g] => q.low[g] = t.low[u] /\ u \in Adj(g)
              /\ (\A x \in Gray(q) : t.order[x] <= t.order[g]) => q.low[g] <= t.low[u]
  <2>1. g \in Calls(t) \ {u} /\ g \in Vertices /\ t.order[g] < t.order[u] /\ g \in Stacked(t)
    BY <1>1, <1>7
  <2>2. Front(t.call) # <<>>
    <3>1. SUFFICES ASSUME Front(t.call) = <<>> PROVE FALSE
      OBVIOUS
    <3>2. 1 .. n - 1 = {}
      BY <1>2, <3>1
    <3> QED
      BY <1>2, <1>3, <1>7, <2>1, <3>1 DEF Calls, ToSet
  <2>3. q.low[g] <= t.low[g]
    BY <1>3, <1>8, <1>9, <1>10, <2>1, <2>2
  <2>4. q.low[g] # t.low[g] => q.low[g] = t.low[u] /\ u \in Adj(g)
    BY <1>3, <1>6, <1>8, <1>9, <1>10, <2>1, <2>2
  <2>5. ASSUME \A x \in Gray(q) : t.order[x] <= t.order[g]
        PROVE  q.low[g] <= t.low[u]
    <3>1. p \in Gray(q)
      BY <1>6, <1>7, <2>2
    <3>2. t.order[p] <= t.order[g] /\ p \in Stacked(t)
      BY <1>1, <1>7, <2>5, <3>1
    <3>3. t.order[g] <= t.order[p]
      <4>1. \E i \in 1 .. n - 1 : g = t.call[i]
        <5>1. g \in Calls(q) /\ q.call = Front(t.call)
          BY <1>3, <1>7
        <5> QED
          BY <1>2, <5>1 DEF Calls, ToSet
      <4>2. PICK i \in 1 .. n - 1 : g = t.call[i]
        BY <4>1
      <4>3. i \in 1 .. n /\ n - 1 \in 1 .. n /\ (i = n - 1 \/ i < n - 1)
        BY <1>2, <4>2
      <4>4. p = t.call[n - 1]
        BY <1>5, <2>2
      <4>5. CASE i = n - 1
        BY <1>8, <2>1, <4>2, <4>4, <4>5
      <4>6. CASE i < n - 1
        <5>1. t.order[g] < t.order[p]
          BY <1>0, <1>2, <3>2, <4>2, <4>3, <4>4, <4>6 DEF CallInv
        <5> QED
          BY <1>6, <1>8, <2>1, <2>2, <5>1
      <4> QED
        BY <4>3, <4>5, <4>6
    <3>4. t.order[p] = t.order[g]
      BY <1>6, <1>8, <2>1, <2>2, <3>2, <3>3
    <3>5. g = p
      BY <1>0, <2>1, <3>2, <3>4, Sorted
    <3> QED
      BY <1>3, <1>9, <1>10, <2>2, <3>5
  <2> QED
    BY <2>1, <2>3, <2>4, <2>5
<1> QED
  BY <1>3, <1>7, <1>10, <1>11, <1>12, <1>13, <1>14, <1>15, <1>16 DEF q

\* A node whose low is below its number stays on the stack when its call ends.
LEMMA BackInv ==
  ASSUME NEW t, TarjanInv(t), t.call # <<>>, NEW u, u = Last(t.call), u \in Seen(t),
         Adj(u) \subseteq t.cursor[u], t.low[u] # t.order[u]
  PROVE  TarjanInv(Popped(Returned(t, u), u))
<1> DEFINE q == Returned(t, u)
<1>0. t \in Tarjan /\ StackInv(t) /\ CallInv(t) /\ CursorInv(t) /\ PathInv(t) /\ LowInv(t) /\ DoneInv(t)
  BY DEF TarjanInv
<1>1. /\ q \in Tarjan /\ StackInv(q) /\ CallInv(q) /\ CursorInv(q) /\ DoneInv(q)
      /\ q.order = t.order /\ q.stack = t.stack /\ q.cursor = t.cursor /\ q.low[u] = t.low[u]
      /\ Stacked(q) = Stacked(t) /\ Gray(q) = Gray(t) \ {u}
      /\ \A g \in Gray(q) : /\ t.order[g] < t.order[u] /\ q.low[g] <= t.low[g]
                            /\ q.low[g] # t.low[g] => q.low[g] = t.low[u] /\ u \in Adj(g)
                            /\ (\A x \in Gray(q) : t.order[x] <= t.order[g]) => q.low[g] <= t.low[u]
  BY ReturnedFacts
<1>2. Popped(q, u) = q
  BY <1>1 DEF Popped
<1> HIDE DEF q
<1>3. /\ u \in Vertices /\ u \in Gray(t) /\ u \in Stacked(t)
      /\ Stacked(t) \subseteq Vertices /\ Gray(t) \subseteq Stacked(t)
      /\ \A v \in Vertices : t.order[v] \in Nat /\ t.low[v] \in Nat /\ q.low[v] \in Nat
  BY <1>0, <1>1, LastCall, Places, GrayStacked DEF Gray
<1>4. PICK w \in Stacked(t) : t.low[u] = t.order[w] /\ Reach(u, w) /\ t.order[w] < t.order[u]
  <2>1. t.low[u] <= t.order[u] /\ \E w \in Stacked(t) : t.low[u] = t.order[w] /\ Reach(u, w)
    BY <1>0, <1>3 DEF LowInv
  <2> QED
    BY <1>3, <2>1
<1>5. PICK x \in Gray(t) : t.order[x] <= t.order[w] /\ Reach(w, x)
  BY <1>0, <1>4 DEF PathInv
<1>6. x # u /\ x \in Gray(q) /\ t.order[x] < t.order[u] /\ Reach(u, x)
  <2>1. t.order[x] < t.order[u] /\ x \in Vertices /\ w \in Vertices
    BY <1>3, <1>4, <1>5
  <2>2. Reach(u, x)
    BY <1>3, <1>4, <1>5, <2>1, Reaching
  <2> QED
    BY <1>1, <1>3, <1>5, <2>1, <2>2
<1>7. PathInv(q)
  <2>1. \A a \in Gray(q), b \in Stacked(q) : q.order[a] <= q.order[b] => Reach(a, b)
    BY <1>0, <1>1 DEF PathInv
  <2>2. ASSUME NEW y \in Stacked(q)
        PROVE  \E g \in Gray(q) : q.order[g] <= q.order[y] /\ Reach(y, g)
    <3>1. PICK g \in Gray(t) : t.order[g] <= t.order[y] /\ Reach(y, g)
      BY <1>0, <1>1 DEF PathInv
    <3>2. CASE g # u
      BY <1>1, <3>1, <3>2
    <3>3. CASE g = u
      <4>1. t.order[x] <= t.order[y] /\ y \in Vertices /\ x \in Vertices
        BY <1>1, <1>3, <1>5, <1>6, <3>1, <3>3
      <4>2. Reach(y, x)
        BY <1>3, <1>6, <3>1, <3>3, <4>1, Reaching
      <4> QED
        BY <1>1, <1>6, <4>1, <4>2
    <3> QED
      BY <3>2, <3>3
  <2> QED
    BY <2>1, <2>2 DEF PathInv
<1>8. LowInv(q)
  <2>1. ASSUME NEW g \in Gray(q)
        PROVE  q.low[g] <= q.order[g] /\ \E v \in Stacked(q) : q.low[g] = q.order[v] /\ Reach(g, v)
    <3>1. /\ g \in Gray(t) /\ g \in Vertices /\ q.low[g] <= t.low[g] /\ t.low[g] <= t.order[g]
          /\ \E v \in Stacked(t) : t.low[g] = t.order[v] /\ Reach(g, v)
      BY <1>0, <1>1, <1>3 DEF LowInv
    <3>2. q.low[g] <= q.order[g]
      BY <1>1, <1>3, <3>1
    <3>3. CASE q.low[g] = t.low[g]
      BY <1>1, <3>1, <3>2, <3>3
    <3>4. CASE q.low[g] # t.low[g]
      <4>1. q.low[g] = t.order[w] /\ u \in Adj(g)
        BY <1>1, <1>4, <3>4
      <4>2. Reach(g, w)
        BY <1>3, <1>4, <3>1, <4>1, Reaching
      <4> QED
        BY <1>1, <1>4, <3>2, <4>1, <4>2
    <3> QED
      BY <3>3, <3>4
  <2>2. ASSUME NEW g \in Gray(q), NEW v \in Stacked(q), NEW b \in q.cursor[v] \cap Stacked(q),
               Owns(q, g, v)
        PROVE  q.low[g] <= q.order[b]
    <3>1. /\ g \in Gray(t) /\ v \in Stacked(t) /\ b \in Stacked(t) /\ b \in t.cursor[v]
          /\ g \in Vertices /\ v \in Vertices /\ b \in Vertices
          /\ q.low[g] <= t.low[g] /\ t.order[g] <= t.order[v] /\ t.order[g] < t.order[u]
          /\ \A r \in Gray(q) : t.order[r] <= t.order[v] => t.order[r] <= t.order[g]
      BY <1>1, <1>3, <2>2 DEF Owns
    <3>2. CASE t.order[u] <= t.order[v]
      <4>1. \A r \in Gray(t) : t.order[r] <= t.order[u]
        BY <1>1, <1>3
      <4>2. Owns(t, u, v)
        BY <3>2, <4>1 DEF Owns
      <4>3. t.low[u] <= t.order[b]
        BY <1>0, <1>3, <3>1, <4>2 DEF LowInv
      <4>4. \A r \in Gray(q) : t.order[r] <= t.order[g]
        <5>1. ASSUME NEW r \in Gray(q) PROVE t.order[r] <= t.order[g]
          <6>1. t.order[r] < t.order[u] /\ r \in Vertices
            BY <1>1, <1>3
          <6>2. t.order[r] <= t.order[v]
            BY <1>3, <3>1, <3>2, <6>1
          <6> QED
            BY <3>1, <6>2
        <5> QED
          BY <5>1
      <4>5. q.low[g] <= t.low[u]
        BY <1>1, <4>4
      <4> QED
        BY <1>1, <1>3, <3>1, <4>3, <4>5
    <3>3. CASE ~(t.order[u] <= t.order[v])
      <4>1. Owns(t, g, v)
        BY <1>1, <3>1, <3>3 DEF Owns
      <4>2. t.low[g] <= t.order[b]
        BY <1>0, <3>1, <4>1 DEF LowInv
      <4> QED
        BY <1>1, <1>3, <3>1, <4>2
    <3> QED
      BY <3>2, <3>3
  <2> QED
    BY <2>1, <2>2 DEF LowInv
<1> QED
  BY <1>1, <1>2, <1>7, <1>8 DEF TarjanInv, q

\* A node whose low is its number completes its component.
LEMMA PopInv ==
  ASSUME NEW t, TarjanInv(t), t.call # <<>>, NEW u, u = Last(t.call), u \in Seen(t),
         Adj(u) \subseteq t.cursor[u], t.low[u] = t.order[u]
  PROVE  TarjanInv(Popped(Returned(t, u), u))
<1> DEFINE q == Returned(t, u)
           r == Popped(q, u)
           n == Len(t.stack)
           at == CHOOSE i \in DOMAIN q.stack : q.stack[i] = u
           C == {q.stack[i] : i \in at .. Len(q.stack)}
           B == {v \in Stacked(t) : t.order[v] < t.order[u]}
<1>0. t \in Tarjan /\ StackInv(t) /\ CallInv(t) /\ CursorInv(t) /\ PathInv(t) /\ LowInv(t) /\ DoneInv(t)
  BY DEF TarjanInv
<1>1. /\ q \in Tarjan /\ StackInv(q) /\ CallInv(q) /\ CursorInv(q) /\ DoneInv(q)
      /\ q.order = t.order /\ q.stack = t.stack /\ q.cursor = t.cursor /\ q.scc = t.scc
      /\ q.comps = t.comps /\ q.next = t.next /\ q.low[u] = t.low[u]
      /\ Seen(q) = Seen(t) /\ Stacked(q) = Stacked(t) /\ Finished(q) = Finished(t)
      /\ Calls(q) = Calls(t) \ {u} /\ Gray(q) = Gray(t) \ {u} /\ Calls(q) = Gray(q)
      /\ \A g \in Gray(q) : /\ t.order[g] < t.order[u] /\ q.low[g] <= t.low[g]
                            /\ q.low[g] # t.low[g] => q.low[g] = t.low[u] /\ u \in Adj(g)
  BY ReturnedFacts
<1>2. /\ r.stack = SubSeq(t.stack, 1, at - 1) /\ r.comps = t.comps + 1
      /\ r.scc = [v \in Vertices |-> IF v \in C THEN t.comps ELSE t.scc[v]]
      /\ r.call = q.call /\ r.low = q.low /\ r.cursor = t.cursor /\ r.next = t.next /\ r.order = t.order
      /\ r = [call |-> q.call, stack |-> r.stack, next |-> t.next, comps |-> r.comps,
              order |-> t.order, low |-> q.low, cursor |-> t.cursor, scc |-> r.scc]
  <2> DEFINE sc == [v \in Vertices |-> IF v \in C THEN q.comps ELSE q.scc[v]]
             st == SubSeq(q.stack, 1, at - 1)
  <2>1. r = [q EXCEPT !.stack = st, !.comps = @ + 1, !.scc = sc]
    BY <1>1 DEF Popped
  <2> HIDE DEF r, sc, st, q, at
  <2>2. q = [call |-> q.call, stack |-> q.stack, next |-> q.next, comps |-> q.comps,
             order |-> q.order, low |-> q.low, cursor |-> q.cursor, scc |-> q.scc]
    BY <1>1 DEF Tarjan
  <2>3. /\ r.stack = st /\ r.comps = q.comps + 1 /\ r.scc = sc
        /\ r.call = q.call /\ r.low = q.low /\ r.cursor = q.cursor /\ r.next = q.next
        /\ r.order = q.order
        /\ r = [call |-> q.call, stack |-> r.stack, next |-> q.next, comps |-> r.comps,
                order |-> q.order, low |-> q.low, cursor |-> q.cursor, scc |-> r.scc]
    BY <2>1, <2>2
  <2>4. st = SubSeq(t.stack, 1, at - 1) /\ sc = [v \in Vertices |-> IF v \in C THEN t.comps ELSE t.scc[v]]
    BY <1>1 DEF st, sc
  <2> QED
    BY <1>1, <2>3, <2>4
<1> HIDE DEF r
<1>3. /\ u \in Vertices /\ u \in Stacked(t) /\ u \in Gray(t) /\ u \notin Finished(t)
      /\ Stacked(t) \subseteq Vertices /\ Finished(t) \subseteq Vertices
      /\ Seen(t) \subseteq Vertices /\ Gray(t) \subseteq Stacked(t) /\ Calls(t) \subseteq Vertices
      /\ Seen(t) = Stacked(t) \cup Finished(t) /\ Stacked(t) \cap Finished(t) = {}
      /\ \A v \in Vertices : t.order[v] \in Nat /\ q.low[v] \in Nat /\ Adj(v) \subseteq Vertices
      /\ Unseen = NodeCount /\ NodeCount \in Nat
  <2>1. u \in Vertices /\ u \in Calls(t) /\ u \notin Finished(t)
    BY <1>0, LastCall
  <2>2. /\ Seen(t) = Stacked(t) \cup Finished(t) /\ Stacked(t) \cap Finished(t) = {}
        /\ Gray(t) \subseteq Stacked(t)
    BY <1>0, GrayStacked DEF StackInv
  <2>3. \A v \in Vertices : q.low[v] \in Nat
    BY <1>1, Places
  <2> QED
    BY <1>0, <2>1, <2>2, <2>3, Places DEF Gray
<1>4. /\ n \in Nat /\ DOMAIN t.stack = 1 .. n /\ t.stack \in Seq(Vertices)
      /\ at \in 1 .. n /\ t.stack[at] = u
      /\ C = {t.stack[i] : i \in at .. n}
  <2>1. n \in Nat /\ DOMAIN t.stack = 1 .. n /\ t.stack \in Seq(Vertices)
    BY <1>0 DEF Tarjan
  <2>2. \E i \in DOMAIN q.stack : q.stack[i] = u
    BY <1>1, <1>3 DEF Stacked, ToSet
  <2>3. at \in DOMAIN q.stack /\ q.stack[at] = u
    BY <2>2
  <2> HIDE DEF at
  <2> QED
    BY <1>1, <2>1, <2>3
<1> HIDE DEF at, q, n
<1>5. /\ \A i \in 1 .. n : i < at => t.stack[i] \in B
      /\ \A i \in 1 .. n : ~(i < at) => t.stack[i] \notin B /\ t.stack[i] \in Stacked(t)
  <2>1. \A i \in 1 .. n : t.stack[i] \in Stacked(t)
    BY <1>4 DEF Stacked, ToSet
  <2>2. ASSUME NEW i \in 1 .. n, i < at PROVE t.order[t.stack[i]] < t.order[u]
    BY <1>0, <1>4, <2>2 DEF StackInv
  <2>3. ASSUME NEW i \in 1 .. n, ~(i < at) PROVE ~(t.order[t.stack[i]] < t.order[u])
    <3>1. t.order[t.stack[i]] \in Nat /\ t.order[u] \in Nat
      BY <1>3, <2>1
    <3>2. CASE i = at
      BY <1>4, <3>1, <3>2
    <3>3. CASE i # at
      <4>1. at < i
        BY <1>4, <2>3, <3>3
      <4>2. t.order[u] < t.order[t.stack[i]]
        BY <1>0, <1>4, <4>1 DEF StackInv
      <4> QED
        BY <3>1, <4>2
    <3> QED
      BY <3>2, <3>3
  <2> QED
    BY <2>1, <2>2, <2>3
<1>6. /\ at - 1 \in Nat /\ r.stack \in Seq(Vertices) /\ DOMAIN r.stack = 1 .. at - 1
      /\ \A i \in 1 .. at - 1 : r.stack[i] = t.stack[i] /\ i \in 1 .. n /\ i < at
  <2>1. at - 1 \in Nat /\ \A i \in 1 .. at - 1 : i \in 1 .. n /\ i < at
    BY <1>4
  <2>2. \A i \in 1 .. n : t.stack[i] \in Vertices
    BY <1>4
  <2>3. /\ SubSeq(t.stack, 1, at - 1) \in Seq(Vertices) /\ Len(SubSeq(t.stack, 1, at - 1)) = at - 1
        /\ \A i \in 1 .. at - 1 : SubSeq(t.stack, 1, at - 1)[i] = t.stack[i]
    BY <1>4, <2>1, <2>2
  <2>4. DOMAIN SubSeq(t.stack, 1, at - 1) = 1 .. at - 1
    BY <2>3
  <2> QED
    BY <1>2, <2>1, <2>3, <2>4
<1>7. /\ Stacked(r) = B /\ C = Stacked(t) \ B /\ u \in C /\ C \subseteq Vertices
      /\ \A v \in C : t.order[u] <= t.order[v]
  <2>1. Stacked(r) = B
    <3>1. ASSUME NEW v \in B PROVE \E i \in 1 .. at - 1 : t.stack[i] = v
      <4>1. PICK i \in 1 .. n : t.stack[i] = v
        BY <1>4 DEF Stacked, ToSet
      <4>2. i < at
        BY <1>5, <4>1
      <4> QED
        BY <1>4, <4>1, <4>2
    <3>2. \A i \in 1 .. at - 1 : t.stack[i] \in B
      BY <1>5, <1>6
    <3> QED
      BY <1>6, <3>1, <3>2 DEF Stacked, ToSet
  <2>2. C = Stacked(t) \ B
    <3>1. ASSUME NEW v \in Stacked(t) \ B PROVE v \in C
      <4>1. PICK i \in 1 .. n : t.stack[i] = v
        BY <1>4 DEF Stacked, ToSet
      <4>2. ~(i < at)
        BY <1>5, <4>1
      <4>3. i \in at .. n
        BY <1>4, <4>2
      <4> QED
        BY <1>4, <4>1, <4>3
    <3>2. ASSUME NEW v \in C PROVE v \in Stacked(t) \ B
      <4>1. PICK i \in at .. n : t.stack[i] = v
        BY <1>4
      <4>2. i \in 1 .. n /\ ~(i < at)
        BY <1>4
      <4> QED
        BY <1>5, <4>1, <4>2
    <3> QED
      BY <3>1, <3>2
  <2>3. u \in C
    BY <1>3, <2>2
  <2>4. \A v \in C : t.order[u] <= t.order[v]
    BY <1>3, <2>2
  <2> QED
    BY <1>3, <2>1, <2>2, <2>3, <2>4
<1> HIDE DEF C, B
<1>8. \A v \in Stacked(t) : v \in B <=> t.order[v] < t.order[u]
  BY DEF B
<1>9. /\ Cardinality(Finished(t)) < NodeCount /\ t.comps \in Nat /\ t.comps < NodeCount
      /\ t.comps + 1 <= Cardinality(Finished(t) \cup C)
  <2>1. /\ Cardinality(Finished(t)) < NodeCount
        /\ Cardinality(Finished(t) \cup {u}) = Cardinality(Finished(t)) + 1
        /\ Cardinality(Finished(t)) \in 0 .. NodeCount
    BY <1>3, Count
  <2>2. Cardinality(Finished(t) \cup {u}) <= Cardinality(Finished(t) \cup C)
    BY <1>3, <1>7, Count
  <2>3. Cardinality(Finished(t) \cup C) \in 0 .. NodeCount
    BY <1>3, <1>7, Count
  <2>4. t.comps \in Nat /\ t.comps <= Cardinality(Finished(t))
    BY <1>0, <1>3 DEF Tarjan, StackInv
  <2> QED
    BY <1>3, <2>1, <2>2, <2>3, <2>4
<1>10. /\ Seen(r) = Seen(t) /\ Finished(r) = Finished(t) \cup C /\ Calls(r) = Calls(t) \ {u}
       /\ Gray(r) = Gray(t) \ {u} /\ Calls(r) = Gray(r)
       /\ \A v \in Vertices : r.scc[v] = IF v \in C THEN t.comps ELSE t.scc[v]
  <2>1. \A v \in Vertices : r.scc[v] = IF v \in C THEN t.comps ELSE t.scc[v]
    BY <1>2
  <2>2. Finished(r) = Finished(t) \cup C
    BY <1>3, <1>7, <1>9, <2>1 DEF Finished
  <2>3. Seen(r) = Seen(t) /\ Calls(r) = Calls(t) \ {u}
    BY <1>1, <1>2 DEF Seen, Calls
  <2>4. Gray(r) = Gray(t) \ {u} /\ Calls(r) = Gray(r)
    BY <1>1, <2>3 DEF Gray
  <2> QED
    BY <2>1, <2>2, <2>3, <2>4
<1>11. r \in Tarjan
  <2>1. r.scc \in [Vertices -> 0 .. Unseen]
    <3>1. t.scc \in [Vertices -> 0 .. Unseen]
      BY <1>0 DEF Tarjan
    <3> QED
      BY <1>2, <1>3, <1>9, <3>1
  <2>2. r.comps \in 0 .. NodeCount
    BY <1>2, <1>3, <1>9
  <2> QED
    BY <1>0, <1>1, <1>2, <1>6, <2>1, <2>2 DEF Tarjan
<1>12. \A g \in Gray(r) : g \in B /\ g \in Vertices /\ t.order[g] < t.order[u]
  BY <1>1, <1>3, <1>8, <1>10
<1>13. StackInv(r)
  <2>1. r.next = Cardinality(Seen(r)) /\ \A v \in Seen(r) : r.order[v] < r.next
    BY <1>0, <1>2, <1>10 DEF StackInv
  <2>2. r.comps <= Cardinality(Finished(r))
    BY <1>2, <1>9, <1>10
  <2>3. Seen(r) = Stacked(r) \cup Finished(r) /\ Stacked(r) \cap Finished(r) = {}
    <3>1. B \subseteq Stacked(t)
      BY DEF B
    <3> QED
      BY <1>3, <1>7, <1>10, <3>1
  <2>4. \A i, j \in DOMAIN r.stack : i < j => r.order[r.stack[i]] < r.order[r.stack[j]]
    BY <1>0, <1>2, <1>4, <1>6 DEF StackInv
  <2> QED
    BY <2>1, <2>2, <2>3, <2>4 DEF StackInv
<1>14. CallInv(r)
  <2>1. \A i \in DOMAIN r.call : r.call[i] \in B
    BY <1>10, <1>12 DEF Calls, ToSet
  <2>2. \A i \in DOMAIN r.call : r.call[i] \notin Finished(r)
    <3>1. B \cap Finished(r) = {}
      BY <1>7, <1>13 DEF StackInv
    <3> QED
      BY <2>1, <3>1
  <2>3. \A i, j \in DOMAIN r.call :
          i < j => /\ r.call[i] \in Stacked(r)
                   /\ r.call[j] \in Stacked(r) => r.order[r.call[i]] < r.order[r.call[j]]
    <3>1. B \subseteq Stacked(t)
      BY DEF B
    <3> QED
      BY <1>1, <1>2, <1>7, <2>1, <3>1 DEF CallInv
  <2>4. \A i \in DOMAIN r.call : i # 1 => r.call[i] \in Adj(r.call[i - 1])
    BY <1>1, <1>2 DEF CallInv
  <2> QED
    BY <2>2, <2>3, <2>4 DEF CallInv
<1>15. CursorInv(r)
  BY <1>1, <1>2, <1>10 DEF CursorInv
<1>16. PathInv(r)
  <2>1. B \subseteq Stacked(t)
    BY DEF B
  <2>2. \A x \in Gray(r), y \in Stacked(r) : r.order[x] <= r.order[y] => Reach(x, y)
    BY <1>0, <1>2, <1>7, <1>10, <2>1 DEF PathInv
  <2>3. ASSUME NEW y \in Stacked(r) PROVE \E x \in Gray(r) : r.order[x] <= r.order[y] /\ Reach(y, x)
    <3>1. y \in Stacked(t) /\ t.order[y] < t.order[u] /\ y \in Vertices
      BY <1>3, <1>7, <1>8, <2>1
    <3>2. PICK x \in Gray(t) : t.order[x] <= t.order[y] /\ Reach(y, x)
      BY <1>0, <3>1 DEF PathInv
    <3>3. x # u
      BY <1>3, <3>1, <3>2
    <3> QED
      BY <1>2, <1>10, <3>2, <3>3
  <2> QED
    BY <2>2, <2>3 DEF PathInv
<1>17. LowInv(r)
  <2>0. B \subseteq Stacked(t)
    BY DEF B
  <2>1. ASSUME NEW g \in Gray(r)
        PROVE  /\ r.low[g] <= r.order[g] /\ r.low[g] = t.low[g]
               /\ \E w \in Stacked(r) : r.low[g] = r.order[w] /\ Reach(g, w)
    <3>1. g \in Gray(t) /\ t.order[g] < t.order[u] /\ g \in Vertices /\ g \in Gray(q)
      BY <1>1, <1>10, <1>12
    <3>2. PICK w \in Stacked(t) : t.low[g] = t.order[w] /\ Reach(g, w) /\ t.low[g] <= t.order[g]
      BY <1>0, <3>1 DEF LowInv
    <3>3. q.low[g] = t.low[g]
      BY <1>1, <1>3, <3>1, <3>2
    <3>4. w \in Stacked(r)
      BY <1>3, <1>7, <1>8, <3>1, <3>2
    <3> QED
      BY <1>2, <3>2, <3>3, <3>4
  <2>2. ASSUME NEW g \in Gray(r), NEW v \in Stacked(r), NEW w \in r.cursor[v] \cap Stacked(r),
               Owns(r, g, v)
        PROVE  r.low[g] <= r.order[w]
    <3>1. /\ g \in Gray(t) /\ v \in Stacked(t) /\ w \in t.cursor[v] \cap Stacked(t)
          /\ v \in Vertices /\ t.order[v] < t.order[u]
      BY <1>2, <1>3, <1>7, <1>8, <1>10, <2>0
    <3>2. Owns(t, g, v)
      BY <1>2, <1>3, <1>10, <2>2, <3>1 DEF Owns
    <3> QED
      BY <1>0, <1>2, <2>1, <3>1, <3>2 DEF LowInv
  <2> QED
    BY <2>1, <2>2 DEF LowInv
<1>18. ASSUME NEW v \in C
       PROVE  Adj(v) \subseteq Finished(r) /\ Reach(u, v) /\ Reach(v, u)
  <2>1. v \in Stacked(t) /\ v \in Vertices /\ v \in Seen(t) /\ t.order[u] <= t.order[v]
    BY <1>3, <1>7
  <2>2. Adj(v) \subseteq t.cursor[v]
    <3>1. CASE v = u
      BY <3>1
    <3>2. CASE v # u
      <4>1. v \notin Calls(t)
        BY <1>1, <1>3, <2>1, <3>2
      <4> QED
        BY <1>0, <2>1, <4>1 DEF CursorInv
    <3> QED
      BY <3>1, <3>2
  <2>3. ASSUME NEW w \in Adj(v) PROVE w \in Finished(r)
    <3>1. w \in Seen(t) \cup Calls(t) /\ w \in t.cursor[v] /\ w \in Vertices
      BY <1>0, <1>3, <2>1, <2>2 DEF CursorInv
    <3>2. w \in Seen(t)
      <4>1. Calls(t) \ {u} \subseteq Seen(t)
        BY <1>1 DEF Gray
      <4> QED
        BY <3>1, <4>1
    <3>3. CASE w \in Finished(t)
      BY <1>10, <3>3
    <3>4. CASE w \in Stacked(t)
      <4>1. Owns(t, u, v)
        <5>1. ASSUME NEW g \in Gray(t) PROVE t.order[g] <= t.order[u]
          BY <1>1, <1>3
        <5> QED
          BY <2>1, <5>1 DEF Owns
      <4>2. t.low[u] <= t.order[w]
        BY <1>0, <1>3, <2>1, <3>1, <3>4, <4>1 DEF LowInv
      <4>3. w \notin B
        BY <1>3, <1>8, <3>1, <3>4, <4>2
      <4> QED
        BY <1>7, <1>10, <3>4, <4>3
    <3> QED
      BY <1>3, <3>2, <3>3, <3>4
  <2>4. Reach(u, v)
    BY <1>0, <1>3, <2>1 DEF PathInv
  <2>5. Reach(v, u)
    <3>1. PICK x \in Gray(t) : t.order[x] <= t.order[v] /\ Reach(v, x)
      BY <1>0, <2>1 DEF PathInv
    <3>2. x \in Vertices /\ t.order[x] <= t.order[u]
      BY <1>1, <1>3
    <3>3. Reach(x, u)
      BY <1>0, <1>3, <3>1, <3>2 DEF PathInv
    <3> QED
      BY <1>3, <2>1, <3>1, <3>2, <3>3, Reaching
  <2> QED
    BY <2>3, <2>4, <2>5
<1>19. DoneInv(r)
  <2>1. ASSUME NEW v \in Finished(r) PROVE Adj(v) \subseteq Finished(r) /\ r.scc[v] < r.comps
    <3>1. CASE v \in C
      <4>1. v \in Vertices /\ r.scc[v] = t.comps
        BY <1>7, <1>10, <3>1
      <4> QED
        BY <1>2, <1>9, <1>18, <3>1, <4>1
    <3>2. CASE v \notin C
      <4>1. v \in Finished(t) /\ v \in Vertices /\ r.scc[v] = t.scc[v]
        BY <1>3, <1>10, <3>2
      <4>2. Adj(v) \subseteq Finished(t) /\ t.scc[v] < t.comps
        BY <1>0, <4>1 DEF DoneInv
      <4>3. t.scc[v] \in Nat
        BY <1>0, <4>1, Places
      <4> QED
        BY <1>2, <1>9, <1>10, <4>1, <4>2, <4>3
    <3> QED
      BY <3>1, <3>2
  <2>2. ASSUME NEW v \in Finished(t), NEW w \in C
        PROVE  r.scc[v] # r.scc[w] /\ ~Reach(v, w)
    <3>1. v \in Vertices /\ w \in Vertices /\ v \notin C /\ w \notin Finished(t)
      BY <1>3, <1>7
    <3>2. r.scc[v] = t.scc[v] /\ r.scc[w] = t.comps
      BY <1>10, <3>1
    <3>3. t.scc[v] < t.comps /\ t.scc[v] \in Nat
      BY <1>0, <3>1, Places DEF DoneInv
    <3>4. ~Reach(v, w)
      <4>1. \A x \in Finished(t) : Adj(x) \subseteq Finished(t)
        BY <1>0 DEF DoneInv
      <4> QED
        BY <1>3, <3>1, <4>1, ReachStays
    <3> QED
      BY <1>9, <3>2, <3>3, <3>4
  <2>3. ASSUME NEW v \in Finished(r), NEW w \in Finished(r)
        PROVE  r.scc[v] = r.scc[w] <=> Reach(v, w) /\ Reach(w, v)
    <3>1. CASE v \in C /\ w \in C
      <4>1. v \in Vertices /\ w \in Vertices /\ r.scc[v] = r.scc[w]
        BY <1>7, <1>10, <3>1
      <4>2. Reach(v, u) /\ Reach(u, w) /\ Reach(w, u) /\ Reach(u, v)
        BY <1>18, <3>1
      <4> QED
        BY <1>3, <4>1, <4>2, Reaching
    <3>2. CASE v \in C /\ w \notin C
      BY <1>10, <2>2, <3>2
    <3>3. CASE v \notin C /\ w \in C
      BY <1>10, <2>2, <3>3
    <3>4. CASE v \notin C /\ w \notin C
      <4>1. v \in Finished(t) /\ w \in Finished(t) /\ r.scc[v] = t.scc[v] /\ r.scc[w] = t.scc[w]
        BY <1>3, <1>10, <3>4
      <4> QED
        BY <1>0, <4>1 DEF DoneInv
    <3> QED
      BY <3>1, <3>2, <3>3, <3>4
  <2> QED
    BY <2>1, <2>3 DEF DoneInv
<1> QED
  BY <1>11, <1>13, <1>14, <1>15, <1>16, <1>17, <1>19 DEF TarjanInv, r, q

\* A new root is the only call.
LEMMA RootInv ==
  ASSUME NEW t, TarjanInv(t), t.call = <<>>, NEW r \in Vertices \ Seen(t)
  PROVE  TarjanInv([t EXCEPT !.call = <<r>>])
<1> DEFINE q == [t EXCEPT !.call = <<r>>]
<1>0. t \in Tarjan /\ StackInv(t) /\ CallInv(t) /\ CursorInv(t) /\ PathInv(t) /\ LowInv(t) /\ DoneInv(t)
  BY DEF TarjanInv
<1>1. /\ q.call = <<r>> /\ q.low = t.low /\ q.cursor = t.cursor /\ q.comps = t.comps
      /\ q.scc = t.scc /\ q.next = t.next /\ q.stack = t.stack /\ q.order = t.order
      /\ q \in Tarjan
  <2>1. <<r>> \in Seq(Vertices)
    OBVIOUS
  <2> QED
    BY <1>0, <2>1 DEF Tarjan
<1> HIDE DEF q
<1>2. /\ DOMAIN q.call = {1} /\ q.call[1] = r /\ Calls(q) = {r} /\ Calls(t) = {}
      /\ Seen(q) = Seen(t) /\ Stacked(q) = Stacked(t) /\ Finished(q) = Finished(t)
  <2>1. DOMAIN q.call = {1} /\ q.call[1] = r
    BY <1>1
  <2>2. Calls(q) = {r}
    BY <2>1 DEF Calls, ToSet
  <2>3. Calls(t) = {}
    BY DEF Calls, ToSet
  <2> QED
    BY <1>1, <2>1, <2>2, <2>3 DEF Seen, Stacked, Finished
<1>3. Gray(q) = {} /\ Gray(t) = {} /\ r \notin Finished(t)
  BY <1>0, <1>2 DEF Gray, StackInv
<1>4. StackInv(q)
  BY <1>0, <1>1, <1>2 DEF StackInv
<1>5. CallInv(q)
  BY <1>2, <1>3 DEF CallInv
<1>6. CursorInv(q)
  BY <1>0, <1>1, <1>2 DEF CursorInv
<1>7. PathInv(q)
  BY <1>0, <1>1, <1>2, <1>3 DEF PathInv
<1>8. LowInv(q)
  BY <1>3 DEF LowInv
<1>9. DoneInv(q)
  BY <1>0, <1>1, <1>2 DEF DoneInv
<1> QED
  BY <1>1, <1>4, <1>5, <1>6, <1>7, <1>8, <1>9 DEF TarjanInv, q

\* The locals before the first round.
LEMMA StartInv == TarjanInv(TarjanStart)
<1> DEFINE t == TarjanStart
<1>1. NodeCount \in Nat /\ Unseen = NodeCount
  BY CycleAssumption DEF Unseen
<1>2. t \in Tarjan
  BY <1>1 DEF TarjanStart, Tarjan
<1>3. Seen(t) = {} /\ Stacked(t) = {} /\ Finished(t) = {} /\ Calls(t) = {}
  BY DEF TarjanStart, Seen, Stacked, Finished, Calls, ToSet
<1>4. Gray(t) = {}
  BY <1>3 DEF Gray
<1>5. t.call = <<>> /\ t.stack = <<>> /\ t.next = 0 /\ t.comps = 0 /\ \A v \in Vertices : t.cursor[v] = {}
  BY DEF TarjanStart
<1> HIDE DEF t
<1>6. Cardinality({}) = 0
  BY FS_EmptySet
<1>7. StackInv(t)
  BY <1>3, <1>5, <1>6 DEF StackInv
<1>8. CallInv(t)
  BY <1>5 DEF CallInv
<1>9. CursorInv(t) /\ PathInv(t) /\ LowInv(t) /\ DoneInv(t)
  BY <1>3, <1>4, <1>5 DEF CursorInv, PathInv, LowInv, DoneInv
<1> QED
  BY <1>2, <1>7, <1>8, <1>9 DEF TarjanInv, t

\* A round of iterativeSCC.
LEMMA VisitNodeInv ==
  ASSUME TarjanInv(tarjan), VisitNode
  PROVE  TarjanInv(tarjan')
<1> DEFINE u == Last(tarjan.call)
           t == Numbered(u)
<1>1. tarjan.call # <<>>
  BY DEF VisitNode
<1>2. TarjanInv(t) /\ u \in Seen(t) /\ t.call = tarjan.call
  BY <1>1, NumberedInv
<1>3. \/ \E w \in Fresh(t, u), seen \in SUBSET (Left(t, u) \ Fresh(t, u)) :
           tarjan' = Called(Passed(t, u, seen), u, w)
      \/ /\ Fresh(t, u) = {}
         /\ tarjan' = Popped(Returned(Passed(t, u, Left(t, u)), u), u)
  BY DEF VisitNode
<1>4. t.call # <<>> /\ u = Last(t.call)
  BY <1>1, <1>2
<1> HIDE DEF t, u
<1>5. CASE \E w \in Fresh(t, u), seen \in SUBSET (Left(t, u) \ Fresh(t, u)) :
             tarjan' = Called(Passed(t, u, seen), u, w)
  <2>1. PICK w \in Fresh(t, u), seen \in SUBSET (Left(t, u) \ Fresh(t, u)) :
               tarjan' = Called(Passed(t, u, seen), u, w)
    BY <1>5
  <2> DEFINE q == Passed(t, u, seen)
  <2>2. TarjanInv(q) /\ q.call = t.call /\ Seen(q) = Seen(t)
    BY <1>2, <1>4, PassedInv
  <2>3. w \in Adj(u) /\ w \notin Seen(t)
    BY DEF Fresh, Left, Seen
  <2> HIDE DEF q
  <2>4. TarjanInv(Called(q, u, w))
    BY <1>2, <1>4, <2>2, <2>3, CalledInv
  <2> QED
    BY <2>1, <2>4 DEF q
<1>6. CASE /\ Fresh(t, u) = {}
           /\ tarjan' = Popped(Returned(Passed(t, u, Left(t, u)), u), u)
  <2> DEFINE q == Passed(t, u, Left(t, u))
  <2>1. /\ TarjanInv(q) /\ q.call = t.call /\ Seen(q) = Seen(t)
        /\ q.cursor[u] = t.cursor[u] \cup Left(t, u)
    <3>1. Left(t, u) \subseteq Left(t, u) \ Fresh(t, u)
      BY <1>6
    <3> QED
      BY <1>2, <1>4, <3>1, PassedInv
  <2>2. Adj(u) \subseteq q.cursor[u]
    BY <2>1 DEF Left
  <2> HIDE DEF q
  <2>3. TarjanInv(Popped(Returned(q, u), u))
    <3>1. q.call # <<>> /\ u = Last(q.call) /\ u \in Seen(q)
      BY <1>2, <1>4, <2>1
    <3> QED
      BY <2>1, <2>2, <3>1, BackInv, PopInv
  <2> QED
    BY <1>6, <2>3 DEF q
<1> QED
  BY <1>3, <1>5, <1>6

\* A step that leaves the graph alone leaves edges and paths alone.
LEMMA SamePaths ==
  ASSUME graph' = graph
  PROVE  Connected(Edges)' = Connected(Edges) /\ \A v : Adj(v)' = Adj(v)
  BY DEF Connected, Edges, EdgesOf, Adj, Targets

\* So what holds of the new locals holds after it.
LEMMA SameGraph ==
  ASSUME graph' = graph, TarjanInv(tarjan')
  PROVE  TarjanInv(tarjan)'
<1>1. Connected(Edges)' = Connected(Edges) /\ \A v : Adj(v)' = Adj(v)
  BY SamePaths
<1>2. CallInv(tarjan)' /\ CursorInv(tarjan)'
  BY <1>1 DEF TarjanInv, CallInv, CursorInv
<1>3. PathInv(tarjan)' /\ LowInv(tarjan)' /\ DoneInv(tarjan)'
  BY <1>1 DEF TarjanInv, PathInv, LowInv, DoneInv, Reach
<1> QED
  BY <1>2, <1>3 DEF TarjanInv

-----------------------------------------------------------------------------
(***************************************************************************)
(* The invariant of the pass.                                              *)
(***************************************************************************)
\* After iterativeSCC every node has been seen and no call is open; the
\* useless edges are those between components.
SplitInv ==
  phase # "scc" =>
    /\ tarjan.call = <<>> /\ Seen(tarjan) = Vertices
    /\ useless = {e \in Pairs : graph[e] = "bounded" /\ tarjan.scc[e[1]] # tarjan.scc[e[2]]}

\* A set of nodes without a cycle of unbounded edges: in every part of it some
\* node has no such edge to the part.
Acyclic(M) ==
  \A T \in SUBSET M : T # {} => \E v \in T : \A w \in T : graph[<<v, w>>] # "unbounded"

Black(s) == {v \in s.members : s.color[v] = "black"}

\* The nodes to visit are the path, and perhaps a next node; they are linked
\* by unbounded edges.
VisitInv(s) ==
  /\ s.visit \in Seq(s.members) /\ s.path \in Seq(s.members)
  /\ \/ Len(s.visit) = Len(s.path)
     \/ Len(s.visit) = Len(s.path) + 1 /\ s.color[Last(s.visit)] = "white"
  /\ \A i \in DOMAIN s.path : s.visit[i] = s.path[i]
  /\ \A i \in DOMAIN s.visit : i # 1 => graph[<<s.visit[i - 1], s.visit[i]>>] = "unbounded"

\* The path holds the gray nodes, each once; the targets one of them has
\* passed are black, or visited next.
ColorInv(s) ==
  /\ ToSet(s.path) = {v \in s.members : s.color[v] = "gray"}
  /\ \A i, j \in DOMAIN s.path : s.path[i] = s.path[j] => i = j
  /\ \A v \in s.members : s.color[v] = "white" => s.pos[v] = {}
  /\ \A i \in DOMAIN s.path : \A w \in s.pos[s.path[i]] :
       w \in Black(s) \/ (i + 1 \in DOMAIN s.visit /\ w = s.visit[i + 1])

\* No unbounded edge inside the component leaves the black nodes, and there
\* is no cycle among them.
BlackInv(s) ==
  /\ \A v \in Black(s) : \A w \in s.members : graph[<<v, w>>] = "unbounded" => w \in Black(s)
  /\ Acyclic(Black(s))

SearchInv == phase = "search" => VisitInv(search) /\ ColorInv(search) /\ BlackInv(search)

\* What is reported is a cycle.
ReportInv ==
  \A c \in cycles :
    /\ c \in Seq(Vertices) /\ c # <<>>
    /\ \A i \in DOMAIN c : graph[<<c[i], IF i = Len(c) THEN c[1] ELSE c[i + 1]>>] = "unbounded"

\* Until one is, the components that were searched have none.
SearchedInv ==
  phase # "scc" /\ cycles = {} =>
    \A c \in 0 .. tarjan.comps - 1 :
      \/ ~Cyclic(c) \/ Acyclic(Members(c))
      \/ phase # "done" /\ c \in unchecked
      \/ phase = "search" /\ search.members = Members(c)

CycleInv ==
  /\ CycleTypeOK /\ TarjanInv(tarjan) /\ SplitInv
  /\ SearchInv /\ ReportInv /\ SearchedInv

\* The last node to visit is next after the path while it is white, and the
\* end of the path once it is gray.
LEMMA LastVisit ==
  ASSUME NEW s \in Search, VisitInv(s), ColorInv(s), s.visit # <<>>, NEW u, u = Last(s.visit)
  PROVE  LET n == Len(s.visit)
         IN  /\ n \in Nat /\ n # 0 /\ DOMAIN s.visit = 1 .. n /\ u = s.visit[n] /\ u \in s.members
             /\ s.members \subseteq Vertices /\ s.path \in Seq(s.members)
             /\ DOMAIN s.path = 1 .. Len(s.path) /\ Len(s.path) \in Nat
             /\ \A i \in 1 .. n : s.visit[i] \in s.members
             /\ \A i \in 1 .. Len(s.path) : i \in 1 .. n /\ s.path[i] = s.visit[i]
             /\ s.color[u] = "white" => Len(s.path) = n - 1
             /\ s.color[u] = "gray" => Len(s.path) = n /\ u = s.path[n] /\ s.path # <<>>
<1> DEFINE n == Len(s.visit)
<1>1. /\ n \in Nat /\ n # 0 /\ DOMAIN s.visit = 1 .. n /\ u = s.visit[n]
      /\ u \in s.members /\ \A i \in 1 .. n : s.visit[i] \in s.members
  <2>1. s.visit \in Seq(s.members)
    BY DEF VisitInv
  <2>2. \A i \in 1 .. n : s.visit[i] \in s.members
    BY <2>1
  <2> QED
    BY <2>1, <2>2, Fronts
<1>2. s.members \subseteq Vertices /\ s.path \in Seq(s.members)
  BY DEF Search, VisitInv
<1>3. DOMAIN s.path = 1 .. Len(s.path) /\ Len(s.path) \in Nat
  BY <1>2
<1>4. \/ n = Len(s.path)
      \/ n = Len(s.path) + 1 /\ s.color[u] = "white"
  BY DEF VisitInv
<1> HIDE DEF n
<1>5. \A i \in 1 .. Len(s.path) : i \in 1 .. n /\ s.path[i] = s.visit[i]
  <2>1. \A i \in 1 .. Len(s.path) : i \in 1 .. n
    BY <1>1, <1>3, <1>4
  <2> QED
    BY <1>3, <2>1 DEF VisitInv
<1>6. ASSUME s.color[u] = "white" PROVE Len(s.path) = n - 1
  <2>1. SUFFICES ASSUME n = Len(s.path) PROVE FALSE
    BY <1>3, <1>4
  <2>2. n \in DOMAIN s.path /\ s.path[n] = u
    BY <1>1, <1>3, <1>5, <2>1
  <2>3. u \in ToSet(s.path)
    BY <2>2 DEF ToSet
  <2> QED
    BY <1>6, <2>3 DEF ColorInv
<1>7. ASSUME s.color[u] = "gray" PROVE Len(s.path) = n /\ u = s.path[n] /\ s.path # <<>>
  BY <1>1, <1>3, <1>4, <1>5, <1>7
<1> QED
  BY <1>1, <1>2, <1>3, <1>5, <1>6, <1>7 DEF n

\* Entering a node: it joins the path.
LEMMA EnterInv ==
  ASSUME NEW s \in Search, VisitInv(s), ColorInv(s), BlackInv(s), s.visit # <<>>,
         NEW u, u = Last(s.visit), s.color[u] = "white"
  PROVE  LET z == [s EXCEPT !.color = [@ EXCEPT ![u] = "gray"], !.path = Append(@, u)]
         IN  z \in Search /\ VisitInv(z) /\ ColorInv(z) /\ BlackInv(z)
<1> DEFINE n == Len(s.visit)
           z == [s EXCEPT !.color = [@ EXCEPT ![u] = "gray"], !.path = Append(@, u)]
<1>1. /\ n \in Nat /\ n # 0 /\ DOMAIN s.visit = 1 .. n /\ u = s.visit[n] /\ u \in s.members
      /\ s.members \subseteq Vertices /\ s.path \in Seq(s.members)
      /\ DOMAIN s.path = 1 .. n - 1 /\ Len(s.path) = n - 1
      /\ \A i \in 1 .. n - 1 : i \in 1 .. n /\ s.path[i] = s.visit[i]
  BY LastVisit
<1>2. /\ z.color = [s.color EXCEPT ![u] = "gray"] /\ z.path = Append(s.path, u)
      /\ z.members = s.members /\ z.visit = s.visit /\ z.pos = s.pos
      /\ z = [members |-> s.members, visit |-> s.visit, path |-> z.path,
              color |-> z.color, pos |-> s.pos]
  <2> DEFINE co == [s.color EXCEPT ![u] = "gray"]
             pa == Append(s.path, u)
  <2>1. z = [s EXCEPT !.color = co, !.path = pa]
    OBVIOUS
  <2>2. s = [members |-> s.members, visit |-> s.visit, path |-> s.path,
             color |-> s.color, pos |-> s.pos]
    BY DEF Search
  <2> HIDE DEF z, co, pa
  <2>3. /\ z.color = co /\ z.path = pa /\ z.members = s.members /\ z.visit = s.visit /\ z.pos = s.pos
        /\ z = [members |-> s.members, visit |-> s.visit, path |-> z.path,
                color |-> z.color, pos |-> s.pos]
    BY <2>1, <2>2
  <2> QED
    BY <2>3 DEF co, pa
<1> HIDE DEF z
<1>3. /\ z.path \in Seq(s.members) /\ Len(z.path) = n /\ DOMAIN z.path = 1 .. n
      /\ \A i \in 1 .. n - 1 : z.path[i] = s.path[i]
      /\ z.path[n] = u
  <2> DEFINE k == n - 1
             M == s.members
             p == s.path
             a == z.path
  <2>1. k = Len(p) /\ a = Append(p, u) /\ p \in Seq(M) /\ u \in M
    BY <1>1, <1>2
  <2>2. k + 1 = n
    BY <1>1
  <2> HIDE DEF k, n, M, p, a
  <2>3. /\ a \in Seq(M) /\ Len(a) = k + 1 /\ DOMAIN a = 1 .. k + 1
        /\ a[k + 1] = u /\ \A i \in 1 .. k : a[i] = p[i]
    BY <2>1, Appended
  <2> QED
    BY <2>2, <2>3 DEF k, M, p, a
<1> HIDE DEF n
<1>4. /\ \A v \in Vertices : v # u => z.color[v] = s.color[v]
      /\ z.color[u] = "gray" /\ z.color \in [Vertices -> {"white", "gray", "black"}]
  <2>1. s.color \in [Vertices -> {"white", "gray", "black"}]
    BY DEF Search
  <2>2. z.color = [s.color EXCEPT ![u] = "gray"] /\ u \in Vertices
    BY <1>1, <1>2
  <2> QED
    BY <2>1, <2>2
<1>5. z \in Search
  <2>1. z.path \in Seq(Vertices)
    BY <1>1, <1>3
  <2> QED
    BY <1>2, <1>4, <2>1 DEF Search
<1>6. VisitInv(z)
  <2>1. \A i \in DOMAIN z.path : z.visit[i] = z.path[i]
    <3>1. \A i \in 1 .. n : i = n \/ i \in 1 .. n - 1
      BY <1>1
    <3> QED
      BY <1>1, <1>2, <1>3, <3>1
  <2>2. Len(z.visit) = Len(z.path)
    BY <1>2, <1>3 DEF n
  <2>3. z.visit \in Seq(z.members) /\ z.path \in Seq(z.members)
    BY <1>2, <1>3 DEF VisitInv
  <2>4. \A i \in DOMAIN z.visit : i # 1 => graph[<<z.visit[i - 1], z.visit[i]>>] = "unbounded"
    BY <1>2 DEF VisitInv
  <2> QED
    BY <2>1, <2>2, <2>3, <2>4 DEF VisitInv
<1>7. Black(z) = Black(s)
  BY <1>1, <1>2, <1>4 DEF Black
<1>8. ColorInv(z)
  <2>1. \A i \in 1 .. n : i = n \/ i \in 1 .. n - 1
    BY <1>1
  <2>2. n \in 1 .. n /\ \A i \in 1 .. n - 1 : i # n
    BY <1>1
  <2>3. ToSet(s.path) = {v \in s.members : s.color[v] = "gray"}
    BY DEF ColorInv
  <2>4. ToSet(z.path) = ToSet(s.path) \cup {u}
    BY <1>1, <1>3, <2>1, <2>2 DEF ToSet
  <2>5. ToSet(z.path) = {v \in z.members : z.color[v] = "gray"}
    BY <1>1, <1>2, <1>4, <2>3, <2>4
  <2>6. \A i \in 1 .. n - 1 : s.path[i] # u
    BY <1>1, <2>3 DEF ToSet
  <2>7. \A i, j \in DOMAIN z.path : z.path[i] = z.path[j] => i = j
    <3>1. \A i, j \in 1 .. n - 1 : s.path[i] = s.path[j] => i = j
      BY <1>1 DEF ColorInv
    <3> QED
      BY <1>3, <2>1, <2>6, <3>1
  <2>8. \A v \in z.members : z.color[v] = "white" => z.pos[v] = {}
    BY <1>1, <1>2, <1>4 DEF ColorInv
  <2>9. ASSUME NEW i \in DOMAIN z.path, NEW w \in z.pos[z.path[i]]
        PROVE  w \in Black(z) \/ (i + 1 \in DOMAIN z.visit /\ w = z.visit[i + 1])
    <3>1. CASE i = n
      <4>1. s.pos[u] = {}
        BY <1>1 DEF ColorInv
      <4> QED
        BY <1>2, <1>3, <2>9, <3>1, <4>1
    <3>2. CASE i \in 1 .. n - 1
      BY <1>1, <1>2, <1>3, <1>7, <2>9, <3>2 DEF ColorInv
    <3> QED
      BY <1>3, <2>1, <3>1, <3>2
  <2> QED
    BY <2>5, <2>7, <2>8, <2>9 DEF ColorInv
<1>9. BlackInv(z)
  BY <1>2, <1>7 DEF BlackInv
<1> QED
  BY <1>5, <1>6, <1>8, <1>9 DEF z

\* Leaving a node whose targets are all passed: it is on no cycle.
LEMMA LeaveInv ==
  ASSUME NEW s \in Search, VisitInv(s), ColorInv(s), BlackInv(s), s.visit # <<>>,
         NEW u, u = Last(s.visit), s.color[u] = "gray",
         \A w \in s.members : graph[<<u, w>>] = "unbounded" => w \in s.pos[u]
  PROVE  LET z == [s EXCEPT !.color = [@ EXCEPT ![u] = "black"], !.path = Front(@), !.visit = Front(@)]
         IN  z \in Search /\ VisitInv(z) /\ ColorInv(z) /\ BlackInv(z)
<1> DEFINE n == Len(s.visit)
           z == [s EXCEPT !.color = [@ EXCEPT ![u] = "black"], !.path = Front(@), !.visit = Front(@)]
<1>1. /\ n \in Nat /\ n # 0 /\ DOMAIN s.visit = 1 .. n /\ u = s.visit[n] /\ u \in s.members
      /\ s.members \subseteq Vertices /\ s.path \in Seq(s.members) /\ s.path # <<>>
      /\ DOMAIN s.path = 1 .. n /\ Len(s.path) = n /\ u = s.path[n]
      /\ \A i \in 1 .. n : s.path[i] = s.visit[i]
      /\ s.visit \in Seq(s.members)
  BY LastVisit DEF VisitInv
<1>2. /\ z.color = [s.color EXCEPT ![u] = "black"] /\ z.path = Front(s.path) /\ z.visit = Front(s.visit)
      /\ z.members = s.members /\ z.pos = s.pos
      /\ z = [members |-> s.members, visit |-> z.visit, path |-> z.path,
              color |-> z.color, pos |-> s.pos]
  <2> DEFINE co == [s.color EXCEPT ![u] = "black"]
             pa == Front(s.path)
             vi == Front(s.visit)
  <2>1. z = [s EXCEPT !.color = co, !.path = pa, !.visit = vi]
    OBVIOUS
  <2>2. s = [members |-> s.members, visit |-> s.visit, path |-> s.path,
             color |-> s.color, pos |-> s.pos]
    BY DEF Search
  <2> HIDE DEF z, co, pa, vi
  <2>3. /\ z.color = co /\ z.path = pa /\ z.visit = vi /\ z.members = s.members /\ z.pos = s.pos
        /\ z = [members |-> s.members, visit |-> z.visit, path |-> z.path,
                color |-> z.color, pos |-> s.pos]
    BY <2>1, <2>2
  <2> QED
    BY <2>3 DEF co, pa, vi
<1> HIDE DEF z
<1>3. /\ z.path \in Seq(s.members) /\ Len(z.path) = n - 1 /\ DOMAIN z.path = 1 .. n - 1
      /\ z.visit \in Seq(s.members) /\ Len(z.visit) = n - 1 /\ DOMAIN z.visit = 1 .. n - 1
      /\ \A i \in 1 .. n - 1 : /\ i \in 1 .. n
                               /\ z.path[i] = s.path[i] /\ z.visit[i] = s.visit[i]
  <2>1. /\ Front(s.visit) \in Seq(s.members) /\ Len(Front(s.visit)) = n - 1
        /\ DOMAIN Front(s.visit) = 1 .. n - 1
        /\ \A i \in 1 .. n - 1 : i \in 1 .. n /\ Front(s.visit)[i] = s.visit[i]
    BY <1>1, Fronts
  <2>2. /\ Front(s.path) \in Seq(s.members) /\ Len(Front(s.path)) = n - 1
        /\ DOMAIN Front(s.path) = 1 .. n - 1
        /\ \A i \in 1 .. n - 1 : Front(s.path)[i] = s.path[i]
    <3> HIDE DEF n
    <3> QED
      BY <1>1, Fronts
  <2> QED
    BY <1>2, <2>1, <2>2
<1> HIDE DEF n
<1>4. /\ \A v \in Vertices : v # u => z.color[v] = s.color[v]
      /\ z.color[u] = "black" /\ z.color \in [Vertices -> {"white", "gray", "black"}]
  <2>1. s.color \in [Vertices -> {"white", "gray", "black"}]
    BY DEF Search
  <2>2. z.color = [s.color EXCEPT ![u] = "black"] /\ u \in Vertices
    BY <1>1, <1>2
  <2> QED
    BY <2>1, <2>2
<1>5. z \in Search
  <2>1. z.path \in Seq(Vertices) /\ z.visit \in Seq(Vertices)
    BY <1>1, <1>3
  <2> QED
    BY <1>2, <1>4, <2>1 DEF Search
<1>6. VisitInv(z)
  <2>1. \A i \in DOMAIN z.path : z.visit[i] = z.path[i]
    BY <1>1, <1>3
  <2>2. \A i \in DOMAIN z.visit : i # 1 => graph[<<z.visit[i - 1], z.visit[i]>>] = "unbounded"
    <3>1. \A i \in 1 .. n - 1 : i # 1 => i - 1 \in 1 .. n - 1
      BY <1>1
    <3>2. \A i \in 1 .. n : i # 1 => graph[<<s.visit[i - 1], s.visit[i]>>] = "unbounded"
      BY <1>1 DEF VisitInv
    <3> QED
      BY <1>3, <3>1, <3>2
  <2> QED
    BY <1>2, <1>3, <2>1, <2>2 DEF VisitInv
<1>7. Black(z) = Black(s) \cup {u} /\ u \notin Black(s)
  BY <1>1, <1>2, <1>4 DEF Black
<1>8. n \in 1 .. n /\ (\A i \in 1 .. n - 1 : i # n) /\ (\A i \in 1 .. n : i = n \/ i \in 1 .. n - 1)
  BY <1>1
<1>9. ColorInv(z)
  <2>1. ToSet(s.path) = {v \in s.members : s.color[v] = "gray"}
    BY DEF ColorInv
  <2>2. \A i, j \in 1 .. n : s.path[i] = s.path[j] => i = j
    BY <1>1 DEF ColorInv
  <2>3. ToSet(z.path) = ToSet(s.path) \ {u}
    <3>1. ToSet(z.path) = {s.path[i] : i \in 1 .. n - 1}
      BY <1>3 DEF ToSet
    <3>2. ToSet(s.path) = {s.path[i] : i \in 1 .. n}
      BY <1>1 DEF ToSet
    <3>3. \A i \in 1 .. n - 1 : i \in 1 .. n /\ s.path[i] # u
      BY <1>1, <1>3, <1>8, <2>2
    <3> QED
      BY <1>1, <1>8, <3>1, <3>2, <3>3
  <2>4. ToSet(z.path) = {v \in z.members : z.color[v] = "gray"}
    BY <1>1, <1>2, <1>4, <2>1, <2>3
  <2>5. \A i, j \in DOMAIN z.path : z.path[i] = z.path[j] => i = j
    BY <1>3, <2>2
  <2>6. \A v \in z.members : z.color[v] = "white" => z.pos[v] = {}
    BY <1>1, <1>2, <1>4 DEF ColorInv
  <2>7. ASSUME NEW i \in DOMAIN z.path, NEW w \in z.pos[z.path[i]]
        PROVE  w \in Black(z) \/ (i + 1 \in DOMAIN z.visit /\ w = z.visit[i + 1])
    <3>1. i \in 1 .. n - 1 /\ i \in 1 .. n /\ w \in s.pos[s.path[i]] /\ i + 1 \in 1 .. n
      BY <1>1, <1>2, <1>3, <2>7
    <3>2. w \in Black(s) \/ w = s.visit[i + 1]
      BY <1>1, <3>1 DEF ColorInv
    <3> QED
      BY <1>1, <1>3, <1>7, <1>8, <3>1, <3>2
  <2> QED
    BY <2>4, <2>5, <2>6, <2>7 DEF ColorInv
<1>10. \A w \in s.members : graph[<<u, w>>] = "unbounded" => w \in Black(s)
  <2>1. \A w \in s.pos[u] : w \in Black(s) \/ n + 1 \in 1 .. n
    BY <1>1, <1>8 DEF ColorInv
  <2> QED
    BY <1>1, <2>1
<1>11. BlackInv(z)
  <2>1. \A v \in Black(z) : \A w \in z.members : graph[<<v, w>>] = "unbounded" => w \in Black(z)
    BY <1>2, <1>7, <1>10 DEF BlackInv
  <2>2. ASSUME NEW T \in SUBSET Black(z), T # {}
        PROVE  \E v \in T : \A w \in T : graph[<<v, w>>] # "unbounded"
    <3>1. T \subseteq s.members
      BY <1>2 DEF Black
    <3>2. CASE T = {u}
      BY <1>1, <1>7, <1>10, <3>2
    <3>3. CASE T # {u}
      <4>1. T \ {u} \in SUBSET Black(s) /\ T \ {u} # {}
        BY <1>7, <2>2, <3>3
      <4>2. PICK v \in T \ {u} : \A w \in T \ {u} : graph[<<v, w>>] # "unbounded"
        BY <4>1 DEF BlackInv, Acyclic
      <4>3. graph[<<v, u>>] # "unbounded"
        BY <1>1, <1>7, <4>1 DEF BlackInv
      <4> QED
        BY <4>2, <4>3
    <3> QED
      BY <3>2, <3>3
  <2> QED
    BY <2>1, <2>2 DEF BlackInv, Acyclic
<1> QED
  BY <1>5, <1>6, <1>9, <1>11 DEF z

\* Passing a target that is not on the path: a white one is visited next.
LEMMA FollowInv ==
  ASSUME NEW s \in Search, VisitInv(s), ColorInv(s), BlackInv(s), s.visit # <<>>,
         NEW u, u = Last(s.visit), s.color[u] = "gray",
         NEW w \in s.members, graph[<<u, w>>] = "unbounded", s.color[w] # "gray"
  PROVE  LET z == [s EXCEPT !.pos = [s.pos EXCEPT ![u] = @ \cup {w}],
                      !.visit = IF s.color[w] = "white" THEN Append(@, w) ELSE @]
         IN  z \in Search /\ VisitInv(z) /\ ColorInv(z) /\ BlackInv(z)
<1> DEFINE n == Len(s.visit)
           z == [s EXCEPT !.pos = [s.pos EXCEPT ![u] = @ \cup {w}],
                          !.visit = IF s.color[w] = "white" THEN Append(@, w) ELSE @]
           vi == IF s.color[w] = "white" THEN Append(s.visit, w) ELSE s.visit
           po == [s.pos EXCEPT ![u] = @ \cup {w}]
<1>1. /\ n \in Nat /\ n # 0 /\ DOMAIN s.visit = 1 .. n /\ u = s.visit[n] /\ u \in s.members
      /\ s.members \subseteq Vertices /\ s.path \in Seq(s.members)
      /\ DOMAIN s.path = 1 .. n /\ Len(s.path) = n /\ u = s.path[n]
      /\ \A i \in 1 .. n : s.path[i] = s.visit[i]
      /\ s.visit \in Seq(s.members)
  BY LastVisit DEF VisitInv
<1>2. /\ z.visit = vi /\ z.pos = po /\ z.color = s.color /\ z.path = s.path /\ z.members = s.members
      /\ z = [members |-> s.members, visit |-> z.visit, path |-> s.path,
              color |-> s.color, pos |-> z.pos]
  <2>1. z = [s EXCEPT !.pos = po, !.visit = vi]
    OBVIOUS
  <2>2. s = [members |-> s.members, visit |-> s.visit, path |-> s.path,
             color |-> s.color, pos |-> s.pos]
    BY DEF Search
  <2> HIDE DEF z, vi, po
  <2> QED
    BY <2>1, <2>2
<1> HIDE DEF z
<1>3. \/ s.color[w] = "black" /\ z.visit = s.visit
      \/ /\ s.color[w] = "white" /\ z.visit \in Seq(s.members) /\ Len(z.visit) = n + 1
         /\ DOMAIN z.visit = 1 .. n + 1 /\ z.visit[n + 1] = w
         /\ \A i \in 1 .. n : z.visit[i] = s.visit[i]
  <2>1. s.color[w] \in {"white", "black"}
    BY <1>1 DEF Search
  <2> HIDE DEF n
  <2>2. CASE s.color[w] = "black"
    BY <1>2, <2>2
  <2>3. CASE s.color[w] = "white"
    <3> DEFINE M == s.members
               p == s.visit
               a == z.visit
    <3>1. n = Len(p) /\ a = Append(p, w) /\ p \in Seq(M) /\ w \in M
      BY <1>1, <1>2, <2>3 DEF n
    <3> HIDE DEF vi, M, p, a
    <3>2. /\ a \in Seq(M) /\ Len(a) = n + 1 /\ DOMAIN a = 1 .. n + 1
          /\ a[n + 1] = w /\ \A i \in 1 .. n : a[i] = p[i]
      BY <3>1, Appended
    <3> QED
      BY <2>3, <3>2 DEF M, p, a
  <2> QED
    BY <2>1, <2>2, <2>3
<1> HIDE DEF n, vi
<1>4. /\ \A v \in Vertices : v # u => z.pos[v] = s.pos[v]
      /\ z.pos[u] = s.pos[u] \cup {w} /\ z.pos \in [Vertices -> SUBSET Vertices]
  <2>1. s.pos \in [Vertices -> SUBSET Vertices] /\ u \in Vertices /\ w \in Vertices
    BY <1>1 DEF Search
  <2> QED
    BY <1>2, <2>1
<1> HIDE DEF po
<1>5. z \in Search
  <2>1. z.visit \in Seq(Vertices) /\ s.path \in Seq(Vertices)
    BY <1>1, <1>3
  <2> QED
    BY <1>2, <1>4, <2>1 DEF Search
<1>6. VisitInv(z)
  <2>1. CASE s.color[w] = "black" /\ z.visit = s.visit
    <3>1. Len(z.visit) = Len(z.path)
      BY <1>1, <1>2, <2>1 DEF n
    <3> QED
      BY <1>1, <1>2, <2>1, <3>1 DEF VisitInv
  <2>2. CASE /\ s.color[w] = "white" /\ z.visit \in Seq(s.members) /\ Len(z.visit) = n + 1
             /\ DOMAIN z.visit = 1 .. n + 1 /\ z.visit[n + 1] = w
             /\ \A i \in 1 .. n : z.visit[i] = s.visit[i]
    <3>0. Last(z.visit) = w
      BY <2>2 DEF Last
    <3>1. Len(z.visit) = Len(z.path) + 1 /\ z.color[Last(z.visit)] = "white"
      BY <1>1, <1>2, <2>2, <3>0
    <3>2. \A i \in DOMAIN z.path : z.visit[i] = z.path[i]
      BY <1>1, <1>2, <2>2
    <3>3. ASSUME NEW i \in 1 .. n + 1, i # 1
          PROVE  graph[<<z.visit[i - 1], z.visit[i]>>] = "unbounded"
      <4>1. CASE i = n + 1
        <5>1. i - 1 = n /\ n \in 1 .. n
          BY <1>1, <4>1
        <5>2. z.visit[i - 1] = u /\ z.visit[i] = w
          BY <1>1, <2>2, <4>1, <5>1
        <5> QED
          BY <5>2
      <4>2. CASE i # n + 1
        <5>1. i \in 1 .. n /\ i - 1 \in 1 .. n
          BY <1>1, <3>3, <4>2
        <5> QED
          BY <1>1, <2>2, <3>3, <5>1 DEF VisitInv
      <4> QED
        BY <4>1, <4>2
    <3> QED
      BY <1>1, <1>2, <2>2, <3>1, <3>2, <3>3 DEF VisitInv
  <2> QED
    BY <1>3, <2>1, <2>2
<1>7. Black(z) = Black(s)
  BY <1>2 DEF Black
<1>8. ColorInv(z)
  <2>1. ToSet(z.path) = {v \in z.members : z.color[v] = "gray"}
        /\ \A i, j \in DOMAIN z.path : z.path[i] = z.path[j] => i = j
    BY <1>2 DEF ColorInv
  <2>2. \A v \in z.members : z.color[v] = "white" => z.pos[v] = {}
    BY <1>1, <1>2, <1>4 DEF ColorInv
  <2>3. ASSUME NEW i \in DOMAIN z.path, NEW x \in z.pos[z.path[i]]
        PROVE  x \in Black(z) \/ (i + 1 \in DOMAIN z.visit /\ x = z.visit[i + 1])
    <3>1. i \in 1 .. n /\ n \in 1 .. n /\ n + 1 \in 1 .. n + 1 /\ n + 1 \notin 1 .. n
          /\ (i = n \/ i + 1 \in 1 .. n)
      BY <1>1, <1>2, <2>3
    <3>2. s.path[i] \in Vertices
      BY <1>1, <3>1
    <3>3. CASE x \in s.pos[s.path[i]]
      <4>1. x \in Black(s) \/ (i + 1 \in 1 .. n /\ x = s.visit[i + 1])
        BY <1>1, <3>1, <3>3 DEF ColorInv
      <4>2. i + 1 \in 1 .. n => i + 1 \in DOMAIN z.visit /\ z.visit[i + 1] = s.visit[i + 1]
        BY <1>1, <1>3
      <4> QED
        BY <1>7, <4>1, <4>2
    <3>4. CASE x \notin s.pos[s.path[i]]
      <4>1. s.path[i] = u /\ x = w
        BY <1>2, <1>4, <2>3, <3>2, <3>4
      <4>2. i = n
        BY <1>1, <3>1, <4>1 DEF ColorInv
      <4>3. s.color[w] = "black" => w \in Black(s)
        BY DEF Black
      <4> QED
        BY <1>3, <1>7, <3>1, <4>1, <4>2, <4>3
    <3> QED
      BY <3>3, <3>4
  <2> QED
    BY <2>1, <2>2, <2>3 DEF ColorInv
<1>9. BlackInv(z)
  BY <1>2, <1>7 DEF BlackInv
<1> QED
  BY <1>5, <1>6, <1>8, <1>9 DEF z

\* The pass starts with no node seen.
LEMMA CycleInitInv == CycleInit => CycleInv
<1> SUFFICES ASSUME CycleInit PROVE CycleInv
  OBVIOUS
<1>1. PICK g \in Graphs : CycleStart(g)
  BY DEF CycleInit
<1>2. /\ graph \in Graphs /\ phase = "scc" /\ tarjan = TarjanStart /\ unchecked = {}
      /\ search = SearchStart /\ useless = {} /\ cycles = {}
  BY <1>1 DEF CycleStart
<1>3. TarjanInv(tarjan)
  BY <1>2, StartInv
<1>4. search \in Search
  BY <1>2 DEF Search, SearchStart
<1>5. CycleTypeOK
  BY <1>2, <1>3, <1>4 DEF CycleTypeOK, TarjanInv
<1> QED
  BY <1>2, <1>3, <1>5 DEF CycleInv, SplitInv, SearchInv, ReportInv, SearchedInv

\* The rounds of iterativeSCC.
LEMMA TarjanStepInv ==
  ASSUME CycleInv, NextRoot \/ VisitNode
  PROVE  CycleInv'
<1>1. /\ phase = "scc" /\ phase' = phase /\ graph' = graph /\ unchecked' = unchecked
      /\ search' = search /\ useless' = useless /\ cycles' = cycles
  BY DEF NextRoot, VisitNode
<1>2. TarjanInv(tarjan')
  <2>1. CASE NextRoot
    <3> DEFINE roots == {v \in Vertices : tarjan.order[v] = Unseen}
    <3>1. roots # {} /\ tarjan.call = <<>> /\ tarjan' = [tarjan EXCEPT !.call = <<Min(roots)>>]
      BY <2>1 DEF NextRoot
    <3>2. roots \subseteq Nat /\ roots = Vertices \ Seen(tarjan)
      BY DEF Vertices, Seen
    <3>3. Min(roots) \in roots
      <4> HIDE DEF roots
      <4> QED
        BY <3>1, <3>2, MinIsLeast
    <3> HIDE DEF roots
    <3> QED
      BY <3>1, <3>2, <3>3, RootInv DEF CycleInv
  <2>2. CASE VisitNode
    BY <2>2, VisitNodeInv DEF CycleInv
  <2> QED
    BY <2>1, <2>2
<1>3. TarjanInv(tarjan)'
  BY <1>1, <1>2, SameGraph
<1>4. CycleTypeOK'
  BY <1>1, <1>2 DEF CycleInv, CycleTypeOK, TarjanInv
<1>5. SplitInv' /\ SearchInv' /\ SearchedInv'
  BY <1>1 DEF SplitInv, SearchInv, SearchedInv
<1>6. ReportInv'
  BY <1>1 DEF CycleInv, ReportInv
<1> QED
  BY <1>3, <1>4, <1>5, <1>6 DEF CycleInv

\* After it nothing changes its locals, the edges reported as useless or the graph.
LEMMA AfterTarjan ==
  ASSUME CycleInv, phase # "scc", phase' # "scc", graph' = graph, tarjan' = tarjan, useless' = useless
  PROVE  /\ TarjanInv(tarjan)' /\ SplitInv'
         /\ \A c : Members(c)' = Members(c) /\ Cyclic(c)' = Cyclic(c)
         /\ \A M : Acyclic(M)' = Acyclic(M)
<1>1. TarjanInv(tarjan)'
  BY SameGraph DEF CycleInv
<1>2. SplitInv'
  BY DEF CycleInv, SplitInv, Seen
<1>3. \A c : Members(c)' = Members(c) /\ Cyclic(c)' = Cyclic(c)
  BY DEF Members, Cyclic
<1>4. \A M : Acyclic(M)' = Acyclic(M)
  BY DEF Acyclic
<1> QED
  BY <1>1, <1>2, <1>3, <1>4

\* Numbers of components are below NodeCount.
LEMMA Components ==
  ASSUME CycleInv
  PROVE  /\ 0 .. tarjan.comps - 1 \subseteq 0 .. NodeCount - 1
         /\ \A c : Members(c) \subseteq Vertices
  BY CycleAssumption DEF CycleInv, CycleTypeOK, Tarjan, Members

\* The step after iterativeSCC: the cyclic components are still to search.
LEMMA SplitComponentsInv ==
  ASSUME CycleInv, SplitComponents
  PROVE  CycleInv'
<1>1. /\ phase = "scc" /\ phase' = "split" /\ graph' = graph /\ tarjan' = tarjan
      /\ search' = search /\ cycles' = cycles
      /\ useless' = {e \in Pairs : graph[e] = "bounded" /\ tarjan.scc[e[1]] # tarjan.scc[e[2]]}
      /\ unchecked' = {c \in 0 .. tarjan.comps - 1 : Cyclic(c)}
      /\ tarjan.call = <<>> /\ Seen(tarjan) = Vertices
  BY DEF SplitComponents, Pairs, Seen
<1>2. TarjanInv(tarjan)'
  BY <1>1, SameGraph DEF CycleInv
<1>3. CycleTypeOK'
  BY <1>1, Components DEF CycleInv, CycleTypeOK, Pairs
<1>4. SplitInv'
  BY <1>1 DEF SplitInv, Seen
<1>5. SearchInv'
  BY <1>1 DEF SearchInv
<1>6. ReportInv'
  BY <1>1 DEF CycleInv, ReportInv
<1>7. SearchedInv'
  <2>1. \A c : Cyclic(c)' = Cyclic(c)
    BY <1>1 DEF Members, Cyclic
  <2> QED
    BY <1>1, <2>1 DEF SearchedInv
<1> QED
  BY <1>2, <1>3, <1>4, <1>5, <1>6, <1>7 DEF CycleInv

\* The end of the pass: no component is left to search.
LEMMA AllSearchedInv ==
  ASSUME CycleInv, AllSearched
  PROVE  CycleInv'
<1>1. /\ phase = "split" /\ unchecked = {} /\ phase' = "done" /\ graph' = graph /\ tarjan' = tarjan
      /\ unchecked' = unchecked /\ search' = search /\ useless' = useless /\ cycles' = cycles
  BY DEF AllSearched
<1>2. /\ TarjanInv(tarjan)' /\ SplitInv'
      /\ \A c : Members(c)' = Members(c) /\ Cyclic(c)' = Cyclic(c)
      /\ \A M : Acyclic(M)' = Acyclic(M)
  BY <1>1, AfterTarjan
<1>3. CycleTypeOK'
  BY <1>1 DEF CycleInv, CycleTypeOK
<1>4. SearchInv' /\ ReportInv'
  BY <1>1 DEF CycleInv, SearchInv, ReportInv
<1>5. SearchedInv'
  BY <1>1, <1>2 DEF CycleInv, SearchedInv
<1> QED
  BY <1>2, <1>3, <1>4, <1>5 DEF CycleInv

\* findCycle starts with all nodes white.
LEMMA StartSearchInv ==
  ASSUME CycleInv, NEW c \in unchecked, StartSearch(c)
  PROVE  CycleInv'
<1>1. /\ phase = "split" /\ phase' = "search" /\ graph' = graph /\ tarjan' = tarjan
      /\ unchecked' = unchecked \ {c} /\ useless' = useless /\ cycles' = cycles
      /\ search' = [SearchStart EXCEPT !.members = Members(c)]
  BY DEF StartSearch
<1>2. /\ TarjanInv(tarjan)' /\ SplitInv'
      /\ \A d : Members(d)' = Members(d) /\ Cyclic(d)' = Cyclic(d)
      /\ \A M : Acyclic(M)' = Acyclic(M)
  BY <1>1, AfterTarjan
<1>3. /\ search'.members = Members(c) /\ search'.visit = <<>> /\ search'.path = <<>>
      /\ search'.color = [v \in Vertices |-> "white"] /\ search'.pos = [v \in Vertices |-> {}]
      /\ search' = [members |-> Members(c), visit |-> <<>>, path |-> <<>>,
                    color |-> [v \in Vertices |-> "white"], pos |-> [v \in Vertices |-> {}]]
  BY <1>1 DEF SearchStart
<1>4. Members(c) \subseteq Vertices
  BY Components
<1>5. search' \in Search
  BY <1>3, <1>4 DEF Search
<1>6. CycleTypeOK'
  BY <1>1, <1>5 DEF CycleInv, CycleTypeOK
<1>7. SearchInv'
  <2>1. VisitInv(search)'
    BY <1>3 DEF VisitInv
  <2>2. ToSet(<<>>) = {}
    BY DEF ToSet
  <2>3. ColorInv(search)'
    BY <1>3, <1>4, <2>2 DEF ColorInv
  <2>4. Black(search)' = {}
    BY <1>3, <1>4 DEF Black
  <2>5. BlackInv(search)'
    BY <2>4 DEF BlackInv, Acyclic
  <2> QED
    BY <2>1, <2>3, <2>5 DEF SearchInv
<1>8. ReportInv'
  BY <1>1 DEF CycleInv, ReportInv
<1>9. SearchedInv'
  BY <1>1, <1>2, <1>3 DEF CycleInv, SearchedInv
<1> QED
  BY <1>2, <1>6, <1>7, <1>8, <1>9 DEF CycleInv

\* What holds of the new locals of findCycle holds after the step.
LEMMA SameSearch ==
  ASSUME graph' = graph, VisitInv(search'), ColorInv(search'), BlackInv(search')
  PROVE  SearchInv'
<1>1. VisitInv(search)'
  BY DEF VisitInv
<1>2. ColorInv(search)'
  BY DEF ColorInv, Black
<1>3. BlackInv(search)'
  BY DEF BlackInv, Acyclic, Black
<1> QED
  BY <1>1, <1>2, <1>3 DEF SearchInv

\* The next root, or the end of the search: then all nodes are black, and the
\* component has no cycle.
LEMMA SearchRootInv ==
  ASSUME CycleInv, SearchRoot
  PROVE  CycleInv'
<1> DEFINE roots == {v \in search.members : search.color[v] = "white"}
<1>1. /\ phase = "search" /\ graph' = graph /\ tarjan' = tarjan
      /\ unchecked' = unchecked /\ useless' = useless /\ cycles' = cycles
      /\ search.visit = <<>>
      /\ \/ roots = {} /\ phase' = "split" /\ search' = search
         \/ roots # {} /\ search' = [search EXCEPT !.visit = <<Min(roots)>>] /\ phase' = phase
  BY DEF SearchRoot
<1>2. /\ search \in Search /\ search.members \subseteq Vertices
      /\ VisitInv(search) /\ ColorInv(search) /\ BlackInv(search)
  BY <1>1 DEF CycleInv, CycleTypeOK, SearchInv, Search
<1>3. /\ TarjanInv(tarjan)' /\ SplitInv'
      /\ \A d : Members(d)' = Members(d) /\ Cyclic(d)' = Cyclic(d)
      /\ \A M : Acyclic(M)' = Acyclic(M)
  BY <1>1, AfterTarjan
<1>4. ReportInv'
  BY <1>1 DEF CycleInv, ReportInv
<1>5. search.path = <<>>
  <2>1. search.path \in Seq(search.members) /\ (0 = Len(search.path) \/ 0 = Len(search.path) + 1)
    BY <1>1, <1>2 DEF VisitInv
  <2> QED
    BY <2>1
<1>6. ToSet(search.path) = {}
  BY <1>5 DEF ToSet
<1>7. CASE roots = {} /\ phase' = "split" /\ search' = search
  <2>1. Black(search) = search.members
    <3>1. ASSUME NEW v \in search.members PROVE search.color[v] = "black"
      <4>1. search.color[v] \in {"white", "gray", "black"}
        BY <1>2 DEF Search
      <4> QED
        BY <1>2, <1>6, <1>7, <4>1 DEF ColorInv
    <3> QED
      BY <3>1 DEF Black
  <2>2. Acyclic(search.members)
    BY <1>2, <2>1 DEF BlackInv
  <2>3. SearchedInv'
    BY <1>1, <1>3, <1>7, <2>2 DEF CycleInv, SearchedInv
  <2>4. CycleTypeOK' /\ SearchInv'
    BY <1>1, <1>7 DEF CycleInv, CycleTypeOK, SearchInv
  <2> QED
    BY <1>3, <1>4, <2>3, <2>4 DEF CycleInv
<1>8. CASE roots # {} /\ search' = [search EXCEPT !.visit = <<Min(roots)>>] /\ phase' = phase
  <2>1. roots \subseteq Nat
    BY <1>2 DEF Vertices
  <2>2. Min(roots) \in roots
    <3> HIDE DEF roots
    <3> QED
      BY <1>8, <2>1, MinIsLeast
  <2> DEFINE r == Min(roots)
  <2>3. r \in search.members /\ search.color[r] = "white"
    BY <2>2
  <2>4. search' = [search EXCEPT !.visit = <<r>>]
    BY <1>8
  <2> HIDE DEF r
  <2>5. /\ search'.members = search.members /\ search'.visit = <<r>> /\ search'.path = <<>>
        /\ search'.color = search.color /\ search'.pos = search.pos
        /\ search' = [members |-> search.members, visit |-> <<r>>, path |-> search.path,
                      color |-> search.color, pos |-> search.pos]
    BY <1>2, <1>5, <2>4 DEF Search
  <2>6. search' \in Search
    <3>1. <<r>> \in Seq(Vertices)
      BY <1>2, <2>3
    <3> QED
      BY <1>2, <2>5, <3>1 DEF Search
  <2>7. VisitInv(search')
    <3>1. <<r>> \in Seq(search.members) /\ <<>> \in Seq(search.members)
      BY <2>3
    <3>2. Len(<<r>>) = Len(<<>>) + 1 /\ Last(<<r>>) = r /\ DOMAIN <<r>> = {1}
      BY DEF Last
    <3> QED
      BY <2>3, <2>5, <3>1, <3>2 DEF VisitInv
  <2>8. Black(search') = Black(search)
    BY <2>5 DEF Black
  <2>9. ColorInv(search')
    <3>1. ToSet(search'.path) = {v \in search'.members : search'.color[v] = "gray"}
      BY <1>2, <1>5, <2>5 DEF ColorInv
    <3>2. \A v \in search'.members : search'.color[v] = "white" => search'.pos[v] = {}
      BY <1>2, <2>5 DEF ColorInv
    <3> QED
      BY <2>5, <3>1, <3>2 DEF ColorInv
  <2>10. BlackInv(search')
    BY <1>2, <2>5, <2>8 DEF BlackInv
  <2>11. SearchInv'
    BY <1>1, <2>7, <2>9, <2>10, SameSearch
  <2>12. CycleTypeOK'
    BY <1>1, <1>8, <2>6 DEF CycleInv, CycleTypeOK
  <2>13. SearchedInv'
    BY <1>1, <1>3, <1>8, <2>5 DEF CycleInv, SearchedInv
  <2> QED
    BY <1>3, <1>4, <2>11, <2>12, <2>13 DEF CycleInv
<1> QED
  BY <1>1, <1>7, <1>8

\* What the search reports when a target is on the path.
LEMMA Reported ==
  ASSUME NEW s \in Search, VisitInv(s), ColorInv(s), s.visit # <<>>,
         NEW u, u = Last(s.visit), s.color[u] = "gray",
         NEW w \in s.members, graph[<<u, w>>] = "unbounded", s.color[w] = "gray"
  PROVE  LET at == CHOOSE i \in DOMAIN s.path : s.path[i] = w
             c == SubSeq(s.path, at, Len(s.path))
         IN  /\ c \in Seq(Vertices) /\ c # <<>>
             /\ \A i \in DOMAIN c : graph[<<c[i], IF i = Len(c) THEN c[1] ELSE c[i + 1]>>] = "unbounded"
<1> DEFINE n == Len(s.visit)
           at == CHOOSE i \in DOMAIN s.path : s.path[i] = w
           c == SubSeq(s.path, at, Len(s.path))
           p == s.path
<1>1. /\ n \in Nat /\ n # 0 /\ DOMAIN s.visit = 1 .. n /\ s.members \subseteq Vertices
      /\ DOMAIN p = 1 .. n /\ Len(p) = n /\ u = p[n] /\ p \in Seq(s.members)
      /\ \A i \in 1 .. n : p[i] = s.visit[i] /\ p[i] \in s.members
  BY LastVisit
<1>2. at \in 1 .. n /\ p[at] = w
  <2>1. \E i \in DOMAIN p : p[i] = w
    BY DEF ColorInv, ToSet
  <2>2. at \in DOMAIN p /\ p[at] = w
    BY <2>1
  <2> QED
    BY <1>1, <2>2
<1>3. \A i \in 1 .. n : i # 1 => graph[<<p[i - 1], p[i]>>] = "unbounded"
  <2>1. \A i \in 1 .. n : i # 1 => i - 1 \in 1 .. n
    BY <1>1
  <2> QED
    BY <1>1, <2>1 DEF VisitInv
<1>4. c = SubSeq(p, at, n)
  BY <1>1
<1> HIDE DEF c, at, n, p
<1> DEFINE k == n - at + 1
<1>5. k \in Nat /\ k # 0 /\ \A i \in 1 .. k : at + i - 1 \in 1 .. n
  BY <1>1, <1>2
<1>6. c \in Seq(Vertices) /\ Len(c) = k /\ \A i \in 1 .. k : c[i] = p[at + i - 1]
  <2>1. p \in Seq(Vertices)
    BY <1>1
  <2> QED
    BY <1>1, <1>2, <1>4, <1>5, <2>1
<1>7. DOMAIN c = 1 .. k /\ c # <<>>
  BY <1>5, <1>6
<1>8. ASSUME NEW i \in 1 .. k
      PROVE  graph[<<c[i], IF i = Len(c) THEN c[1] ELSE c[i + 1]>>] = "unbounded"
  <2>1. CASE i = k
    <3>1. at + i - 1 = n /\ at + 1 - 1 = at /\ 1 \in 1 .. k
      BY <1>1, <1>2, <1>5, <2>1
    <3>2. c[i] = u /\ c[1] = w
      BY <1>1, <1>2, <1>6, <3>1
    <3> QED
      BY <1>6, <2>1, <3>2
  <2>2. CASE i # k
    <3>1. i + 1 \in 1 .. k /\ at + (i + 1) - 1 = at + i /\ at + i \in 1 .. n /\ at + i # 1
      BY <1>1, <1>2, <1>5, <2>2
    <3>2. c[i] = p[at + i - 1] /\ c[i + 1] = p[at + i]
      BY <1>6, <3>1
    <3>3. graph[<<p[at + i - 1], p[at + i]>>] = "unbounded"
      <4> DEFINE j == at + i
      <4>1. j \in 1 .. n /\ j # 1
        BY <3>1
      <4> HIDE DEF j
      <4>2. graph[<<p[j - 1], p[j]>>] = "unbounded"
        BY <1>3, <4>1
      <4>3. j - 1 = at + i - 1
        BY <1>1, <1>2, <1>5 DEF j
      <4> QED
        BY <4>2, <4>3 DEF j
    <3>4. i # Len(c)
      BY <1>6, <2>2
    <3> QED
      BY <3>2, <3>3, <3>4
  <2> QED
    BY <2>1, <2>2
<1>9. /\ c \in Seq(Vertices) /\ c # <<>>
      /\ \A i \in DOMAIN c : graph[<<c[i], IF i = Len(c) THEN c[1] ELSE c[i + 1]>>] = "unbounded"
  BY <1>6, <1>7, <1>8
<1> QED
  BY <1>9 DEF c, at

\* A round of findCycle.
LEMMA SearchStepInv ==
  ASSUME CycleInv, SearchStep
  PROVE  CycleInv'
<1> DEFINE u == Last(search.visit)
<1>1. /\ phase = "search" /\ graph' = graph /\ tarjan' = tarjan
      /\ unchecked' = unchecked /\ useless' = useless
      /\ search.visit # <<>>
      /\ Enter(u) \/ Leave(u) \/ \E w \in Unbounded(u) : Follow(u, w)
  BY DEF SearchStep
<1>2. /\ search \in Search /\ search.members \subseteq Vertices
      /\ VisitInv(search) /\ ColorInv(search) /\ BlackInv(search)
  BY <1>1 DEF CycleInv, CycleTypeOK, SearchInv, Search
<1>3. phase' # "scc" =>
        /\ TarjanInv(tarjan)' /\ SplitInv'
        /\ \A d : Members(d)' = Members(d) /\ Cyclic(d)' = Cyclic(d)
        /\ \A M : Acyclic(M)' = Acyclic(M)
  BY <1>1, AfterTarjan
<1>4. Unbounded(u) = {w \in search.members : graph[<<u, w>>] = "unbounded"}
  BY DEF Unbounded, Targets
<1> HIDE DEF u
<1>5. ASSUME phase' = phase, cycles' = cycles, search' \in Search, search'.members = search.members,
             VisitInv(search'), ColorInv(search'), BlackInv(search')
      PROVE  CycleInv'
  <2>1. SearchInv'
    BY <1>1, <1>5, SameSearch
  <2>2. CycleTypeOK' /\ ReportInv'
    BY <1>1, <1>5 DEF CycleInv, CycleTypeOK, ReportInv
  <2>3. SearchedInv'
    BY <1>1, <1>3, <1>5 DEF CycleInv, SearchedInv
  <2> QED
    BY <1>1, <1>3, <1>5, <2>1, <2>2, <2>3 DEF CycleInv
<1>6. CASE Enter(u)
  <2> DEFINE z == [search EXCEPT !.color = [@ EXCEPT ![u] = "gray"], !.path = Append(@, u)]
  <2>1. search.color[u] = "white" /\ search' = z /\ phase' = phase /\ cycles' = cycles
    BY <1>6 DEF Enter
  <2>2. z \in Search /\ VisitInv(z) /\ ColorInv(z) /\ BlackInv(z)
    BY <1>1, <1>2, <2>1, EnterInv DEF u
  <2>3. z.members = search.members
    BY <1>2 DEF Search
  <2> HIDE DEF z
  <2> QED
    BY <1>5, <2>1, <2>2, <2>3
<1>7. CASE Leave(u)
  <2> DEFINE z == [search EXCEPT !.color = [@ EXCEPT ![u] = "black"], !.path = Front(@), !.visit = Front(@)]
  <2>1. /\ search.color[u] = "gray" /\ search' = z /\ phase' = phase /\ cycles' = cycles
        /\ Unbounded(u) \subseteq search.pos[u]
    BY <1>7 DEF Leave
  <2>2. \A w \in search.members : graph[<<u, w>>] = "unbounded" => w \in search.pos[u]
    BY <1>4, <2>1
  <2>3. z \in Search /\ VisitInv(z) /\ ColorInv(z) /\ BlackInv(z)
    BY <1>1, <1>2, <2>1, <2>2, LeaveInv DEF u
  <2>4. z.members = search.members
    BY <1>2 DEF Search
  <2> HIDE DEF z
  <2> QED
    BY <1>5, <2>1, <2>3, <2>4
<1>8. ASSUME NEW w \in Unbounded(u), Follow(u, w)
      PROVE  CycleInv'
  <2>0. w \in search.members /\ graph[<<u, w>>] = "unbounded" /\ search.color[u] = "gray"
    BY <1>4, <1>8 DEF Follow
  <2>1. CASE search.color[w] = "gray"
    <3> DEFINE at == CHOOSE i \in DOMAIN search.path : search.path[i] = w
               c == SubSeq(search.path, at, Len(search.path))
    <3>1. cycles' = cycles \cup {c} /\ phase' = "split" /\ search' = SearchStart
      BY <1>8, <2>1 DEF Follow
    <3>2. /\ c \in Seq(Vertices) /\ c # <<>>
          /\ \A i \in DOMAIN c : graph[<<c[i], IF i = Len(c) THEN c[1] ELSE c[i + 1]>>] = "unbounded"
      BY <1>1, <1>2, <2>0, <2>1, Reported DEF u
    <3> HIDE DEF c
    <3>3. ReportInv'
      BY <1>1, <3>1, <3>2 DEF CycleInv, ReportInv
    <3>4. SearchStart \in Search
      BY DEF Search, SearchStart
    <3>5. CycleTypeOK'
      BY <1>1, <3>1, <3>2, <3>4 DEF CycleInv, CycleTypeOK
    <3>6. SearchInv' /\ SearchedInv'
      BY <3>1 DEF SearchInv, SearchedInv
    <3> QED
      BY <1>3, <3>1, <3>3, <3>5, <3>6 DEF CycleInv
  <2>2. CASE search.color[w] # "gray"
    <3> DEFINE z == [search EXCEPT !.pos = [search.pos EXCEPT ![u] = @ \cup {w}],
                                   !.visit = IF search.color[w] = "white" THEN Append(@, w) ELSE @]
    <3>1. search' = z /\ phase' = phase /\ cycles' = cycles
      BY <1>8, <2>2 DEF Follow
    <3>2. z \in Search /\ VisitInv(z) /\ ColorInv(z) /\ BlackInv(z)
      BY <1>1, <1>2, <2>0, <2>2, FollowInv DEF u
    <3>3. z.members = search.members
      BY <1>2 DEF Search
    <3> HIDE DEF z
    <3> QED
      BY <1>5, <3>1, <3>2, <3>3
  <2> QED
    BY <2>1, <2>2
<1> QED
  BY <1>1, <1>6, <1>7, <1>8

\* The invariant of the pass holds of every behaviour.
LEMMA CycleInvHolds == CycleSpec => []CycleInv
<1>1. CycleInit => CycleInv
  BY CycleInitInv
<1>2. CycleInv /\ [CycleNext]_cycleVars => CycleInv'
  <2> SUFFICES ASSUME CycleInv, [CycleNext]_cycleVars PROVE CycleInv'
    OBVIOUS
  <2>1. CASE CycleNext
    <3>1. CASE NextRoot \/ VisitNode
      BY <3>1, TarjanStepInv
    <3>2. CASE SplitComponents
      BY <3>2, SplitComponentsInv
    <3>3. CASE AllSearched
      BY <3>3, AllSearchedInv
    <3>4. CASE SearchRoot
      BY <3>4, SearchRootInv
    <3>5. CASE SearchStep
      BY <3>5, SearchStepInv
    <3>6. CASE \E c \in unchecked : StartSearch(c)
      BY <3>6, StartSearchInv
    <3> QED
      BY <2>1, <3>1, <3>2, <3>3, <3>4, <3>5, <3>6 DEF CycleNext
  <2>2. CASE UNCHANGED cycleVars
    <3>1. /\ graph' = graph /\ phase' = phase /\ tarjan' = tarjan /\ unchecked' = unchecked
          /\ search' = search /\ useless' = useless /\ cycles' = cycles
      BY <2>2 DEF cycleVars
    <3>2. TarjanInv(tarjan)'
      BY <3>1, SameGraph DEF CycleInv
    <3>3. CycleTypeOK' /\ ReportInv' /\ SplitInv'
      BY <3>1 DEF CycleInv, CycleTypeOK, ReportInv, SplitInv, Seen
    <3>4. SearchInv'
      <4>1. CASE phase = "search"
        BY <3>1, <4>1, SameSearch DEF CycleInv, SearchInv
      <4>2. CASE phase # "search"
        BY <3>1, <4>2 DEF SearchInv
      <4> QED
        BY <4>1, <4>2
    <3>5. SearchedInv'
      <4>1. \A c : Members(c)' = Members(c) /\ Cyclic(c)' = Cyclic(c)
        BY <3>1 DEF Members, Cyclic
      <4>2. \A M : Acyclic(M)' = Acyclic(M)
        BY <3>1 DEF Acyclic
      <4> QED
        BY <3>1, <4>1, <4>2 DEF CycleInv, SearchedInv
    <3> QED
      BY <3>2, <3>3, <3>4, <3>5 DEF CycleInv
  <2> QED
    BY <2>1, <2>2
<1> QED
  BY <1>1, <1>2, PTL DEF CycleSpec

-----------------------------------------------------------------------------
(***************************************************************************)
(* What follows from the invariant.                                        *)
(***************************************************************************)
\* A closed walk along unbounded edges connects its first node to itself.
LEMMA WalkConnects ==
  ASSUME NEW c \in Seq(Vertices), c # <<>>,
         \A i \in DOMAIN c : graph[<<c[i], IF i = Len(c) THEN c[1] ELSE c[i + 1]>>] = "unbounded"
  PROVE  <<c[1], c[1]>> \in Connected({"unbounded"}) /\ c[1] \in Vertices
<1> DEFINE C == Connected({"unbounded"})
           n == Len(c)
           bad == {i \in 2 .. n : <<c[1], c[i]>> \notin C}
<1>1. n \in Nat /\ n # 0 /\ DOMAIN c = 1 .. n /\ 1 \in 1 .. n /\ \A i \in 1 .. n : c[i] \in Vertices
  OBVIOUS
<1>2. EdgesOf({"unbounded"}) \subseteq C /\ Transitive(C)
  BY ConnectedIs
<1>3. \A a, b \in Vertices : graph[<<a, b>>] = "unbounded" => <<a, b>> \in C
  BY <1>2 DEF EdgesOf
<1>4. /\ \A i \in 1 .. n : i + 1 \in 1 .. n => <<c[i], c[i + 1]>> \in C
      /\ <<c[n], c[1]>> \in C
  <2>1. ASSUME NEW i \in 1 .. n, i + 1 \in 1 .. n
        PROVE  <<c[i], c[i + 1]>> \in C
    <3>1. i # Len(c) /\ i \in DOMAIN c
      <4>1. i # n /\ i \in DOMAIN c
        <5> HIDE DEF n
        <5> QED
          BY <1>1, <2>1
      <4> QED
        BY <4>1
    <3>2. graph[<<c[i], IF i = Len(c) THEN c[1] ELSE c[i + 1]>>] = "unbounded"
      BY <3>1
    <3>3. graph[<<c[i], c[i + 1]>>] = "unbounded"
      BY <3>1, <3>2
    <3> QED
      BY <1>1, <1>3, <2>1, <3>3
  <2>2. <<c[n], c[1]>> \in C
    <3>1. n = Len(c) /\ n \in DOMAIN c
      BY <1>1
    <3>2. graph[<<c[n], IF n = Len(c) THEN c[1] ELSE c[n + 1]>>] = "unbounded"
      BY <3>1
    <3>3. graph[<<c[n], c[1]>>] = "unbounded"
      BY <3>1, <3>2
    <3>4. n \in 1 .. n
      BY <1>1
    <3> QED
      BY <1>1, <1>3, <3>3, <3>4
  <2> QED
    BY <2>1, <2>2
<1> HIDE DEF C, n
<1>5. bad = {}
  <2> SUFFICES ASSUME bad # {} PROVE FALSE
    OBVIOUS
  <2>1. bad \subseteq Nat
    BY <1>1
  <2>2. PICK m \in bad : \A k \in bad : m <= k
    <3> HIDE DEF bad
    <3> QED
      BY <2>1, LeastNumber
  <2>3. m \in 2 .. n /\ <<c[1], c[m]>> \notin C /\ m - 1 \in 1 .. n /\ m - 1 + 1 = m /\ m \in 1 .. n
    BY <1>1, <2>2
  <2>4. <<c[m - 1], c[m]>> \in C
    BY <1>4, <2>3
  <2>5. CASE m = 2
    BY <2>3, <2>4, <2>5
  <2>6. CASE m # 2
    <3>1. m - 1 \in 2 .. n /\ m - 1 \notin bad
      BY <1>1, <2>2, <2>3, <2>6
    <3>2. <<c[1], c[m - 1]>> \in C
      BY <3>1
    <3> QED
      BY <1>1, <1>2, <2>3, <2>4, <3>2 DEF Transitive
  <2> QED
    BY <2>5, <2>6
<1>6. CASE n = 1
  BY <1>1, <1>4, <1>6 DEF C
<1>7. CASE n # 1
  <2>1. n \in 2 .. n /\ n \in 1 .. n
    BY <1>1, <1>7
  <2>2. <<c[1], c[n]>> \in C
    BY <1>5, <2>1
  <2> QED
    BY <1>1, <1>2, <1>4, <2>1, <2>2 DEF Transitive, C
<1> QED
  BY <1>6, <1>7

\* A component with two nodes is cyclic.
LEMMA TwoMembers ==
  ASSUME NEW c, NEW v \in Members(c), NEW w \in Members(c), v # w
  PROVE  Cyclic(c)
<1>1. Members(c) \subseteq Vertices /\ {v, w} \subseteq Members(c)
  BY DEF Members
<1>2. Cardinality({}) = 0 /\ Cardinality({} \cup {v}) = Cardinality({}) + 1
  BY <1>1, FS_EmptySet, Count
<1>3. Cardinality({v} \cup {w}) = Cardinality({v}) + 1
  BY <1>1, Count
<1>4. Cardinality({v} \cup {w}) <= Cardinality(Members(c)) /\ Cardinality(Members(c)) \in Nat
  BY <1>1, Count
<1>5. {} \cup {v} = {v}
  OBVIOUS
<1>6. Cardinality({v}) = 1
  BY <1>2, <1>5
<1>7. Cardinality(Members(c)) > 1
  BY <1>3, <1>4, <1>6
<1> QED
  BY <1>7 DEF Cyclic

\* A cycle of unbounded edges lies inside one cyclic component, and that
\* component is not acyclic.
LEMMA CycleInComponent ==
  ASSUME TarjanInv(tarjan), SplitInv, phase # "scc",
         NEW v \in Vertices, <<v, v>> \in Connected({"unbounded"})
  PROVE  \E c \in 0 .. tarjan.comps - 1 : Cyclic(c) /\ ~Acyclic(Members(c))
<1> DEFINE C == Connected({"unbounded"})
           T == {x \in Vertices : <<v, x>> \in C /\ <<x, v>> \in C}
           c == tarjan.scc[v]
<1>1. /\ EdgesOf({"unbounded"}) \subseteq C /\ Transitive(C)
      /\ EdgesOf(Edges) \subseteq Connected(Edges) /\ Transitive(Connected(Edges))
  BY ConnectedIs
<1>2. C \subseteq Connected(Edges)
  <2>1. EdgesOf({"unbounded"}) \subseteq EdgesOf(Edges)
    BY DEF EdgesOf, Edges
  <2> QED
    BY <1>1, <2>1, ConnectedIs
<1>3. Finished(tarjan) = Vertices
  <2>1. tarjan \in Tarjan /\ StackInv(tarjan) /\ PathInv(tarjan) /\ tarjan.call = <<>>
        /\ Seen(tarjan) = Vertices
    BY DEF TarjanInv, SplitInv
  <2>2. Gray(tarjan) = {}
    BY <2>1 DEF Gray, Calls, ToSet
  <2> QED
    BY <2>1, <2>2 DEF StackInv, PathInv
<1> HIDE DEF C
<1>4. T \subseteq Members(c)
  <2>1. ASSUME NEW x \in T PROVE x \in Members(c)
    <3>1. Reach(v, x) /\ Reach(x, v) /\ x \in Vertices
      BY <1>2 DEF Reach
    <3>2. tarjan.scc[x] = c
      BY <1>3, <3>1 DEF TarjanInv, DoneInv
    <3> QED
      BY <3>1, <3>2 DEF Members
  <2> QED
    BY <2>1
<1>5. c \in 0 .. tarjan.comps - 1
  <2>1. c < tarjan.comps
    BY <1>3 DEF TarjanInv, DoneInv
  <2>2. c \in Nat /\ tarjan.comps \in Nat
    BY CycleAssumption DEF TarjanInv, Tarjan, Unseen
  <2> QED
    BY <2>1, <2>2
<1>6. v \in T
  BY DEF C
<1>7. ASSUME NEW x \in T
      PROVE  \E y \in T : graph[<<x, y>>] = "unbounded"
  <2>1. x \in Vertices /\ <<x, v>> \in C /\ <<v, x>> \in C
    OBVIOUS
  <2>2. PICK y \in Vertices : <<x, y>> \in EdgesOf({"unbounded"}) /\ (y = v \/ <<y, v>> \in C)
    BY <2>1, FirstEdge DEF C
  <2>3. graph[<<x, y>>] = "unbounded"
    BY <2>2 DEF EdgesOf
  <2>4. <<v, y>> \in C
    BY <1>1, <2>1, <2>2 DEF Transitive
  <2>5. y \in T
    BY <1>6, <2>2, <2>4
  <2> QED
    BY <2>3, <2>5
<1> HIDE DEF T
<1>8. ~Acyclic(Members(c))
  BY <1>4, <1>6, <1>7 DEF Acyclic
<1>9. Cyclic(c)
  <2>1. PICK y \in T : graph[<<v, y>>] = "unbounded"
    BY <1>6, <1>7
  <2>2. v \in Members(c) /\ y \in Members(c)
    BY <1>4, <1>6
  <2>3. CASE y = v
    BY <2>1, <2>2, <2>3 DEF Cyclic
  <2>4. CASE y # v
    BY <2>2, <2>4, TwoMembers
  <2> QED
    BY <2>3, <2>4
<1> QED
  BY <1>5, <1>8, <1>9

\* The locals of the loops keep their types: numbers stay below NodeCount, and
\* stacks and paths hold nodes of the graph.
THEOREM CycleTyped == CycleSpec => []CycleTypeOK
<1>1. CycleInv => CycleTypeOK
  BY DEF CycleInv
<1> QED
  BY <1>1, CycleInvHolds, PTL

\* iterativeSCC puts two nodes into one component exactly if each reaches the
\* other, and max_traversals is reported exactly on edges that are on no cycle.
THEOREM ComponentsRight == CycleSpec => []ComponentsAreRight
<1>1. CycleInv => ComponentsAreRight
  <2> SUFFICES ASSUME CycleInv, phase = "split"
               PROVE  LET connected == Connected(Edges)
                      IN  /\ \A u, w \in Vertices : u # w =>
                               (tarjan.scc[u] = tarjan.scc[w] <=>
                                  <<u, w>> \in connected /\ <<w, u>> \in connected)
                          /\ useless = {e \in EdgesOf({"bounded"}) : <<e[2], e[1]>> \notin connected}
    BY DEF ComponentsAreRight, Edges
  <2> DEFINE C == Connected(Edges)
  <2>1. EdgesOf(Edges) \subseteq C /\ C \subseteq Pairs
    BY ConnectedIs
  <2>2. /\ tarjan \in Tarjan /\ StackInv(tarjan) /\ PathInv(tarjan) /\ DoneInv(tarjan)
        /\ tarjan.call = <<>> /\ Seen(tarjan) = Vertices
        /\ useless = {e \in Pairs : graph[e] = "bounded" /\ tarjan.scc[e[1]] # tarjan.scc[e[2]]}
    BY DEF CycleInv, TarjanInv, SplitInv
  <2>3. Finished(tarjan) = Vertices
    <3>1. Gray(tarjan) = {}
      BY <2>2 DEF Gray, Calls, ToSet
    <3> QED
      BY <2>2, <3>1 DEF StackInv, PathInv
  <2>4. ASSUME NEW u \in Vertices, NEW w \in Vertices, u # w
        PROVE  tarjan.scc[u] = tarjan.scc[w] <=> <<u, w>> \in C /\ <<w, u>> \in C
    BY <2>2, <2>3, <2>4 DEF DoneInv, Reach
  <2>5. ASSUME NEW a \in Vertices, NEW b \in Vertices, graph[<<a, b>>] = "bounded"
        PROVE  tarjan.scc[a] # tarjan.scc[b] <=> <<b, a>> \notin C
    <3>1. <<a, b>> \in C
      BY <2>1, <2>5 DEF EdgesOf, Edges
    <3>2. CASE a = b
      BY <3>1, <3>2
    <3>3. CASE a # b
      BY <2>4, <3>1, <3>3
    <3> QED
      BY <3>2, <3>3
  <2> HIDE DEF C
  <2>6. useless = {e \in EdgesOf({"bounded"}) : <<e[2], e[1]>> \notin C}
    <3>1. \A e \in Pairs : graph[e] = "bounded" =>
            (tarjan.scc[e[1]] # tarjan.scc[e[2]] <=> <<e[2], e[1]>> \notin C)
      <4> SUFFICES ASSUME NEW e \in Pairs, graph[e] = "bounded"
                   PROVE  tarjan.scc[e[1]] # tarjan.scc[e[2]] <=> <<e[2], e[1]>> \notin C
        OBVIOUS
      <4>1. e = <<e[1], e[2]>> /\ e[1] \in Vertices /\ e[2] \in Vertices
        BY DEF Pairs
      <4> QED
        BY <2>5, <4>1
    <3>2. EdgesOf({"bounded"}) = {e \in Pairs : graph[e] = "bounded"}
      BY DEF EdgesOf, Pairs
    <3> QED
      BY <2>2, <3>1, <3>2
  <2> QED
    BY <2>4, <2>6 DEF C
<1> QED
  BY <1>1, CycleInvHolds, PTL

\* findCycle reports a cycle exactly if some cycle has no bounded edge, and
\* what it reports is a cycle of unbounded edges.
THEOREM CyclesReported == CycleSpec => []UnboundedCyclesReported
<1>1. CycleInv => UnboundedCyclesReported
  <2> SUFFICES ASSUME CycleInv PROVE UnboundedCyclesReported
    OBVIOUS
  <2>1. \A c \in cycles : \A i \in DOMAIN c :
          graph[<<c[i], IF i = Len(c) THEN c[1] ELSE c[i + 1]>>] = "unbounded"
    BY DEF CycleInv, ReportInv
  <2>2. ASSUME phase = "done", NEW v \in Vertices, <<v, v>> \in Connected({"unbounded"})
        PROVE  cycles # {}
    <3>1. \E c \in 0 .. tarjan.comps - 1 : Cyclic(c) /\ ~Acyclic(Members(c))
      BY <2>2, CycleInComponent DEF CycleInv
    <3>2. PICK c \in 0 .. tarjan.comps - 1 : Cyclic(c) /\ ~Acyclic(Members(c))
      BY <3>1
    <3> QED
      BY <2>2, <3>2 DEF CycleInv, SearchedInv
  <2>3. ASSUME cycles # {}
        PROVE  \E v \in Vertices : <<v, v>> \in Connected({"unbounded"})
    <3>1. PICK c \in cycles : TRUE
      BY <2>3
    <3>2. c \in Seq(Vertices) /\ c # <<>>
      BY DEF CycleInv, ReportInv
    <3> QED
      BY <2>1, <3>2, WalkConnects
  <2> QED
    BY <2>1, <2>2, <2>3 DEF UnboundedCyclesReported
<1> QED
  BY <1>1, CycleInvHolds, PTL
=============================================================================
