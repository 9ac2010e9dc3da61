------------------------------- MODULE Routing -------------------------------
(* Routes over the stargate graph: the chain router of the wormhole map
   (wh_route: Dijkstra over gates and mapped connections), Pochven's jump
   distances under a preference (engine::distances: the same loop without a
   destination, on pairs (penalty, jumps)), and its scan order (a Steiner tree
   over the origin and the nearest candidates, walked depth first).
   A cost is a pair, compared lexicographically; wh_route's is <<cost, 0>>.  *)
EXTENDS Integers, Sequences, FiniteSets, FiniteSetsExt, TLC

CONSTANTS Nodes,          \* the systems: their ids, naturals
          Gates,          \* stargate graphs: functions from systems to sequences
          Chains,         \* sequences of connections [a, b, scope, eol, mass, critical]
          HiSec,          \* subsets of Nodes: those of security >= 0.45
          Candidates,     \* subsets of Nodes: where a C729 may open
          HullMasses,     \* jump-mass classes a hull may need; 0: no ship given
          Dangerous,      \* SAFER_DANGEROUS_COST
          SteinerMax,     \* STEINER_MAX
          Ranges,         \* max_jumps
          Nowhere         \* no destination

RoutingAssumption ==
  /\ Nodes \subseteq Nat /\ IsFiniteSet(Nodes) /\ Nowhere \notin Nodes
  /\ Gates \subseteq [Nodes -> Seq(Nodes)]
  /\ Chains \subseteq Seq([a : Nodes, b : Nodes, scope : {"stargate", "jumpbridge", "wormhole"},
                           eol : BOOLEAN, mass : Nat, critical : BOOLEAN])
  /\ HullMasses \subseteq Nat
  /\ Dangerous \in Nat \ {0}

VARIABLES job,            \* "none", what runs, or what has been answered
          gates, chain, hisec, ask,   \* what was asked
          adj,            \* system -> sequence of [to, via, critical]
          dist, prev, heap,           \* of the loop
          answer

rVars == <<job, gates, chain, hisec, ask, adj, dist, prev, heap, answer>>

RouteInit ==
  /\ job = "none"
  /\ gates \in Gates /\ chain \in Chains /\ hisec \in HiSec
  /\ ask = [origin |-> 0]
  /\ adj = <<>> /\ dist = <<>> /\ prev = <<>> /\ heap = {} /\ answer = <<>>

SeqRange(s) == {s[i] : i \in DOMAIN s}
Less(a, b) == a[1] < b[1] \/ (a[1] = b[1] /\ a[2] < b[2])
Plus(a, b) == <<a[1] + b[1], a[2] + b[2]>>
Bind(f, k, v) == [x \in DOMAIN f \cup {k} |-> IF x = k THEN v ELSE f[x]]

---------------------------------------------------------------------------
(* union_adjacency: a system's gates first, then the holes that fit.        *)
(* Mutant: the mass a hole lets through is not looked at. *)
UsableAnyHole(c, avoidEol, minMass) == ~(avoidEol /\ c.eol)

Usable(c, avoidEol, minMass) ==
  /\ ~(avoidEol /\ c.eol)
  /\ c.scope = "wormhole" => c.mass >= minMass

(* How a system is left by its gates, and through a connection at it.       *)
Gated(s) == [i \in 1..Len(gates[s]) |-> [to |-> gates[s][i], via |-> "stargate", critical |-> FALSE]]

(* Mutant: a connection leads only the way it was drawn. *)
EdgeOneWay(s, c) ==
  [to |-> c.b,
   via |-> IF c.scope = "stargate" THEN "stargate" ELSE "wormhole",
   critical |-> c.scope # "stargate" /\ c.critical]

Edge(s, c) ==
  [to |-> IF c.a = s THEN c.b ELSE c.a,
   via |-> IF c.scope = "stargate" THEN "stargate" ELSE "wormhole",
   critical |-> c.scope # "stargate" /\ c.critical]

Mapped(s, avoidEol, minMass) ==
  LET edges[i \in 0..Len(chain)] ==
        IF i = 0 THEN <<>>
        ELSE IF s \in {chain[i].a, chain[i].b} /\ Usable(chain[i], avoidEol, minMass)
             THEN Append(edges[i - 1], Edge(s, chain[i])) ELSE edges[i - 1]
  IN edges[Len(chain)]

Union(avoidEol, minMass) == [s \in Nodes |-> Gated(s) \o Mapped(s, avoidEol, minMass)]

(* What entering a system costs (wh_route's closure, Pref::penalty).        *)
Enter(s) ==
  CASE ask.prefer = "safer"    -> <<IF s \in hisec THEN 1 ELSE Dangerous, 0>>
    [] ask.prefer = "plain"    -> <<1, 0>>
    [] ask.prefer = "shortest" -> <<0, 1>>
    [] ask.prefer = "secure"   -> <<IF s \in hisec THEN 0 ELSE 1, 1>>
    [] ask.prefer = "insecure" -> <<IF s \in hisec THEN 1 ELSE 0, 1>>

Start(kind, from) ==
  /\ job = "none"
  /\ job' = kind
  /\ dist' = [s \in {from} |-> <<0, 0>>]
  /\ heap' = {<<<<0, 0>>, from>>}
  /\ prev' = [s \in {} |-> from]
  /\ UNCHANGED <<gates, chain, hisec, answer>>

AskRoute ==
  \E o, d \in Nodes, avoid \in BOOLEAN, mass \in HullMasses, p \in {"safer", "plain"} :
    /\ ask' = [origin |-> o, dest |-> d, avoid |-> avoid, mass |-> mass, prefer |-> p]
    /\ adj' = Union(avoid, mass)
    /\ Start("route", o)

AskDistances ==
  \E o \in Nodes, p \in {"shortest", "secure", "insecure"} :
    /\ ask' = [origin |-> o, dest |-> Nowhere, prefer |-> p]
    /\ adj' = [s \in Nodes |-> Gated(s)]
    /\ Start("distances", o)

(* One turn of the loop, on the least entry of the heap.                    *)
Least == CHOOSE h \in heap : \A k \in heap : k = h \/ Less(h[1], k[1]) \/ (h[1] = k[1] /\ h[2] <= k[2])

Improves(d, to, cost) == to \notin DOMAIN d \/ Less(cost, d[to])

(* One edge out of u, which was reached for d; and all of them in turn.     *)
Tried(s, d, u, e) ==
  LET nd == Plus(d, Enter(e.to))
  IN IF ~Improves(s.dist, e.to, nd) THEN s
     ELSE [dist |-> Bind(s.dist, e.to, nd), prev |-> Bind(s.prev, e.to, [from |-> u, edge |-> e]),
           heap |-> s.heap \cup {<<nd, e.to>>}]

Relaxed(d, u) ==
  LET edge[n \in 0..Len(adj[u])] ==
        IF n = 0 THEN [dist |-> dist, prev |-> prev, heap |-> heap \ {<<d, u>>}]
        ELSE Tried(edge[n - 1], d, u, adj[u][n])
  IN edge[Len(adj[u])]

Settle ==
  /\ job \in {"route", "distances"} /\ heap # {}
  /\ LET d == Least[1]
         u == Least[2]
     IN /\ u # ask.dest
        /\ IF Less(dist[u], d) THEN heap' = heap \ {Least} /\ UNCHANGED <<dist, prev>>
           ELSE LET s == Relaxed(d, u) IN dist' = s.dist /\ prev' = s.prev /\ heap' = s.heap
  /\ UNCHANGED <<job, gates, chain, hisec, ask, adj, answer>>

(* The path is unwound from the destination; a system is on it only once.   *)
Stop(s) ==
  IF s = ask.origin THEN [at |-> s, via |-> "origin", critical |-> FALSE]
  ELSE [at |-> s, via |-> prev[s].edge.via, critical |-> prev[s].edge.critical]

Unwound ==
  LET path[n \in 0..Cardinality(Nodes)] ==
        IF n = 0 THEN <<Stop(ask.dest)>>
        ELSE LET later == path[n - 1]
                 first == later[1].at
             IN IF first = ask.origin THEN later ELSE <<Stop(prev[first].from)>> \o later
  IN path[Cardinality(Nodes)]

Arrive ==
  /\ job = "route" /\ (heap # {} => Least[2] = ask.dest)
  /\ answer' = IF ask.origin = ask.dest \/ ask.dest \in DOMAIN prev THEN Unwound ELSE <<>>
  /\ job' = "routed"
  /\ UNCHANGED <<gates, chain, hisec, ask, adj, dist, prev, heap>>

Exhausted ==
  /\ job = "distances" /\ heap = {}
  /\ job' = "measured" /\ answer' = [s \in DOMAIN dist |-> dist[s][2]]
  /\ UNCHANGED <<gates, chain, hisec, ask, adj, dist, prev, heap>>

---------------------------------------------------------------------------
(* graph::bfs: the systems in the order they are found, with predecessors.  *)
Bfs(within, start) ==
  LET visit[n \in 0..Cardinality(Nodes)] ==
        IF n = 0 THEN [seen |-> <<start>>, dist |-> [x \in {start} |-> 0], pred |-> [x \in {} |-> start]]
        ELSE LET s == visit[n - 1]
             IN IF n > Len(s.seen) THEN s
                ELSE LET u == s.seen[n]
                         new == SelectSeq(gates[u], LAMBDA v : v \in within /\ v \notin DOMAIN s.dist)
                         found == SeqRange(new)
                     IN [seen |-> s.seen \o new,
                         dist |-> [x \in DOMAIN s.dist \cup found |-> IF x \in found THEN s.dist[u] + 1 ELSE s.dist[x]],
                         pred |-> [x \in DOMAIN s.pred \cup found |-> IF x \in found THEN u ELSE s.pred[x]]]
  IN visit[Cardinality(Nodes)]

PathIds(pred, from, to) ==
  LET ids[n \in Nodes] == IF n = from THEN {n} ELSE {n} \cup ids[pred[n]] IN ids[to]

(* Mutant: only the paths from the first terminal are searched. *)
WorkingFromOrigin(terminals) ==
  UNION {PathIds(Bfs(Nodes, terminals[1]).pred, terminals[1], terminals[j]) : j \in DOMAIN terminals}

(* steiner_tree works on the union of one shortest path per pair.           *)
Working(terminals) ==
  SeqRange(terminals) \cup
  UNION {PathIds(Bfs(Nodes, terminals[x[1]]).pred, terminals[x[1]], terminals[x[2]]) :
           x \in {y \in (DOMAIN terminals) \X (DOMAIN terminals) : y[1] < y[2]}}

Smallest(S) == CHOOSE x \in S : \A y \in S : x <= y

(* Dreyfus-Wagner: dp[S][v], the fewest gates of a tree over the terminals S
   that touches v, by merging two parts that meet or extending by a gate.    *)
Parts(S) == {A \in SUBSET S : A # {} /\ A # S}

Table(T, W) ==
  LET far == [v \in W |-> Bfs(W, v).dist]
      Sized(n) == {S \in SUBSET T : Cardinality(S) = n}
      dp[n \in 1..Cardinality(T)] ==
        IF n = 1 THEN [x \in Sized(1) \X W |-> far[CHOOSE t \in x[1] : TRUE][x[2]]]
        ELSE LET p == dp[n - 1]
                 meet == p @@ [x \in Sized(n) \X W |-> Smallest({p[A, x[2]] + p[x[1] \ A, x[2]] : A \in Parts(x[1])})]
             IN p @@ [x \in Sized(n) \X W |-> Smallest({meet[x[1], u] + far[u][x[2]] : u \in W})]
  IN dp[Cardinality(T)]

(* The unwinding of back[mask][v], whatever the order of the hash set that
   decides between equal costs.                                             *)
Unwind(dp, W, T, root) ==
  LET trees[S \in SUBSET T, v \in W] ==
        IF S = {v} THEN {{}}
        ELSE UNION {{ {{u, v}} \cup t : t \in trees[S, u] } :
                      u \in {x \in W \cap SeqRange(gates[v]) : dp[S, x] + 1 = dp[S, v]}}
             \cup
             UNION {{ p[1] \cup p[2] : p \in trees[A, v] \X trees[S \ A, v] } :
                      A \in {x \in Parts(S) : dp[x, v] + dp[S \ x, v] = dp[S, v]}}
  IN trees[T, root]

Trees(terminals) ==
  LET T == SeqRange(terminals)
      W == Working(terminals)
      dp == Table(T, W)
      cost == Smallest({dp[T, v] : v \in W})
  IN UNION {Unwind(dp, W, T, v) : v \in {x \in W : dp[T, x] = cost}}

Ranked(S, far) ==
  LET n == Cardinality(S)
      Before(a, b) == far[a] < far[b] \/ (far[a] = far[b] /\ a < b)
  IN [i \in 1..n |-> CHOOSE x \in S : Cardinality({y \in S : Before(y, x)}) = i - 1]

(* tree_preorder: nearer branches first.                                    *)
Preorder(tree, start, far) ==
  LET walk[n \in 0..Cardinality(tree) + 1] ==
        IF n = 0 THEN [stack |-> <<start>>, order |-> <<>>]
        ELSE LET w == walk[n - 1]
                 u == Head(w.stack)
                 next == {v \in Nodes : {u, v} \in tree /\ v # u /\ v \notin SeqRange(w.order)}
             IN IF w.stack = <<>> THEN w
                ELSE IF u \in SeqRange(w.order) THEN [w EXCEPT !.stack = Tail(@)]
                ELSE [stack |-> Ranked(next, far) \o Tail(w.stack), order |-> Append(w.order, u)]
  IN walk[Cardinality(tree) + 1].order

(* scan_order: the candidates in the order of the walk, then the others.    *)
(* Mutant: the candidates off the walk are numbered again. *)
NumberedAll(visit, inRange, candidates) == SelectSeq(visit, LAMBDA s : s \in candidates) \o inRange
Numbered(visit, inRange, candidates) ==
  LET walked == SelectSeq(visit, LAMBDA s : s \in candidates)
      rest == SelectSeq(inRange, LAMBDA s : s \notin SeqRange(walked))
  IN walked \o rest

AskScan ==
  \E o \in Nodes, candidates \in Candidates, range \in Ranges :
    LET far == Bfs(Nodes, o).dist
        inRange == Ranked({c \in candidates : c \in DOMAIN far /\ far[c] <= range}, far)
        nearest == SelectSeq(SubSeq(inRange, 1, IF Len(inRange) < SteinerMax THEN Len(inRange) ELSE SteinerMax),
                             LAMBDA s : s # o)
        terminals == <<o>> \o nearest
    IN /\ job = "none" /\ job' = "scanned"
       /\ ask' = [origin |-> o, inRange |-> inRange, terminals |-> terminals]
       /\ \E tree \in IF Len(terminals) = 1 THEN {{}} ELSE Trees(terminals) :
            answer' = [tree |-> tree, order |-> Numbered(Preorder(tree, o, far), inRange, candidates)]
       /\ UNCHANGED <<gates, chain, hisec, adj, dist, prev, heap>>

RouteNext == AskRoute \/ AskDistances \/ Settle \/ Arrive \/ Exhausted \/ AskScan
RouteSpec == RouteInit /\ [][RouteNext]_rVars

---------------------------------------------------------------------------
(* What a hop crosses: a gate, or a connection that pilot and hull accept.  *)
Crosses(u, v, via, critical) ==
  \/ v \in SeqRange(gates[u]) /\ via = "stargate" /\ ~critical
  \/ /\ job \in {"route", "routed"}
     /\ \E c \in SeqRange(chain) :
          /\ {c.a, c.b} = {u, v}
          /\ ask.avoid => ~c.eol
          /\ c.scope = "wormhole" => c.mass >= ask.mass
          /\ IF c.scope = "stargate" THEN via = "stargate" /\ ~critical
             ELSE via = "wormhole" /\ critical = c.critical

Hops(u, v) == \E via \in {"stargate", "wormhole"}, critical \in BOOLEAN : Crosses(u, v, via, critical)

(* The reference: where the ways of at most n hops lead, and for what.      *)
Ways(n) ==
  LET ways[i \in 0..n] ==
        IF i = 0 THEN {<<ask.origin, <<0, 0>>>>}
        ELSE LET before == ways[i - 1]
                 longer == {x \in before \X Nodes : Hops(x[1][1], x[2])}
             IN before \cup {<<x[2], Plus(x[1][2], Enter(x[2]))>> : x \in longer}
  IN ways[n]

(* A cheapest way visits no system twice, so that these are enough.         *)
AllWays == Ways(Cardinality(Nodes))

NoneCheaper(ways, s, cost) == <<s, cost>> \in ways /\ \A w \in ways : w[1] = s => ~Less(w[2], cost)

PathCost ==
  LET sum[n \in 0..Len(answer) - 1] == IF n = 0 THEN <<0, 0>> ELSE Plus(sum[n - 1], Enter(answer[n + 1].at))
  IN sum[Len(answer) - 1]

(* wh_route: the route found leads from the origin to the destination over
   gates and holes that the hull and the pilot accept, each flagged as what it
   is; none costs less; and there is one whenever there is a way.           *)
RouteIsCheapest ==
  job = "routed" =>
    LET ways == AllWays
    IN IF answer = <<>> THEN \A w \in ways : w[1] # ask.dest
       ELSE /\ answer[1].at = ask.origin /\ answer[Len(answer)].at = ask.dest
            /\ \A i \in 2..Len(answer) :
                 Crosses(answer[i - 1].at, answer[i].at, answer[i].via, answer[i].critical)
            /\ NoneCheaper(ways, ask.dest, PathCost)

(* engine::distances: for every system that can be reached the jumps are
   those of the least penalised way, the shortest of these.                 *)
DistancesAreLeast ==
  job = "measured" =>
    LET ways == AllWays
    IN /\ DOMAIN answer = {w[1] : w \in ways}
       /\ \A s \in DOMAIN answer : \E w \in ways : w[1] = s /\ w[2][2] = answer[s] /\ NoneCheaper(ways, s, w[2])

(* What wh_route and engine::distances find is a cheapest way.              *)
WaysSound == RouteIsCheapest /\ DistancesAreLeast

(* steiner_tree: the links connect the origin and the nearest candidates,
   without a link too many for the systems they are drawn from, and with no
   more than joining them by shortest paths, pair by pair, would take.      *)
Reach(links, start) ==
  LET reach[n \in 0..Cardinality(Nodes)] ==
        IF n = 0 THEN {start}
        ELSE LET r == reach[n - 1] IN r \cup {v \in Nodes : \E u \in r : {u, v} \in links}
  IN reach[Cardinality(Nodes)]

InducedConnected(X) == DOMAIN Bfs(X, ask.origin).dist = X

PairByPair(T) ==
  LET pairs == {p \in SUBSET T : Cardinality(p) = 2}
      far == [t \in T |-> Bfs(Nodes, t).dist]
      length == [p \in pairs |-> LET t == CHOOSE x \in p : TRUE IN far[t][CHOOSE x \in p : x # t]]
  IN Smallest({MapThenSumSet(LAMBDA p : length[p], joins) : joins \in {J \in SUBSET pairs : T \subseteq Reach(J, ask.origin)}})

TreeIsMinimal ==
  job = "scanned" /\ Len(ask.terminals) > 1 =>
    LET W == Working(ask.terminals)
        T == SeqRange(ask.terminals)
        spans == {X \in SUBSET W : T \subseteq X /\ InducedConnected(X)}
    IN /\ T \subseteq Reach(answer.tree, ask.origin)
       /\ Cardinality(answer.tree) = Smallest({Cardinality(X) : X \in spans}) - 1
       /\ Cardinality(answer.tree) <= PairByPair(T)

(* "Scan order (1-based) for the in-range candidate exits": each has one
   number and no two share it.                                              *)
ScanNumbersAll ==
  job = "scanned" =>
    /\ SeqRange(ask.inRange) \subseteq SeqRange(answer.order)
    /\ \A i, j \in DOMAIN answer.order : i # j => answer.order[i] # answer.order[j]

(* The scan plan joins the nearest exits without a link too many, and numbers
   each once.                                                               *)
ScanSound == TreeIsMinimal /\ ScanNumbersAll

=============================================================================
