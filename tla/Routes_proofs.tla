----------------------------- MODULE Routes_proofs -----------------------------
(****************************************************************************)
(* What find_routes returns is sound, sorted, and begins with a cheapest    *)
(* route, for any network, gossip, amount and limit: the first inductive    *)
(* invariant follows every path in the heap back to what the graph held,    *)
(* the last one gives every node that was expanded its distance from us.    *)
(****************************************************************************)
EXTENDS Routes, Sums_proofs, SequenceTheorems, WellFoundedInduction, TLAPS

(* The statement of RouteSound about a path that is still in the heap: its  *)
(* nodes, but for the last, were expanded.                                  *)
PathOK(p) ==
  /\ p.cost \in Nat /\ p.hops \in Seq(Hops)
  /\ p.hops = <<>> => p.node = Us
  /\ p.hops # <<>> => /\ p.node = p.hops[Len(p.hops)].node
                      /\ Us \in visited
  /\ \A i \in 1..Len(p.hops) :
       /\ Announced(p.hops, i)
       /\ p.hops[i].node # Us
       /\ i < Len(p.hops) => p.hops[i].node \in visited
       /\ \A j \in 1..Len(p.hops) : p.hops[i].node = p.hops[j].node => i = j

(* An edge is an update that the graph held and that carries the amount.    *)
EdgeOK(edge) ==
  /\ edge \in Edges
  /\ \E s \in announced :
       /\ s.from = edge.from /\ s.to = edge.to /\ s.scid = edge.scid
       /\ s.update.htlc_minimum <= call.amount
       /\ call.amount <= s.update.htlc_maximum
       /\ edge.fee = HopFee(s.update) /\ edge.cltv = s.update.cltv

(* The cheapest path left costs no less than the routes found.              *)
InOrder == \A k \in 1..Len(found), p \in heap : found[k].total_fee <= p.cost

Results == [total_fee : Nat, total_time_lock : {TimeLock(h) : h \in Seq(Hops)},
            hops : Seq(Hops)]

RInv == /\ call \in Calls \cup {NoCall}
        /\ graph \in [Channels -> ChannelInfo \cup {None}]
        /\ pc \in {"scan", "search"} => call.dest # Us
        /\ pc = "scan" => /\ Says(graph) \subseteq announced
                          /\ found = <<>> /\ heap = {}
        /\ found \in Seq(Results)
        /\ \A edge \in adj : EdgeOK(edge)
        /\ \A p \in heap : PathOK(p)
        /\ RoutesSound /\ RoutesSorted /\ InOrder

----------------------------------------------------------------------------
(* What is said stays said.                                                 *)

LEMMA AnnouncedGrows ==
  ASSUME announced \subseteq announced', UNCHANGED call, NEW hops, NEW i,
         Announced(hops, i)
  PROVE  Announced(hops, i)'
BY DEF Announced, Before, HopFee

LEMMA SoundGrows ==
  ASSUME announced \subseteq announced', UNCHANGED call, NEW r, RouteSound(r)
  PROVE  RouteSound(r)'
BY AnnouncedGrows DEF RouteSound

LEMMA PathGrows ==
  ASSUME announced \subseteq announced', visited \subseteq visited',
         UNCHANGED call, NEW p, PathOK(p)
  PROVE  PathOK(p)'
<1>1. \A i \in 1..Len(p.hops) : Announced(p.hops, i)'
  BY AnnouncedGrows DEF PathOK
<1> QED
  BY <1>1 DEF PathOK

LEMMA EdgeGrows ==
  ASSUME announced \subseteq announced', UNCHANGED call, NEW edge, EdgeOK(edge)
  PROVE  EdgeOK(edge)'
BY DEF EdgeOK, HopFee

(* The price of a hop is a number.                                          *)
LEMMA HopFeeType ==
  ASSUME NEW u \in UpdateRecords, call \in Calls \cup {NoCall}
  PROVE  HopFee(u) \in Nat
<1>1. call.amount \in Nat /\ u.prop \in Nat /\ u.base \in Nat
  BY RoutesAssumption DEF NoCall, UpdateRecords
<1> DEFINE x == call.amount * u.prop
           y == x % (MaxU64 + 1)
<1>2. x \in Nat
  BY <1>1
<1> HIDE DEF x
<1>3. MaxU64 + 1 \in Nat \ {0}
  BY RoutesAssumption
<1>4. y \in Nat
  BY <1>2, <1>3
<1> HIDE DEF y
<1>5. y \div Million \in Nat
  BY <1>4, RoutesAssumption
<1> QED
  BY <1>1, <1>5 DEF HopFee, x, y

LEMMA EdgesOfOK ==
  ASSUME RInv, pc = "scan", NEW c \in Channels, NEW edge \in EdgesOf(c)
  PROVE  EdgeOK(edge)
<1>1. PICK s \in SaysOf(graph, c) :
        /\ Carries(s.update)
        /\ edge = [from |-> s.from, to |-> s.to, scid |-> s.scid,
                   fee |-> HopFee(s.update), cltv |-> s.update.cltv]
  BY DEF EdgesOf
<1>2. s \in announced
  BY DEF RInv, Says
<1>3. PICK d \in Directions :
        /\ graph[c] # None /\ graph[c][d] # None
        /\ s = [scid |-> c, from |-> From(c, d), to |-> To(c, d),
                update |-> graph[c][d]]
  BY DEF SaysOf
<1>4. s.update \in UpdateRecords
  BY <1>3, RoutesAssumption DEF RInv, ChannelInfo, Directions
<1>5. s.from \in Nodes /\ s.to \in Nodes /\ s.scid \in Channels
  BY <1>3, RoutesAssumption DEF From, To
<1>6. HopFee(s.update) \in Nat /\ s.update.cltv \in Nat
  BY <1>4, HopFeeType DEF RInv, UpdateRecords
<1>7. edge \in Edges
  BY <1>1, <1>5, <1>6 DEF Edges
<1> QED
  BY <1>1, <1>2, <1>7 DEF EdgeOK, Carries

----------------------------------------------------------------------------
(* The search.                                                              *)

(* A path that goes one edge further, to a node not expanded.               *)
LEMMA ExtendOK ==
  ASSUME RInv, NEW e \in heap, NEW edge \in adj, edge.from = e.node,
         edge.to \notin visited \cup {e.node},
         visited' = WhenExpanded(e), UNCHANGED <<call, announced>>
  PROVE  PathOK(Extend(e, edge))' /\ Extend(e, edge).cost >= e.cost
<1> DEFINE h == [node |-> edge.to, scid |-> edge.scid, fee |-> edge.fee,
                 cltv |-> edge.cltv]
           hops == Append(e.hops, h)
           p == [cost |-> e.cost + edge.fee, node |-> edge.to, hops |-> hops]
           n == Len(e.hops)
<1>1. PathOK(e) /\ EdgeOK(edge)
  BY DEF RInv
<1>2. h \in Hops /\ e.hops \in Seq(Hops) /\ e.cost \in Nat /\ edge.fee \in Nat
  BY <1>1 DEF PathOK, EdgeOK, Edges, Hops
<1>3. /\ hops \in Seq(Hops) /\ Len(hops) = n + 1 /\ n \in Nat
      /\ hops[n + 1] = h /\ \A i \in 1..n : hops[i] = e.hops[i]
  BY <1>2
<1>4. p = Extend(e, edge)
  BY DEF Extend, NewCost
<1>5. Us \in visited' /\ edge.to # Us /\ e.node \in visited'
  BY <1>1, <1>2 DEF PathOK, WhenExpanded
<1>6. ASSUME NEW i \in 1..n
      PROVE  /\ Announced(hops, i)' /\ hops[i].node # Us
             /\ hops[i].node \in visited'
             /\ hops[i].node # edge.to
             /\ \A j \in 1..n : hops[i].node = hops[j].node => i = j
  <2>1. Announced(e.hops, i) /\ e.hops[i].node # Us
    BY <1>1 DEF PathOK
  <2>2. Before(hops, i) = Before(e.hops, i)
    BY <1>3 DEF Before
  <2>3. Announced(hops, i)'
    BY <1>3, <2>1, <2>2 DEF Announced, HopFee
  <2>4. e.hops[i].node \in visited \cup {e.node}
    <3>1. CASE i < n
      BY <1>1, <3>1 DEF PathOK
    <3>2. CASE i = n
      BY <1>1, <1>3, <3>2 DEF PathOK
    <3> QED
      BY <1>3, <3>1, <3>2
  <2> QED
    BY <1>1, <1>3, <2>1, <2>3, <2>4 DEF PathOK, WhenExpanded
<1>7. Announced(hops, n + 1)'
  <2>1. Before(hops, n + 1) = e.node
    BY <1>1, <1>2, <1>3 DEF Before, PathOK
  <2>2. UNCHANGED <<call, announced>> /\ Before(hops, n + 1)' = e.node
    BY <2>1 DEF Before
  <2> QED
    BY <1>1, <1>3, <2>2 DEF Announced, EdgeOK, HopFee
<1> HIDE DEF hops, h, p
<1>8. h.node = edge.to
  BY DEF h
<1>9. ASSUME NEW i \in 1..n + 1
      PROVE  /\ Announced(hops, i)' /\ hops[i].node # Us
             /\ i < n + 1 => hops[i].node \in visited'
             /\ \A j \in 1..n + 1 : hops[i].node = hops[j].node => i = j
  <2>1. i \in 1..n \/ i = n + 1
    BY <1>3
  <2> QED
    BY <1>3, <1>5, <1>6, <1>7, <1>8, <2>1
<1>10. /\ p.cost = e.cost + edge.fee /\ p.node = edge.to /\ p.hops = hops
  BY DEF p
<1>11. hops # <<>> /\ p.node = hops[Len(hops)].node
  BY <1>3, <1>8, <1>10
<1>12. p.cost \in Nat /\ p.cost >= e.cost
  BY <1>2, <1>10
<1>13. PathOK(p)'
  BY <1>3, <1>5, <1>9, <1>10, <1>11, <1>12 DEF PathOK
<1> QED
  BY <1>4, <1>12, <1>13

LEMMA ReachInv ==
  ASSUME RInv, NEW e \in heap, Reach(e)
  PROVE  RInv'
<1> DEFINE r == Route(e)
           n == Len(found)
<1>1. PathOK(e) /\ Cheapest(e) /\ e.node = call.dest /\ call.dest # Us
  BY DEF RInv, Reach, Searching
<1>2. UNCHANGED <<pc, call, graph, adj, visited, announced>>
  BY DEF Reach
<1>3. /\ r.total_fee = e.cost /\ r.hops = e.hops /\ r \in Results
  BY <1>1 DEF Route, Results, PathOK
<1>4. found' = Append(found, r) /\ heap' = heap \ {e} /\ found \in Seq(Results)
  BY DEF Reach, RInv
<1> HIDE DEF r
<1>5. /\ found' \in Seq(Results) /\ Len(found') = n + 1 /\ n \in Nat
      /\ found'[n + 1] = r /\ \A k \in 1..n : found'[k] = found[k]
  BY <1>3, <1>4
<1>6. RouteSound(r)
  <2>1. e.hops # <<>> /\ e.hops \in Seq(Hops)
    BY <1>1 DEF PathOK
  <2>2. Len(e.hops) \in Nat /\ Len(e.hops) # 0
    BY <2>1
  <2>3. Len(e.hops) <= MaxHops
    BY <2>2, RoutesAssumption DEF Reach, TooLong
  <2> QED
    BY <1>1, <1>3, <2>1, <2>2, <2>3 DEF RouteSound, PathOK
<1>8. RoutesSound'
  <2> SUFFICES ASSUME NEW k \in 1..Len(found') PROVE RouteSound(found[k])'
    BY DEF RoutesSound
  <2>1. k \in 1..n \/ k = n + 1
    BY <1>5
  <2>2. PICK s : s = found'[k] /\ RouteSound(s)
    BY <1>5, <1>6, <2>1 DEF RInv, RoutesSound
  <2>3. RouteSound(s)'
    BY <1>2, <2>2, SoundGrows
  <2> QED
    BY <2>2, <2>3
<1>9. RoutesSorted'
  <2> SUFFICES ASSUME NEW j \in 1..n + 1, NEW k \in 1..n + 1, j < k
               PROVE  found'[j].total_fee <= found'[k].total_fee
    BY <1>5 DEF RoutesSorted
  <2>1. j \in 1..n /\ (k \in 1..n \/ k = n + 1)
    BY <1>5
  <2> QED
    BY <1>3, <1>5, <2>1 DEF RInv, RoutesSorted, InOrder
<1>10. InOrder'
  <2> SUFFICES ASSUME NEW k \in 1..n + 1, NEW p \in heap'
               PROVE  found'[k].total_fee <= p.cost
    BY <1>5 DEF InOrder
  <2>1. k \in 1..n \/ k = n + 1
    BY <1>5
  <2> QED
    BY <1>1, <1>3, <1>4, <1>5, <2>1 DEF RInv, InOrder, Cheapest
<1>11. \A edge \in adj' : EdgeOK(edge)'
  BY <1>2, EdgeGrows DEF RInv
<1>12. \A p \in heap' : PathOK(p)'
  BY <1>2, <1>4, PathGrows DEF RInv
<1> QED
  BY <1>2, <1>5, <1>8, <1>9, <1>10, <1>11, <1>12 DEF RInv

(* A step that leaves the found routes alone, and puts in the heap only     *)
(* paths that cost no less.                                                 *)
LEMMA FoundKept ==
  ASSUME RInv, UNCHANGED <<call, found>>, announced \subseteq announced',
         graph' \in [Channels -> ChannelInfo \cup {None}],
         pc' \in {"scan", "search"} => call.dest # Us,
         pc' = "scan" => /\ Says(graph') \subseteq announced'
                         /\ found' = <<>> /\ heap' = {},
         \A edge \in adj' : EdgeOK(edge)', \A p \in heap' : PathOK(p)',
         \A p \in heap' : \E e \in heap : e.cost <= p.cost
  PROVE  RInv'
<1>1. RoutesSound'
  BY SoundGrows DEF RInv, RoutesSound
<1>2. InOrder'
  <2> SUFFICES ASSUME NEW k \in 1..Len(found), NEW p \in heap'
               PROVE  found[k].total_fee <= p.cost
    BY DEF InOrder
  <2>1. PICK e \in heap : e.cost <= p.cost
    OBVIOUS
  <2>2. found[k].total_fee <= e.cost
    BY DEF RInv, InOrder
  <2>3. found[k] \in Results
    BY DEF RInv
  <2>4. found[k].total_fee \in Nat /\ e.cost \in Nat /\ p.cost \in Nat
    BY <2>3 DEF RInv, Results, PathOK
  <2> QED
    BY <2>1, <2>2, <2>4
<1>3. RoutesSorted'
  BY DEF RInv, RoutesSorted
<1> QED
  BY <1>1, <1>2, <1>3 DEF RInv

LEMMA ExpandInv ==
  ASSUME RInv, NEW e \in heap, Expand(e)
  PROVE  RInv'
<1>1. /\ UNCHANGED <<pc, call, graph, adj, found, announced>>
      /\ visited \subseteq visited'
  BY DEF Expand, WhenExpanded
<1>2. ASSUME NEW p \in heap' PROVE PathOK(p)' /\ \E o \in heap : o.cost <= p.cost
  <2>1. CASE p \in heap
    <3>1. PathOK(p)' /\ p.cost \in Nat
      BY <1>1, <2>1, PathGrows DEF RInv, PathOK
    <3> QED
      BY <2>1, <3>1
  <2>2. CASE p \notin heap
    <3>1. /\ visited' = WhenExpanded(e)
          /\ \E edge \in EdgesFrom(e.node) :
               edge.to \notin visited \cup {e.node} /\ p = Extend(e, edge)
      BY <1>2, <2>2 DEF Expand
    <3>2. PICK edge \in adj :
            /\ edge.from = e.node /\ edge.to \notin visited \cup {e.node}
            /\ p = Extend(e, edge)
      BY <3>1 DEF EdgesFrom
    <3>3. PathOK(Extend(e, edge))' /\ Extend(e, edge).cost >= e.cost
      BY <1>1, <3>1, <3>2, ExtendOK
    <3>4. PathOK(p)' /\ p.cost >= e.cost /\ p.cost \in Nat /\ e.cost \in Nat
      BY <3>2, <3>3 DEF RInv, PathOK
    <3> QED
      BY <3>4
  <2> QED
    BY <2>1, <2>2
<1>3. \A edge \in adj' : EdgeOK(edge)'
  BY <1>1, EdgeGrows DEF RInv
<1> QED
  BY <1>1, <1>2, <1>3, FoundKept DEF RInv

(* The other steps put nothing in the heap, and mark nothing.               *)
LEMMA HeapShrinks ==
  ASSUME RInv, announced \subseteq announced', visited \subseteq visited',
         UNCHANGED call, heap' \subseteq heap
  PROVE  \A p \in heap' : PathOK(p)' /\ \E e \in heap : e.cost <= p.cost
<1> SUFFICES ASSUME NEW p \in heap'
             PROVE  PathOK(p)' /\ \E e \in heap : e.cost <= p.cost
  OBVIOUS
<1>1. p \in heap /\ PathOK(p)
  BY DEF RInv
<1>2. p.cost \in Nat
  BY <1>1 DEF PathOK
<1>3. p.cost <= p.cost
  BY <1>2
<1>4. PathOK(p)'
  BY <1>1, PathGrows
<1> QED
  BY <1>1, <1>3, <1>4

LEMMA RStep == RInv /\ [RoutesNext]_vars => RInv'
<1> SUFFICES ASSUME RInv, [RoutesNext]_vars PROVE RInv'
  OBVIOUS
<1>1. ASSUME NEW q \in Calls, Query(q) PROVE RInv'
  <2>1. /\ call' = q /\ adj' = {} /\ heap' = {} /\ found' = <<>>
        /\ announced' = Says(graph) /\ UNCHANGED graph
        /\ pc' \in {"scan", "search"} => q.dest # Us
    BY <1>1 DEF Query
  <2> QED
    BY <2>1 DEF RInv, RoutesSound, RoutesSorted, InOrder
<1>2. ASSUME NEW c \in Channels, ReadChannel(c) PROVE RInv'
  <2>1. /\ UNCHANGED <<pc, call, graph, heap, visited, found, announced>>
        /\ adj' = adj \cup EdgesOf(c) /\ pc = "scan"
    BY <1>2 DEF ReadChannel
  <2>2. ASSUME NEW edge \in adj' PROVE EdgeOK(edge)'
    BY <2>1, EdgesOfOK, EdgeGrows DEF RInv
  <2> QED
    BY <2>1, <2>2, HeapShrinks, FoundKept DEF RInv
<1>3. CASE StartSearch
  <2>1. /\ UNCHANGED <<call, graph, adj, visited, found, announced>>
        /\ heap' = {[cost |-> 0, node |-> Us, hops |-> <<>>]}
        /\ pc = "scan" /\ pc' = "search" /\ found = <<>>
    BY <1>3 DEF StartSearch, RInv
  <2>2. ASSUME NEW p \in heap' PROVE PathOK(p)'
    <3>1. p.cost = 0 /\ p.node = Us /\ p.hops = <<>>
      BY <2>1
    <3>2. p.hops \in Seq(Hops) /\ Len(p.hops) = 0 /\ p.cost \in Nat
      BY <3>1
    <3>3. 1..Len(p.hops) = {}
      BY <3>2
    <3> QED
      BY <3>1, <3>2, <3>3 DEF PathOK
  <2>3. \A edge \in adj' : EdgeOK(edge)'
    BY <2>1, EdgeGrows DEF RInv
  <2> QED
    BY <2>1, <2>2, <2>3 DEF RInv, RoutesSound, RoutesSorted, InOrder
<1>4. ASSUME NEW e \in heap, Drop(e) PROVE RInv'
  <2>1. /\ UNCHANGED <<pc, call, graph, adj, visited, found, announced>>
        /\ heap' \subseteq heap
    BY <1>4 DEF Drop
  <2> QED
    BY <2>1, HeapShrinks, EdgeGrows, FoundKept DEF RInv
<1>5. CASE Finish
  <2>1. /\ UNCHANGED <<call, graph, adj, heap, visited, found, announced>>
        /\ pc' = "idle"
    BY <1>5 DEF Finish
  <2> QED
    BY <2>1, HeapShrinks, EdgeGrows, FoundKept DEF RInv
<1>6. ASSUME NEW c \in Channels, NEW info \in ChannelInfo \cup {None},
             Gossip(c, info)
      PROVE  RInv'
  <2>1. /\ UNCHANGED <<pc, call, adj, heap, visited, found>>
        /\ announced \subseteq announced' /\ Says(graph') \subseteq announced'
        /\ graph' = [graph EXCEPT ![c] = info]
    BY <1>6 DEF Gossip, searchVars
  <2>2. graph' \in [Channels -> ChannelInfo \cup {None}]
    BY <2>1 DEF RInv
  <2> QED
    BY <2>1, <2>2, HeapShrinks, EdgeGrows, FoundKept DEF RInv
<1>7. CASE UNCHANGED vars
  <2>1. UNCHANGED <<pc, call, graph, adj, heap, visited, found, announced>>
    BY <1>7 DEF vars, searchVars
  <2> QED
    BY <2>1, HeapShrinks, EdgeGrows, FoundKept DEF RInv
<1> QED
  BY <1>1, <1>2, <1>3, <1>4, <1>5, <1>6, <1>7, ReachInv, ExpandInv
  DEF RoutesNext

LEMMA RInitInv == RoutesInit => RInv
<1> SUFFICES ASSUME RoutesInit PROVE RInv
  OBVIOUS
<1>1. graph \in [Channels -> ChannelInfo \cup {None}]
  BY RoutesAssumption DEF RoutesInit
<1>2. /\ pc = "idle" /\ call = NoCall /\ found = <<>> /\ adj = {}
      /\ heap = {}
  BY DEF RoutesInit
<1> QED
  BY <1>1, <1>2 DEF RInv, RoutesSound, RoutesSorted, InOrder

(* Whatever gossip does meanwhile, and for any limit on the length, a route *)
(* that is offered is an unbroken simple path of updates that the graph     *)
(* held, each of which carries the amount (ldk_service.rs:969-1047).        *)
THEOREM RoutesAreSound == RoutesSpec => []RoutesSound
<1>1. RInv => RoutesSound
  BY DEF RInv
<1> QED
  BY <1>1, RInitInv, RStep, PTL DEF RoutesSpec

(* The search meets routes in the order of their fees, so the first is the  *)
(* cheapest of those it finds (lib.rs:2336-2345).                           *)
THEOREM RoutesAreSorted == RoutesSpec => []RoutesSorted
<1>1. RInv => RoutesSorted
  BY DEF RInv
<1> QED
  BY <1>1, RInitInv, RStep, PTL DEF RoutesSpec

----------------------------------------------------------------------------
(* Types.                                                                   *)

LEMMA SumOfFieldType ==
  ASSUME NEW n \in Nat, NEW f, \A i \in 1..n : f[i] \in Nat
  PROVE  SumFunctionOnSet(f, 1..n) \in Nat
<1>1. IsFiniteSet(1..n)
  BY FS_Interval
<1> QED BY <1>1, SumType

LEMMA TimeLockType ==
  ASSUME NEW hops \in Seq(Hops)
  PROVE  TimeLock(hops) \in Nat
<1> DEFINE n == Len(hops)
           f == [i \in DOMAIN hops |-> hops[i].cltv]
<1>1. n \in Nat /\ DOMAIN hops = 1..n /\ \A i \in 1..n : hops[i] \in Hops
  OBVIOUS
<1>2. DOMAIN f = 1..n /\ \A i \in 1..n : f[i] \in Nat
  BY <1>1 DEF Hops
<1> HIDE DEF f, n
<1>3. SumFunctionOnSet(f, 1..n) \in Nat
  BY <1>1, <1>2, SumOfFieldType
<1> QED BY <1>2, <1>3 DEF TimeLock, SumFunction, f

LEMMA ExtendType ==
  ASSUME NEW e \in Paths, NEW edge \in Edges
  PROVE  Extend(e, edge) \in Paths
<1> DEFINE h == [node |-> edge.to, scid |-> edge.scid, fee |-> edge.fee,
                 cltv |-> edge.cltv]
<1>1. h \in Hops /\ e.hops \in Seq(Hops) /\ e.cost + edge.fee \in Nat
      /\ edge.to \in Nodes
  BY DEF Edges, Hops, Paths
<1>2. Append(e.hops, h) \in Seq(Hops)
  BY <1>1
<1> QED BY <1>1, <1>2 DEF Extend, NewCost, Paths

LEMMA RoutesTypeStep ==
  RInv /\ RoutesTypeOK /\ [RoutesNext]_vars => RoutesTypeOK'
<1> SUFFICES ASSUME RInv, RoutesTypeOK, [RoutesNext]_vars PROVE RoutesTypeOK'
  OBVIOUS
<1> USE DEF RoutesTypeOK
<1>c. call.max_routes \in Nat
  BY RoutesAssumption DEF NoCall
<1>1. ASSUME NEW q \in Calls, Query(q) PROVE RoutesTypeOK'
  <2>1. q.max_routes \in Nat
    BY RoutesAssumption
  <2>2. /\ call' = q /\ adj' = {} /\ heap' = {} /\ visited' = {} /\ found' = <<>>
        /\ pc' \in {"idle", "scan"} /\ code' \in {"NONE", "OTHER", "NOT_FOUND"}
        /\ todo' \in SUBSET Channels /\ UNCHANGED <<graph, gossip>>
    BY <1>1 DEF Query, NoRoute, Listed
  <2>3. found' \in Seq(FoundRoutes) /\ Len(found') = 0
    BY <2>2
  <2> QED BY <2>1, <2>2, <2>3
<1>2. ASSUME NEW c \in Channels, ReadChannel(c) PROVE RoutesTypeOK'
  <2>1. EdgesOf(c) \subseteq Edges
    BY <1>2, EdgesOfOK DEF ReadChannel, EdgeOK
  <2> QED BY <1>2, <2>1 DEF ReadChannel
<1>3. CASE StartSearch
  <2>1. [cost |-> 0, node |-> Us, hops |-> <<>>] \in Paths
    BY RoutesAssumption DEF Paths
  <2> QED BY <1>3, <2>1 DEF StartSearch
<1>4. ASSUME NEW e \in heap, Drop(e) PROVE RoutesTypeOK'
  BY <1>4 DEF Drop
<1>5. ASSUME NEW e \in heap, Reach(e) PROVE RoutesTypeOK'
  <2> DEFINE r == Route(e)
  <2>1. r \in FoundRoutes
    BY TimeLockType DEF Route, FoundRoutes, Paths
  <2>2. found' = Append(found, r) /\ Len(found) < call.max_routes
    BY <1>5, <1>c DEF Reach, Searching, FoundEnough
  <2> HIDE DEF r
  <2>3. found' \in Seq(FoundRoutes) /\ Len(found') <= call.max_routes
    BY <1>c, <2>1, <2>2
  <2> QED BY <1>5, <2>3 DEF Reach
<1>6. ASSUME NEW e \in heap, Expand(e) PROVE RoutesTypeOK'
  <2>1. \A edge \in EdgesFrom(e.node) : Extend(e, edge) \in Paths
    BY ExtendType DEF EdgesFrom
  <2>2. heap' \in SUBSET Paths /\ visited' \in SUBSET Nodes
    BY <1>6, <2>1 DEF Expand, WhenExpanded, Paths
  <2> QED BY <1>6, <2>2 DEF Expand
<1>7. CASE Finish
  BY <1>7 DEF Finish, NoRoute
<1>8. ASSUME NEW c \in Channels, NEW info \in ChannelInfo \cup {None},
             Gossip(c, info)
      PROVE  RoutesTypeOK'
  BY <1>8, RoutesAssumption DEF Gossip, searchVars
<1>9. CASE UNCHANGED vars
  BY <1>9 DEF vars, searchVars
<1> QED BY <1>1, <1>2, <1>3, <1>4, <1>5, <1>6, <1>7, <1>8, <1>9 DEF RoutesNext

LEMMA RoutesTypeStart == RoutesInit => RoutesTypeOK
<1> SUFFICES ASSUME RoutesInit PROVE RoutesTypeOK
  OBVIOUS
<1>1. found \in Seq(FoundRoutes) /\ Len(found) <= call.max_routes
  BY DEF RoutesInit, NoCall
<1> QED BY <1>1, RoutesAssumption DEF RoutesInit, RoutesTypeOK

(* For any network and queries, the search keeps its state well typed: the  *)
(* costs are sums of fees, and no more routes are found than were asked for *)
(* (ldk_service.rs:1004-1047).                                              *)
THEOREM RoutesTypeCorrect == RoutesSpec => []RoutesTypeOK
BY RInitInv, RStep, RoutesTypeStart, RoutesTypeStep, PTL DEF RoutesSpec

----------------------------------------------------------------------------
(* What a path costs.                                                       *)

Fee(hops) == [i \in DOMAIN hops |-> hops[i].fee]

(* The fees up to an index, and up to the next.                             *)
LEMMA FeesSoFar ==
  ASSUME NEW n \in Nat, NEW f, \A i \in 1..n : f[i] \in Nat
  PROVE  /\ SumFunctionOnSet(f, 1..0) = 0
         /\ \A k \in 0..n : SumFunctionOnSet(f, 1..k) \in Nat
         /\ \A k \in 0..n : SumFunctionOnSet(f, 1..k) <= SumFunctionOnSet(f, 1..n)
         /\ \A k \in 1..n : SumFunctionOnSet(f, 1..k)
                              = SumFunctionOnSet(f, 1..k - 1) + f[k]
<1>1. SumFunctionOnSet(f, 1..0) = 0
  <2>1. 1..0 = {}
    OBVIOUS
  <2>2. SumFunctionOnSet(f, {}) = 0
    BY FS_EmptySet, SumStep
  <2> QED BY <2>1, <2>2
<1>2. \A k \in 0..n : SumFunctionOnSet(f, 1..k) \in Nat
  BY SumOfFieldType
<1>3. ASSUME NEW k \in 0..n
      PROVE  SumFunctionOnSet(f, 1..k) <= SumFunctionOnSet(f, 1..n)
  <2>1. IsFiniteSet(1..n) /\ 1..k \in SUBSET (1..n)
    BY FS_Interval
  <2> QED BY <2>1, SumOfMore
<1>4. ASSUME NEW k \in 1..n
      PROVE  SumFunctionOnSet(f, 1..k) = SumFunctionOnSet(f, 1..k - 1) + f[k]
  <2>1. /\ 1..k = (1..k - 1) \cup {k} /\ k \notin 1..k - 1
        /\ \A i \in (1..k - 1) \cup {k} : f[i] \in Nat
    OBVIOUS
  <2>2. IsFiniteSet(1..k - 1)
    BY FS_Interval
  <2>3. SumFunctionOnSet(f, (1..k - 1) \cup {k})
          = SumFunctionOnSet(f, 1..k - 1) + f[k]
    BY <2>1, <2>2, SumPutIn
  <2> QED BY <2>1, <2>3
<1> QED BY <1>1, <1>2, <1>3, <1>4

LEMMA FeesOfNone == Fees(<<>>) = 0
<1> DEFINE f == [i \in DOMAIN <<>> |-> <<>>[i].fee]
<1>1. DOMAIN f = {}
  OBVIOUS
<1>2. SumFunctionOnSet(f, {}) = 0
  BY FS_EmptySet, SumStep
<1> QED BY <1>1, <1>2 DEF Fees, SumFunction

LEMMA FeesOfAppend ==
  ASSUME NEW s \in Seq(Hops), NEW h \in Hops
  PROVE  Fees(Append(s, h)) = Fees(s) + h.fee
<1> DEFINE t == Append(s, h)
           n == Len(s)
           f == [i \in DOMAIN s |-> s[i].fee]
           g == [i \in DOMAIN t |-> t[i].fee]
<1>1. /\ n \in Nat /\ DOMAIN s = 1..n /\ DOMAIN t = 1..n + 1
      /\ \A i \in 1..n : t[i] = s[i] /\ s[i] \in Hops
      /\ t[n + 1] = h
  OBVIOUS
<1> HIDE DEF t
<1>2. /\ DOMAIN f = 1..n /\ DOMAIN g = 1..n + 1
      /\ \A i \in 1..n : f[i] = g[i] /\ g[i] \in Nat
      /\ g[n + 1] = h.fee /\ h.fee \in Nat
  BY <1>1 DEF Hops
<1> HIDE DEF f, g, n
<1>3. SumFunctionOnSet(f, 1..n) = SumFunctionOnSet(g, 1..n)
  <2>1. IsFiniteSet(1..n)
    BY <1>1, FS_Interval
  <2>2. \A i \in 1..n : f[i] = g[i]
    BY <1>2
  <2> QED BY <2>1, <2>2, SumOfSame
<1>4. SumFunctionOnSet(g, 1..n + 1) = SumFunctionOnSet(g, 1..n) + g[n + 1]
  <2>1. n + 1 \in Nat /\ n + 1 \in 1..n + 1 /\ (n + 1) - 1 = n
        /\ \A i \in 1..n + 1 : g[i] \in Nat
    BY <1>1, <1>2
  <2>2. \A k \in 1..n + 1 :
          SumFunctionOnSet(g, 1..k) = SumFunctionOnSet(g, 1..k - 1) + g[k]
    BY <2>1, FeesSoFar
  <2> QED BY <2>1, <2>2
<1>5. Fees(t) = SumFunctionOnSet(g, 1..n + 1) /\ Fees(s) = SumFunctionOnSet(f, 1..n)
  BY <1>2 DEF Fees, SumFunction, f, g
<1> QED BY <1>2, <1>3, <1>4, <1>5 DEF t

(* Costs are fees, in the heap and of the routes.                           *)
CostInv == /\ \A p \in heap : p.cost = Fees(p.hops)
           /\ RouteTotals

LEMMA CostStep == RInv /\ RoutesTypeOK /\ CostInv /\ [RoutesNext]_vars => CostInv'
<1> SUFFICES ASSUME RInv, RoutesTypeOK, CostInv, [RoutesNext]_vars PROVE CostInv'
  OBVIOUS
<1>1. ASSUME NEW e \in heap, Reach(e) PROVE CostInv'
  <2> DEFINE r == Route(e)
             n == Len(found)
  <2>1. /\ found \in Seq(FoundRoutes) /\ r.total_fee = Fees(r.hops)
        /\ r \in FoundRoutes
    BY TimeLockType DEF RoutesTypeOK, Route, CostInv, Paths, FoundRoutes
  <2>2. found' = Append(found, r) /\ heap' = heap \ {e}
    BY <1>1 DEF Reach
  <2> HIDE DEF r
  <2>3. /\ n \in Nat /\ Len(found') = n + 1 /\ found'[n + 1] = r
        /\ \A k \in 1..n : found'[k] = found[k]
    BY <2>1, <2>2
  <2>4. \A k \in 1..n + 1 : k \in 1..n \/ k = n + 1
    BY <2>3
  <2>5. RouteTotals'
    BY <2>1, <2>3, <2>4 DEF CostInv, RouteTotals
  <2> QED BY <2>2, <2>5 DEF CostInv
<1>2. ASSUME NEW e \in heap, Expand(e) PROVE CostInv'
  <2>1. ASSUME NEW edge \in EdgesFrom(e.node)
        PROVE  Extend(e, edge).cost = Fees(Extend(e, edge).hops)
    <3> DEFINE h == [node |-> edge.to, scid |-> edge.scid, fee |-> edge.fee,
                     cltv |-> edge.cltv]
    <3>1. h \in Hops /\ e.hops \in Seq(Hops) /\ e.cost = Fees(e.hops)
      BY DEF EdgesFrom, RoutesTypeOK, Edges, Hops, Paths, CostInv
    <3>2. Fees(Append(e.hops, h)) = Fees(e.hops) + h.fee
      BY <3>1, FeesOfAppend
    <3> QED BY <3>1, <3>2 DEF Extend, NewCost
  <2>2. \A p \in heap' : p.cost = Fees(p.hops)
    BY <1>2, <2>1 DEF Expand, CostInv
  <2> QED BY <1>2, <2>2 DEF Expand, CostInv, RouteTotals
<1>3. CASE StartSearch
  BY <1>3, FeesOfNone DEF StartSearch, CostInv, RouteTotals
<1>4. ASSUME NEW q \in Calls, Query(q) PROVE CostInv'
  BY <1>4 DEF Query, CostInv, RouteTotals
<1>5. ASSUME \/ \E c \in Channels : ReadChannel(c)
             \/ \E e \in heap : Drop(e)
             \/ Finish
             \/ \E c \in Channels, info \in ChannelInfo \cup {None} : Gossip(c, info)
             \/ UNCHANGED vars
      PROVE  CostInv'
  <2>1. heap' \subseteq heap /\ found' = found
    BY <1>5 DEF ReadChannel, Drop, Finish, Gossip, vars, searchVars
  <2> QED BY <2>1 DEF CostInv, RouteTotals
<1> QED BY <1>1, <1>2, <1>3, <1>4, <1>5 DEF RoutesNext

(* For any network and queries, the fee reported for a route is the sum of  *)
(* the fees of its hops (ldk_service.rs:1011-1043).                         *)
THEOREM RouteTotalsAdd == RoutesSpec => []RouteTotals
<1>1. RoutesInit => CostInv
  BY DEF RoutesInit, CostInv, RouteTotals
<1>2. CostInv => RouteTotals
  BY DEF CostInv
<1> QED BY <1>1, <1>2, CostStep, RInitInv, RStep, RoutesTypeStart,
           RoutesTypeStep, PTL DEF RoutesSpec

----------------------------------------------------------------------------
(* The cheapest route.  While no route is found, every node that was        *)
(* expanded has a distance, which no edge between such nodes could shorten; *)
(* and behind every edge that leaves them waits a path in the heap.         *)

Settled(d) ==
  /\ IF Us \in visited THEN d[Us] = 0
     ELSE \E e \in heap : e.node = Us /\ e.cost = 0
  /\ \A v \in visited, x \in adj : x.from = v =>
       IF x.to \in visited THEN d[x.to] <= d[v] + x.fee
       ELSE \E e \in heap : e.node = x.to /\ e.cost <= d[v] + x.fee
  /\ \A v \in visited, e \in heap : d[v] <= e.cost
  /\ call.dest \notin visited

NoneCheaper == \A w \in Ways : found[1].total_fee <= Fees(w)

BestSoFar == IF found = <<>> THEN \E d \in [visited -> Nat] : Settled(d)
             ELSE NoneCheaper

(* The hops of a path go by edges of the query.                             *)
ByEdges(hops) ==
  \A i \in 1..Len(hops) :
    \E x \in adj : x.from = Before(hops, i) /\ x.to = hops[i].node

SearchInv ==
  /\ pc = "scan" => visited = {}
  /\ pc = "search" /\ ~cut => BestSoFar
  /\ \A p \in heap : ByEdges(p.hops)
  /\ \A k \in 1..Len(found) : ByEdges(found[k].hops)

LEMMA LeastNumber ==
  ASSUME NEW B \in SUBSET Nat, B # {}
  PROVE  \E m \in B : \A k \in B : m <= k
<1>1. PICK m \in B : \A k \in B : <<k, m>> \notin OpToRel(<, Nat)
  BY NatLessThanWellFounded, WFMin
<1>2. \A k \in B : ~(k < m)
  BY <1>1 DEF OpToRel
<1> QED BY <1>2

(* A way is a sequence of edges.                                            *)
LEMMA WayFields ==
  ASSUME RoutesTypeOK, NEW w \in Ways
  PROVE  /\ w \in Seq(adj) /\ Len(w) \in Nat /\ Len(w) >= 1
         /\ DOMAIN w = 1..Len(w)
         /\ \A i \in 1..Len(w) : w[i] \in adj /\ w[i].fee \in Nat
         /\ w[1].from = Us /\ w[Len(w)].to = call.dest
         /\ \A i \in 1..Len(w) - 1 : w[i].to = w[i + 1].from
<1>1. PICK n \in 1..Cardinality(Nodes) - 1 : w \in [1..n -> adj] /\ Way(w)
  BY DEF Ways
<1>2. n \in Nat /\ n >= 1
  BY <1>1
<1>3. w \in Seq(adj) /\ Len(w) = n
  BY <1>1, <1>2
<1>4. \A i \in 1..n : w[i] \in adj /\ w[i].fee \in Nat
  BY <1>1 DEF RoutesTypeOK, Edges
<1> QED BY <1>1, <1>2, <1>3, <1>4 DEF Way

(* Some path in the heap is the beginning of a way, or cheaper than that.   *)
LEMMA Frontier ==
  ASSUME RoutesTypeOK, NEW d \in [visited -> Nat], Settled(d), NEW w \in Ways
  PROVE  \E e \in heap : e.cost <= Fees(w)
<1> DEFINE n == Len(w)
           f == [i \in DOMAIN w |-> w[i].fee]
           C(k) == SumFunctionOnSet(f, 1..k)
           N(k) == IF k = 0 THEN Us ELSE w[k].to
           B == {k \in 0..n : ~(N(k) \in visited /\ d[N(k)] <= C(k))}
<1>1. /\ n \in Nat /\ n >= 1 /\ DOMAIN w = 1..n
      /\ \A i \in 1..n : w[i] \in adj /\ w[i].fee \in Nat
      /\ w[1].from = Us /\ w[n].to = call.dest
      /\ \A i \in 1..n - 1 : w[i].to = w[i + 1].from
  BY WayFields
<1>2. DOMAIN f = 1..n /\ \A i \in 1..n : f[i] = w[i].fee /\ f[i] \in Nat
  BY <1>1
<1>3. Fees(w) = C(n)
  BY <1>2 DEF Fees, SumFunction
<1> HIDE DEF f, n
<1>4. /\ C(0) = 0
      /\ \A k \in 0..n : C(k) \in Nat /\ C(k) <= C(n)
      /\ \A k \in 1..n : C(k) = C(k - 1) + f[k]
  BY <1>1, <1>2, FeesSoFar
<1> HIDE DEF C
<1>5. N(n) \notin visited
  BY <1>1 DEF Settled
<1>6. PICK m \in B : \A k \in B : m <= k
  <2>1. n \in B /\ B \in SUBSET Nat
    BY <1>1, <1>5
  <2> HIDE DEF B
  <2> QED BY <2>1, LeastNumber
<1>7. m \in 0..n /\ ~(N(m) \in visited /\ d[N(m)] <= C(m))
  OBVIOUS
<1>8. CASE m = 0
  <2>1. Us \notin visited
    BY <1>4, <1>7, <1>8 DEF Settled
  <2>2. PICK e \in heap : e.node = Us /\ e.cost = 0
    BY <2>1 DEF Settled
  <2>3. e.cost <= C(n)
    BY <1>1, <1>4, <2>2
  <2> QED BY <1>3, <2>3
<1>9. CASE m # 0
  <2>1. m \in 1..n /\ m - 1 \in 0..n /\ m - 1 \notin B
    BY <1>1, <1>6, <1>7, <1>9
  <2>2. N(m - 1) \in visited /\ d[N(m - 1)] <= C(m - 1)
    BY <2>1
  <2>3. w[m] \in adj /\ w[m].from = N(m - 1) /\ w[m].to = N(m)
        /\ w[m].fee = f[m] /\ f[m] \in Nat
    BY <1>1, <1>2, <2>1
  <2>4. C(m) = C(m - 1) + f[m] /\ C(m) <= C(n) /\ C(m - 1) \in Nat /\ C(n) \in Nat
    BY <1>1, <1>4, <2>1
  <2> HIDE DEF N
  <2>5. d[N(m - 1)] \in Nat
    BY <2>2
  <2>6. CASE N(m) \in visited
    <3>1. d[N(m)] <= d[N(m - 1)] + f[m] /\ d[N(m)] \in Nat
      BY <2>2, <2>3, <2>6 DEF Settled
    <3> QED BY <1>7, <2>2, <2>3, <2>4, <2>5, <2>6, <3>1
  <2>7. CASE N(m) \notin visited
    <3>1. PICK e \in heap : e.node = N(m) /\ e.cost <= d[N(m - 1)] + f[m]
      BY <2>2, <2>3, <2>7 DEF Settled
    <3>2. e.cost \in Nat
      BY DEF RoutesTypeOK, Paths
    <3>3. e.cost <= C(n)
      BY <2>2, <2>3, <2>4, <2>5, <3>1, <3>2
    <3> QED BY <1>3, <3>3
  <2> QED BY <2>6, <2>7
<1> QED BY <1>8, <1>9

(* A node is expanded at its distance.                                      *)
LEMMA ExpandSettles ==
  ASSUME RoutesTypeOK, NEW d \in [visited -> Nat], Settled(d),
         NEW e \in heap, Expand(e)
  PROVE  \E g \in [visited' -> Nat] : Settled(g)'
<1> DEFINE n == e.node
<1>1. /\ UNCHANGED <<adj, call>> /\ n # call.dest
      /\ \A o \in heap : e.cost <= o.cost
  BY DEF Expand, Searching, Cheapest
<1>2. /\ \A o \in heap : o.cost \in Nat
      /\ \A x \in adj : x.fee \in Nat
  BY DEF RoutesTypeOK, Paths, Edges
<1>3. CASE n \in visited
  <2>1. heap' = heap \ {e} /\ visited' = visited
    BY <1>3 DEF Expand
  <2>2. \A o \in heap : o.node \notin visited => o \in heap'
    BY <1>3, <2>1
  <2>3. Settled(d)'
    BY <1>1, <2>1, <2>2 DEF Settled
  <2> QED BY <2>1, <2>3
<1>4. CASE n \notin visited
  <2>g. PICK g : g = [v \in visited \cup {n} |-> IF v = n THEN e.cost ELSE d[v]]
    OBVIOUS
  <2>1. /\ visited' = visited \cup {n}
        /\ heap' = (heap \ {e}) \cup
             {Extend(e, edge) : edge \in {x \in EdgesFrom(n) : x.to \notin visited'}}
    BY <1>4 DEF Expand, WhenExpanded
  <2>2. /\ g \in [visited' -> Nat] /\ g[n] = e.cost
        /\ \A v \in visited : g[v] = d[v] /\ d[v] \in Nat
    BY <1>2, <1>4, <2>1, <2>g
  <2>3. \A o \in heap : o.node \notin visited' => o \in heap'
    BY <2>1
  <2>4. \A v \in visited, o \in heap : d[v] <= o.cost
    BY DEF Settled
  <2>5. IF Us \in visited' THEN g[Us] = 0
        ELSE \E o \in heap' : o.node = Us /\ o.cost = 0
    <3>1. CASE Us \in visited
      BY <2>1, <2>2, <3>1 DEF Settled
    <3>2. CASE Us \notin visited
      <4>1. PICK o \in heap : o.node = Us /\ o.cost = 0
        BY <3>2 DEF Settled
      <4>2. CASE Us = n
        BY <1>1, <1>2, <2>1, <2>2, <4>1, <4>2
      <4>3. CASE Us # n
        BY <2>1, <2>3, <3>2, <4>1, <4>3
      <4> QED BY <4>2, <4>3
    <3> QED BY <3>1, <3>2
  <2>6. ASSUME NEW x \in adj, x.from \in visited'
        PROVE  IF x.to \in visited' THEN g[x.to] <= g[x.from] + x.fee
               ELSE \E o \in heap' : o.node = x.to /\ o.cost <= g[x.from] + x.fee
    <3>1. CASE x.from = n
      <4>1. CASE x.to \in visited
        <5>1. d[x.to] <= e.cost /\ d[x.to] \in Nat
          BY <2>2, <2>4, <4>1
        <5> QED BY <1>2, <2>1, <2>2, <3>1, <4>1, <5>1
      <4>2. CASE x.to = n
        BY <1>2, <2>1, <2>2, <3>1, <4>2
      <4>3. CASE x.to \notin visited'
        <5>1. Extend(e, x) \in heap'
          BY <2>1, <3>1, <4>3 DEF EdgesFrom
        <5>2. Extend(e, x).node = x.to /\ Extend(e, x).cost = e.cost + x.fee
          BY DEF Extend, NewCost
        <5>3. e.cost + x.fee <= e.cost + x.fee
          BY <1>2
        <5> QED BY <2>2, <3>1, <4>3, <5>1, <5>2, <5>3
      <4> QED BY <2>1, <4>1, <4>2, <4>3
    <3>2. CASE x.from \in visited
      <4>1. g[x.from] = d[x.from]
        BY <2>2, <3>2
      <4>2. CASE x.to \in visited
        BY <2>1, <2>2, <3>2, <4>1, <4>2 DEF Settled
      <4>3. CASE x.to \notin visited
        <5>1. PICK o \in heap : o.node = x.to /\ o.cost <= d[x.from] + x.fee
          BY <3>2, <4>3 DEF Settled
        <5>2. CASE x.to = n
          <6>1. e.cost <= o.cost
            BY <1>1
          <6>2. d[x.from] \in Nat
            BY <3>2
          <6>3. e.cost <= d[x.from] + x.fee
            BY <1>2, <5>1, <6>1, <6>2
          <6> QED BY <2>1, <2>2, <4>1, <5>2, <6>3
        <5>3. CASE x.to # n
          BY <2>1, <2>3, <4>1, <4>3, <5>1, <5>3
        <5> QED BY <5>2, <5>3
      <4> QED BY <4>2, <4>3
    <3> QED BY <2>1, <2>6, <3>1, <3>2
  <2>7. ASSUME NEW v \in visited', NEW o \in heap' PROVE g[v] <= o.cost
    <3>1. e.cost <= o.cost /\ o.cost \in Nat
      <4>1. CASE o \in heap
        BY <1>1, <1>2, <4>1
      <4>2. CASE o \notin heap
        <5>1. PICK x \in adj : o = Extend(e, x)
          BY <2>1, <4>2 DEF EdgesFrom
        <5>2. o.cost = e.cost + x.fee
          BY <5>1 DEF Extend, NewCost
        <5> QED BY <1>2, <5>2
      <4> QED BY <4>1, <4>2
    <3>2. g[v] <= e.cost /\ g[v] \in Nat
      <4>1. CASE v \in visited
        BY <2>2, <2>4, <4>1
      <4>2. CASE v = n
        BY <1>2, <2>2, <4>2
      <4> QED BY <2>1, <4>1, <4>2
    <3> QED BY <1>2, <3>1, <3>2
  <2>8. call.dest \notin visited'
    BY <1>1, <2>1 DEF Settled
  <2>9. Settled(g)'
    BY <1>1, <2>5, <2>6, <2>7, <2>8 DEF Settled
  <2> QED BY <2>2, <2>9
<1> QED BY <1>3, <1>4

(* The path that reaches the destination first is as cheap as any.          *)
LEMMA FirstIsCheapest ==
  ASSUME RInv, RoutesTypeOK, SearchInv, NEW e \in heap, Reach(e), ~cut
  PROVE  BestSoFar'
<1>1. /\ pc = "search" /\ UNCHANGED <<adj, call>>
      /\ found' = Append(found, Route(e))
      /\ \A o \in heap : e.cost <= o.cost
  BY DEF Reach, Searching, Cheapest
<1>2. Ways' = Ways
  BY <1>1 DEF Ways, Way
<1>3. found \in Seq(FoundRoutes) /\ Route(e) \in FoundRoutes
      /\ Route(e).total_fee = e.cost
  BY TimeLockType DEF RoutesTypeOK, Route, FoundRoutes, Paths
<1>4. CASE found = <<>>
  <2>1. PICK d \in [visited -> Nat] : Settled(d)
    BY <1>1, <1>4 DEF SearchInv, BestSoFar
  <2>2. found' # <<>> /\ found'[1] = Route(e)
    BY <1>1, <1>3, <1>4
  <2>3. ASSUME NEW w \in Ways PROVE e.cost <= Fees(w)
    <3>1. PICK o \in heap : o.cost <= Fees(w)
      BY <2>1, Frontier
    <3>2. Fees(w) \in Nat
      <4> DEFINE n == Len(w)
                 f == [i \in DOMAIN w |-> w[i].fee]
      <4>1. DOMAIN f = 1..n /\ n \in Nat /\ \A i \in 1..n : f[i] \in Nat
        BY WayFields
      <4> HIDE DEF f, n
      <4>2. SumFunctionOnSet(f, 1..n) \in Nat
        BY <4>1, SumOfFieldType
      <4> QED BY <4>1, <4>2 DEF Fees, SumFunction, f
    <3>3. e.cost \in Nat /\ o.cost \in Nat /\ e.cost <= o.cost
      BY <1>1 DEF RoutesTypeOK, Paths
    <3> QED BY <3>1, <3>2, <3>3
  <2> QED BY <1>2, <1>3, <2>2, <2>3 DEF BestSoFar, NoneCheaper
<1>5. CASE found # <<>>
  <2>1. found' # <<>> /\ found'[1] = found[1]
    BY <1>1, <1>3, <1>5
  <2> QED BY <1>1, <1>2, <1>5, <2>1 DEF SearchInv, BestSoFar, NoneCheaper
<1> QED BY <1>4, <1>5

LEMMA MoreEdges ==
  ASSUME adj \subseteq adj', NEW hops, ByEdges(hops)
  PROVE  ByEdges(hops)'
BY DEF ByEdges, Before

LEMMA ExtendByEdges ==
  ASSUME RInv, RoutesTypeOK, SearchInv, NEW e \in heap,
         NEW edge \in EdgesFrom(e.node)
  PROVE  ByEdges(Extend(e, edge).hops)
<1> DEFINE h == [node |-> edge.to, scid |-> edge.scid, fee |-> edge.fee,
                 cltv |-> edge.cltv]
           hops == Append(e.hops, h)
           n == Len(e.hops)
<1>1. /\ e.hops \in Seq(Hops) /\ h \in Hops /\ edge \in adj /\ edge.from = e.node
      /\ ByEdges(e.hops)
  BY DEF EdgesFrom, RoutesTypeOK, Edges, Hops, Paths, SearchInv
<1>2. /\ n \in Nat /\ Len(hops) = n + 1 /\ hops[n + 1] = h
      /\ \A i \in 1..n : hops[i] = e.hops[i]
  BY <1>1
<1>3. h.node = edge.to
  OBVIOUS
<1> HIDE DEF h, hops
<1>4. ASSUME NEW i \in 1..n
      PROVE  \E x \in adj : x.from = Before(hops, i) /\ x.to = hops[i].node
  <2>1. Before(hops, i) = Before(e.hops, i)
    BY <1>2 DEF Before
  <2> QED BY <1>1, <1>2, <2>1 DEF ByEdges
<1>5. Before(hops, n + 1) = e.node
  BY <1>1, <1>2 DEF Before, RInv, PathOK
<1>6. \A i \in 1..n + 1 : i \in 1..n \/ i = n + 1
  BY <1>2
<1>7. ByEdges(hops)
  BY <1>1, <1>2, <1>3, <1>4, <1>5, <1>6 DEF ByEdges
<1> QED BY <1>7 DEF Extend, hops, h

LEMMA SearchStep ==
  RInv /\ RoutesTypeOK /\ SearchInv /\ [RoutesNext]_vars => SearchInv'
<1> SUFFICES ASSUME RInv, RoutesTypeOK, SearchInv, [RoutesNext]_vars
             PROVE  SearchInv'
  OBVIOUS
<1>1. ASSUME NEW q \in Calls, Query(q) PROVE SearchInv'
  <2>1. heap' = {} /\ found' = <<>> /\ visited' = {} /\ pc' # "search"
    BY <1>1 DEF Query
  <2> QED BY <2>1 DEF SearchInv
<1>2. ASSUME NEW c \in Channels, ReadChannel(c) PROVE SearchInv'
  <2>1. UNCHANGED <<heap, found, visited, pc>> /\ pc = "scan" /\ adj \subseteq adj'
    BY <1>2 DEF ReadChannel
  <2> QED BY <2>1, MoreEdges DEF SearchInv
<1>3. CASE StartSearch
  <2>1. /\ UNCHANGED <<adj, call, found, visited>> /\ visited = {} /\ found = <<>>
        /\ heap' = {[cost |-> 0, node |-> Us, hops |-> <<>>]} /\ pc' = "search"
    BY <1>3 DEF StartSearch, SearchInv, RInv
  <2>2. \A p \in heap' : ByEdges(p.hops)'
    BY <2>1 DEF ByEdges
  <2>3. PICK d : d \in [{} -> Nat]
    <3>1. [v \in {} |-> 0] \in [{} -> Nat]
      OBVIOUS
    <3> QED BY <3>1
  <2>4. \E e \in heap' : e.node = Us /\ e.cost = 0
    BY <2>1
  <2>5. Settled(d)'
    BY <2>1, <2>4 DEF Settled
  <2>6. BestSoFar'
    BY <2>1, <2>3, <2>5 DEF BestSoFar
  <2> QED BY <2>1, <2>2, <2>6 DEF SearchInv
<1>4. ASSUME NEW e \in heap, Drop(e) PROVE SearchInv'
  <2>1. /\ UNCHANGED <<adj, found, visited, pc>> /\ heap' \subseteq heap
        /\ pc = "search" /\ cut'
    BY <1>4 DEF Drop, Searching
  <2> QED BY <2>1, MoreEdges DEF SearchInv
<1>5. ASSUME NEW e \in heap, Reach(e) PROVE SearchInv'
  <2> DEFINE r == Route(e)
             n == Len(found)
  <2>1. /\ UNCHANGED <<adj, visited, pc, cut>> /\ heap' \subseteq heap
        /\ pc = "search" /\ found' = Append(found, r)
    BY <1>5 DEF Reach, Searching
  <2>2. found \in Seq(FoundRoutes) /\ r \in FoundRoutes /\ r.hops = e.hops
    BY TimeLockType DEF RoutesTypeOK, Route, FoundRoutes, Paths
  <2>3. ByEdges(r.hops)
    BY <2>2 DEF SearchInv
  <2> HIDE DEF r
  <2>4. /\ n \in Nat /\ Len(found') = n + 1 /\ found'[n + 1] = r
        /\ \A k \in 1..n : found'[k] = found[k]
    BY <2>1, <2>2
  <2>5. ASSUME NEW k \in 1..n + 1 PROVE ByEdges(found[k].hops)'
    <3>1. PICK s : s = found'[k] /\ ByEdges(s.hops)
      <4>1. CASE k \in 1..n
        BY <2>4, <4>1 DEF SearchInv
      <4>2. CASE k = n + 1
        BY <2>3, <2>4, <4>2
      <4> QED BY <2>4, <4>1, <4>2
    <3>2. ByEdges(s.hops)'
      BY <2>1, <3>1, MoreEdges
    <3> QED BY <3>1, <3>2
  <2>6. \A p \in heap' : ByEdges(p.hops)'
    BY <2>1, MoreEdges DEF SearchInv
  <2>7. ~cut => BestSoFar'
    BY <1>5, FirstIsCheapest
  <2> QED BY <2>1, <2>4, <2>5, <2>6, <2>7 DEF SearchInv
<1>6. ASSUME NEW e \in heap, Expand(e) PROVE SearchInv'
  <2>1. UNCHANGED <<adj, call, found, pc, cut>> /\ pc = "search"
    BY <1>6 DEF Expand, Searching
  <2>2. ASSUME NEW p \in heap' PROVE ByEdges(p.hops)'
    <3>1. \/ p \in heap
          \/ \E edge \in EdgesFrom(e.node) : p = Extend(e, edge)
      BY <1>6 DEF Expand
    <3>2. ByEdges(p.hops)
      BY <3>1, ExtendByEdges DEF SearchInv
    <3> QED BY <2>1, <3>2, MoreEdges
  <2>3. \A k \in 1..Len(found) : ByEdges(found[k].hops)'
    BY <2>1, MoreEdges DEF SearchInv
  <2>4. ASSUME ~cut, found = <<>> PROVE BestSoFar'
    <3>1. PICK d \in [visited -> Nat] : Settled(d)
      BY <2>1, <2>4 DEF SearchInv, BestSoFar
    <3>2. \E g \in [visited' -> Nat] : Settled(g)'
      BY <1>6, <3>1, ExpandSettles
    <3> QED BY <2>1, <2>4, <3>2 DEF BestSoFar
  <2>5. ASSUME ~cut, found # <<>> PROVE BestSoFar'
    BY <2>1, <2>5 DEF SearchInv, BestSoFar, NoneCheaper, Ways, Way
  <2> QED BY <2>1, <2>2, <2>3, <2>4, <2>5 DEF SearchInv
<1>7. CASE Finish
  <2>1. UNCHANGED <<adj, heap, found, visited>> /\ pc' = "idle"
    BY <1>7 DEF Finish
  <2> QED BY <2>1, MoreEdges DEF SearchInv
<1>8. ASSUME \/ \E c \in Channels, info \in ChannelInfo \cup {None} : Gossip(c, info)
             \/ UNCHANGED vars
      PROVE  SearchInv'
  <2>1. UNCHANGED searchVars
    BY <1>8 DEF Gossip, vars
  <2> QED BY <2>1 DEF searchVars, SearchInv, ByEdges, Before, BestSoFar,
                      Settled, NoneCheaper, Ways, Way
<1> QED BY <1>1, <1>2, <1>3, <1>4, <1>5, <1>6, <1>7, <1>8 DEF RoutesNext

(* A route that is found is a way: it visits no node twice, so it is no     *)
(* longer than there are nodes.                                             *)
LEMMA FoundIsWay ==
  ASSUME RInv, RoutesTypeOK, SearchInv, found # <<>>
  PROVE  Ways # {}
<1> DEFINE hops == found[1].hops
           n == Len(hops)
           w == [i \in 1..n |-> CHOOSE x \in adj : x.from = Before(hops, i)
                                                   /\ x.to = hops[i].node]
<1>1. found \in Seq(FoundRoutes) /\ Len(found) \in Nat /\ 1 \in 1..Len(found)
  BY DEF RoutesTypeOK
<1>2. hops \in Seq(Hops) /\ n \in Nat /\ \A i \in 1..n : hops[i].node \in Nodes
  <2>1. found[1] \in FoundRoutes
    BY <1>1
  <2>2. hops \in Seq(Hops)
    BY <2>1 DEF FoundRoutes
  <2> HIDE DEF hops
  <2>3. n \in Nat /\ \A i \in 1..n : hops[i] \in Hops
    BY <2>2
  <2> QED BY <2>2, <2>3 DEF Hops
<1>3. RouteSound(found[1]) /\ ByEdges(hops)
  BY <1>1 DEF RInv, RoutesSound, SearchInv
<1>4. /\ 0 < n /\ hops[n].node = call.dest
      /\ \A i \in 1..n : hops[i].node # Us
      /\ \A i, j \in 1..n : hops[i].node = hops[j].node => i = j
  BY <1>3 DEF RouteSound
<1> HIDE DEF hops
<1>5. ASSUME NEW i \in 1..n
      PROVE  w[i] \in adj /\ w[i].from = Before(hops, i) /\ w[i].to = hops[i].node
  BY <1>3 DEF ByEdges
<1>6. n <= Cardinality(Nodes) - 1
  <2> DEFINE T == Nodes \ {Us}
             f == [i \in 1..n |-> hops[i].node]
  <2>1. IsFiniteSet(T) /\ Cardinality(T) = Cardinality(Nodes) - 1
    BY RoutesAssumption, FS_RemoveElement
  <2>2. \A i \in 1..n : hops[i].node \in T
    BY <1>2, <1>4
  <2> HIDE DEF n, T
  <2>3. f \in [1..n -> T] /\ \A i, j \in 1..n : f[i] = f[j] => i = j
    BY <1>4, <2>2
  <2> HIDE DEF f
  <2>4. IsFiniteSet(1..n) /\ Cardinality(1..n) = n
    BY <1>2, <1>4, FS_Interval
  <2>5. ~(Cardinality(T) < Cardinality(1..n))
    <3> SUFFICES ASSUME Cardinality(T) < Cardinality(1..n) PROVE FALSE
      OBVIOUS
    <3> DEFINE S == 1..n
    <3>1. IsFiniteSet(S) /\ f \in [S -> T] /\ Cardinality(T) < Cardinality(S)
      BY <2>3, <2>4
    <3>2. \A i, j \in S : f[i] = f[j] => i = j
      BY <2>3
    <3> HIDE DEF S
    <3>3. \E i, j \in S : i # j /\ f[i] = f[j]
      BY <2>1, <3>1, FS_PigeonHole
    <3> QED BY <3>2, <3>3
  <2>6. Cardinality(T) \in Nat
    BY <2>1, FS_CardinalityType
  <2> QED BY <1>2, <2>1, <2>4, <2>5, <2>6
<1>7. w \in [1..n -> adj]
  BY <1>5
<1> HIDE DEF w
<1>8. w \in Seq(adj) /\ Len(w) = n
  BY <1>2, <1>7
<1>9. Way(w)
  <2>1. w[1].from = Us /\ w[n].to = call.dest
    BY <1>2, <1>4, <1>5 DEF Before
  <2>2. \A i \in 1..n - 1 : w[i].to = w[i + 1].from
    BY <1>2, <1>5 DEF Before
  <2>3. \A i, j \in 1..n : w[i].to = w[j].to => i = j
    BY <1>4, <1>5
  <2> QED BY <1>8, <2>1, <2>2, <2>3 DEF Way
<1>10. n \in 1..Cardinality(Nodes) - 1
  <2>1. Cardinality(Nodes) \in Nat
    BY RoutesAssumption, FS_CardinalityType
  <2> QED BY <1>2, <1>4, <1>6, <2>1
<1> QED BY <1>7, <1>9, <1>10 DEF Ways

(* For any network, gossip, amount and number of routes, a search that      *)
(* dropped no path for its length finds a route exactly if there is one,    *)
(* and no way to the destination is cheaper than the first route: nodes     *)
(* are expanded at their distance from us, and what leaves them waits in    *)
(* the heap (ldk_service.rs:1004-1047).                                     *)
THEOREM CheapestFound == RoutesSpec => []CheapestUnlessCut
<1>1. RInv /\ RoutesTypeOK /\ SearchInv => CheapestUnlessCut
  <2> SUFFICES ASSUME RInv, RoutesTypeOK, SearchInv, pc = "search",
                      heap = {} \/ FoundEnough, ~cut, call.max_routes > 0
               PROVE  /\ found = <<>> <=> Ways = {}
                      /\ \A w \in Ways : found[1].total_fee <= Fees(w)
    BY DEF CheapestUnlessCut
  <2>1. CASE found = <<>>
    <3>1. heap = {}
      <4>1. call.max_routes \in Nat /\ Len(found) = 0
        BY <2>1, RoutesAssumption DEF RoutesTypeOK, NoCall
      <4> QED BY <4>1 DEF FoundEnough
    <3>2. PICK d \in [visited -> Nat] : Settled(d)
      BY <2>1 DEF SearchInv, BestSoFar
    <3>3. Ways = {}
      BY <3>1, <3>2, Frontier
    <3> QED BY <2>1, <3>3
  <2>2. CASE found # <<>>
    BY <2>2, FoundIsWay DEF SearchInv, BestSoFar, NoneCheaper
  <2> QED BY <2>1, <2>2
<1>2. RoutesInit => SearchInv
  BY DEF RoutesInit, SearchInv
<1> QED BY <1>1, <1>2, SearchStep, RInitInv, RStep, RoutesTypeStart,
           RoutesTypeStep, PTL DEF RoutesSpec
=============================================================================
