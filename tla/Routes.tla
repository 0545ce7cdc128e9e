-------------------------------- MODULE Routes --------------------------------
(****************************************************************************)
(* Route queries: find_routes (ldk_service.rs:947-1055), for the control    *)
(* method query_routes and the wallet method estimate_routing_fees.  A      *)
(* search reads the network graph channel by channel, while gossip changes  *)
(* it, into a table of edges that can carry the amount; then it expands     *)
(* nodes in the order of their cost (Dijkstra), and drops the paths that    *)
(* are longer than a limit.                                                 *)
(****************************************************************************)
EXTENDS Naturals, SequencesExt

CONSTANTS
  Nodes,      \* nodes of the network
  Us,         \* this node
  Channels,   \* short channel ids
  Ends,       \* per channel, its node_one and node_two
  Updates,    \* channel updates that gossip may bring
  OldGraphs,  \* what the node knows of the network at first
  Calls,      \* the queries that clients make
  None,       \* Option::None
  MaxHops,    \* the limit on the length of a path (6)
  Million,    \* parts of proportional_millionths (1_000_000)
  MaxU64,     \* u64::MAX
  MaxGossip   \* bound: changes of the graph in a behaviour

(* The update of one direction of a channel, and the two of a channel.      *)
UpdateRecords == [htlc_minimum: Nat, htlc_maximum: Nat, base: Nat, prop: Nat,
                  cltv: Nat]
ChannelInfo == [one_to_two: Updates \cup {None},
                two_to_one: Updates \cup {None}]
Directions == {"one_to_two", "two_to_one"}

(* A query: `dest` is None for a string that is no public key.              *)
ASSUME RoutesAssumption ==
  /\ IsFiniteSet(Nodes)
  /\ Us \in Nodes /\ None \notin Nodes /\ None \notin Updates
  /\ Ends \in [Channels -> [one: Nodes, two: Nodes]]
  /\ Updates \subseteq UpdateRecords
  /\ OldGraphs \subseteq [Channels -> ChannelInfo \cup {None}]
  /\ None \notin ChannelInfo
  /\ Calls \subseteq [method: {"query_routes", "estimate_routing_fees"},
                      dest: Nodes \cup {None}, amount: Nat, max_routes: Nat]
  /\ \A q \in Calls : q.method = "estimate_routing_fees" => q.max_routes = 1
  /\ MaxHops \in Nat /\ Million \in Nat \ {0} /\ MaxU64 \in Nat
  /\ MaxGossip \in Nat

VARIABLES
  pc,         \* where the search is
  call,       \* the query it answers
  graph,      \* the network graph, of LDK
  todo,       \* channels listed and not read yet
  adj,        \* edges by their first node
  heap,       \* paths to expand, with their costs
  visited,    \* nodes that were expanded
  found,      \* routes to the destination
  code,       \* of the last answer
  announced,  \* for the properties: what the graph held since the query
  cut,        \* for the properties: whether a path was dropped for its length
  gossip      \* changes of the graph so far
searchVars == <<pc, call, todo, adj, heap, visited, found, code, cut>>
vars == <<searchVars, graph, announced, gossip>>

Edges == [from: Nodes, to: Nodes, scid: Channels, fee: Nat, cltv: Nat]
Hops == [node: Nodes, scid: Channels, fee: Nat, cltv: Nat]
Paths == [cost: Nat, node: Nodes, hops: Seq(Hops)]
FoundRoutes == [total_fee: Nat, total_time_lock: Nat, hops: Seq(Hops)]

NoCall == [method |-> "query_routes", dest |-> None, amount |-> 0,
           max_routes |-> 0]

(* No more routes than asked for.                                           *)
RoutesTypeOK ==
  /\ pc \in {"idle", "scan", "search"}
  /\ call \in Calls \cup {NoCall}
  /\ graph \in [Channels -> ChannelInfo \cup {None}]
  /\ todo \in SUBSET Channels
  /\ adj \in SUBSET Edges
  /\ heap \in SUBSET Paths
  /\ visited \in SUBSET Nodes
  /\ found \in Seq(FoundRoutes) /\ Len(found) <= call.max_routes
  /\ code \in {"NONE", "OTHER", "NOT_FOUND", "OK"}
  /\ gossip \in 0..MaxGossip

(* What a graph says: who may forward to whom, by what channel and update.  *)
From(c, d) == IF d = "one_to_two" THEN Ends[c].one ELSE Ends[c].two
To(c, d) == IF d = "one_to_two" THEN Ends[c].two ELSE Ends[c].one
SaysOf(g, c) == IF g[c] = None THEN {}
  ELSE {[scid |-> c, from |-> From(c, d), to |-> To(c, d), update |-> g[c][d]] :
          d \in {x \in Directions : g[c][x] # None}}
Says(g) == UNION {SaysOf(g, c) : c \in Channels}

RoutesInit ==
  /\ pc = "idle" /\ call = NoCall /\ code = "NONE"
  /\ graph \in OldGraphs
  /\ todo = {} /\ adj = {} /\ heap = {} /\ visited = {} /\ found = <<>>
  /\ announced = {} /\ cut = FALSE /\ gossip = 0

----------------------------------------------------------------------------
(* The query: without destination or amount it is refused, and to a string  *)
(* that is no key, or to ourselves, there is nothing to find.               *)
Listed == {c \in Channels : graph[c] # None}
NoRoute(q) == IF q.method = "query_routes" THEN "NOT_FOUND" ELSE "OTHER"

Query(q) ==
  /\ pc = "idle"
  /\ call' = q
  /\ adj' = {} /\ heap' = {} /\ visited' = {} /\ found' = <<>>
  /\ cut' = FALSE /\ announced' = Says(graph)
  /\ IF q.amount = 0
     THEN pc' = "idle" /\ code' = "OTHER" /\ todo' = {}
     ELSE IF q.dest \in {None, Us}
     THEN pc' = "idle" /\ code' = NoRoute(q) /\ todo' = {}
     ELSE pc' = "scan" /\ code' = "NONE" /\ todo' = Listed
  /\ UNCHANGED <<graph, gossip>>

(* graph.channel(scid), and the edges of a channel that can carry the       *)
(* amount; whether an update disables its direction is not looked at.  The  *)
(* product is one of u64.                                                   *)
HopFee(u) == u.base + ((call.amount * u.prop) % (MaxU64 + 1)) \div Million
AnyAmount(u) == TRUE                       \* mutant: no htlc limits
Carries(u) == u.htlc_minimum <= call.amount /\ call.amount <= u.htlc_maximum
EdgesOf(c) ==
  {[from |-> s.from, to |-> s.to, scid |-> s.scid, fee |-> HopFee(s.update),
    cltv |-> s.update.cltv] : s \in {x \in SaysOf(graph, c) : Carries(x.update)}}

ReadChannel(c) ==
  /\ pc = "scan" /\ c \in todo
  /\ todo' = todo \ {c}
  /\ adj' = adj \cup EdgesOf(c)
  /\ UNCHANGED <<pc, call, graph, heap, visited, found, code, announced, cut,
                 gossip>>

StartSearch ==
  /\ pc = "scan" /\ todo = {}
  /\ pc' = "search"
  /\ heap' = {[cost |-> 0, node |-> Us, hops |-> <<>>]}
  /\ UNCHANGED <<call, graph, todo, adj, visited, found, code, announced, cut,
                 gossip>>

----------------------------------------------------------------------------
(* The search: the heap gives a path of the least cost.                     *)

AnyOf(e) == e \in heap                     \* mutant: in no order
Cheapest(e) == e \in heap /\ \A o \in heap : e.cost <= o.cost

FoundTooMany == Len(found) > call.max_routes            \* mutant: one too many
FoundEnough == Len(found) >= call.max_routes
LongerByOne(e) == Len(e.hops) > MaxHops + 1             \* mutant: off by one
TooLong(e) == Len(e.hops) > MaxHops

Searching(e) == pc = "search" /\ Cheapest(e) /\ ~FoundEnough

Drop(e) ==
  /\ Searching(e) /\ TooLong(e)
  /\ heap' = heap \ {e} /\ cut' = TRUE
  /\ UNCHANGED <<pc, call, graph, todo, adj, visited, found, code, announced,
                 gossip>>

TimeLock(hops) == SumFunction([i \in DOMAIN hops |-> hops[i].cltv])
Route(e) == [total_fee |-> e.cost, total_time_lock |-> TimeLock(e.hops),
             hops |-> e.hops]

Reach(e) ==
  /\ Searching(e) /\ ~TooLong(e) /\ e.node = call.dest
  /\ heap' = heap \ {e}
  /\ found' = Append(found, Route(e))
  /\ UNCHANGED <<pc, call, graph, todo, adj, visited, code, announced, cut,
                 gossip>>

(* Push what the node's edges reach; a node is expanded once.               *)
OnlyLastHop(e, edge) == edge.fee           \* mutant: the fee of the hop alone
NewCost(e, edge) == e.cost + edge.fee
Extend(e, edge) ==
  [cost |-> NewCost(e, edge), node |-> edge.to,
   hops |-> Append(e.hops, [node |-> edge.to, scid |-> edge.scid,
                            fee |-> edge.fee, cltv |-> edge.cltv])]
EdgesFrom(n) == {edge \in adj : edge.from = n}
WhenPushed(e) ==                           \* mutant: marks what it pushes
  visited \cup {e.node} \cup {edge.to : edge \in EdgesFrom(e.node)}
WhenExpanded(e) == visited \cup {e.node}

Expand(e) ==
  /\ Searching(e) /\ ~TooLong(e) /\ e.node # call.dest
  /\ IF e.node \in visited
     THEN heap' = heap \ {e} /\ UNCHANGED visited
     ELSE /\ visited' = WhenExpanded(e)
          /\ heap' = (heap \ {e}) \cup
               {Extend(e, edge) :
                  edge \in {x \in EdgesFrom(e.node) :
                              x.to \notin visited \cup {e.node}}}
  /\ UNCHANGED <<pc, call, graph, todo, adj, found, code, announced, cut,
                 gossip>>

(* The answer: the routes, or that there are none.                          *)
Finish ==
  /\ pc = "search" /\ (heap = {} \/ FoundEnough)
  /\ pc' = "idle"
  /\ code' = IF found = <<>> THEN NoRoute(call) ELSE "OK"
  /\ UNCHANGED <<call, graph, todo, adj, heap, visited, found, announced, cut,
                 gossip>>

(* Gossip adds, updates or removes a channel.  After the channels are read  *)
(* it makes no difference to the query.                                     *)
Gossip(c, info) ==
  /\ pc # "search" /\ gossip < MaxGossip
  /\ gossip' = gossip + 1
  /\ graph' = [graph EXCEPT ![c] = info]
  /\ announced' = announced \cup Says(graph')
  /\ UNCHANGED searchVars

RoutesNext ==
  \/ \E q \in Calls : Query(q)
  \/ \E c \in Channels : ReadChannel(c)
  \/ StartSearch
  \/ \E e \in heap : Drop(e) \/ Reach(e) \/ Expand(e)
  \/ Finish
  \/ \E c \in Channels, info \in ChannelInfo \cup {None} : Gossip(c, info)

RoutesSpec == RoutesInit /\ [][RoutesNext]_vars

----------------------------------------------------------------------------
(* Properties.                                                              *)

Before(hops, i) == IF i = 1 THEN Us ELSE hops[i - 1].node

(* A hop goes by an update that the graph held at some time since the       *)
(* query, that carries the amount, at that update's price.                  *)
Announced(hops, i) ==
  \E s \in announced :
    /\ s.from = Before(hops, i) /\ s.to = hops[i].node
    /\ s.scid = hops[i].scid
    /\ s.update.htlc_minimum <= call.amount
    /\ call.amount <= s.update.htlc_maximum
    /\ hops[i].fee = HopFee(s.update) /\ hops[i].cltv = s.update.cltv

(* Every route found, whatever gossip did while the channels were read, is  *)
(* an unbroken path from us to the destination, of at most the allowed      *)
(* length, that visits no node twice (ldk_service.rs:969-1047).             *)
RouteSound(r) ==
  /\ 0 < Len(r.hops) /\ Len(r.hops) <= MaxHops
  /\ r.hops[Len(r.hops)].node = call.dest
  /\ \A i \in 1..Len(r.hops) :
       /\ Announced(r.hops, i)
       /\ r.hops[i].node # Us
       /\ \A j \in 1..Len(r.hops) : r.hops[i].node = r.hops[j].node => i = j
RoutesSound == \A k \in 1..Len(found) : RouteSound(found[k])

(* Routes come in the order of their fees, so that the first is the one     *)
(* estimate_routing_fees may report (lib.rs:2336).                          *)
RoutesSorted ==
  \A j, k \in 1..Len(found) : j < k => found[j].total_fee <= found[k].total_fee

(* The fee reported for a route is that of its hops.                        *)
Fees(hops) == SumFunction([i \in DOMAIN hops |-> hops[i].fee])
RouteTotals ==
  \A k \in 1..Len(found) : found[k].total_fee = Fees(found[k].hops)

(* All the ways to the destination over the edges of the query, of any      *)
(* length, as sequences of edges that visit no node twice.                  *)
Way(w) == /\ w[1].from = Us /\ w[Len(w)].to = call.dest
          /\ \A i \in 1..Len(w) - 1 : w[i].to = w[i + 1].from
          /\ \A i, j \in 1..Len(w) : w[i].to = w[j].to => i = j
Ways == {w \in UNION {[1..n -> adj] : n \in 1..Cardinality(Nodes) - 1} : Way(w)}

(* Unless a path was dropped for its length, a search finds a route exactly *)
(* if there is one, and none is cheaper than the first ("find lowest-fee    *)
(* paths", ldk_service.rs:1004).                                            *)
CheapestUnlessCut ==
  pc = "search" /\ (heap = {} \/ FoundEnough) /\ ~cut /\ call.max_routes > 0 =>
    /\ found = <<>> <=> Ways = {}
    /\ \A w \in Ways : found[1].total_fee <= Fees(w)
=============================================================================
