------------------------------- MODULE MCRoutes -------------------------------
(****************************************************************************)
(* An instance of Routes for TLC: four nodes, and a limit of two hops where *)
(* the longest way has three.                                               *)
(****************************************************************************)
EXTENDS Routes, TLC

CONSTANTS us, a, b, dest, usA, usB, aB, aDest, bDest

Update(base, prop, max) == [htlc_minimum |-> 2, htlc_maximum |-> max,
                            base |-> base, prop |-> prop, cltv |-> 1 + base]
Cheap == Update(0, 2, 9)
Dear == Update(4, 4, 9)
Small == Update(0, 0, 4)
AnyUpdate == {Cheap, Dear, Small}

EndsOf == (usA :> [one |-> us, two |-> a]) @@ (usB :> [one |-> b, two |-> us])
          @@ (aB :> [one |-> a, two |-> b])
          @@ (aDest :> [one |-> a, two |-> dest])
          @@ (bDest :> [one |-> b, two |-> dest])

(* The channels of b with us and with the destination are dear; the rest is *)
(* one or the other.                                                        *)
OneWay(u) == [one_to_two |-> u, two_to_one |-> None]
BothWays(u) == [one_to_two |-> u, two_to_one |-> u]
AnyGraph ==
  {(usA :> BothWays(u)) @@ (usB :> BothWays(Dear)) @@ (aB :> BothWays(v))
   @@ (aDest :> w) @@ (bDest :> BothWays(x)) :
     u \in {Cheap, Dear}, v \in {Cheap, Dear}, x \in {Cheap, Dear},
     w \in {OneWay(Dear), OneWay(Small), None}}

Ask(method, d, amount, max) ==
  [method |-> method, dest |-> d, amount |-> amount, max_routes |-> max]
AnyCall == {Ask("query_routes", dest, 5, 2),
            Ask("estimate_routing_fees", dest, 5, 1),
            Ask("query_routes", us, 5, 1)}
=============================================================================
