------------------------------- MODULE MCGrants -------------------------------
(****************************************************************************)
(* An instance of Grants for TLC: one client, two grants of one second.     *)
(****************************************************************************)
EXTENDS Grants, TLC

CONSTANTS c1, pay, info

Two == [rate_per_micro |-> 0, max_capacity |-> 2]
One == [rate_per_micro |-> 0, max_capacity |-> 1]

(* A quota and two rated methods; then one rated method only.               *)
Wide == [methods |-> (pay :> Two @@ info :> One), quota |-> Two,
         control |-> None]
Narrow == [methods |-> (pay :> One @@ ALL :> None), quota |-> None,
           control |-> None]

Grant(c, at, id, content) ==
  [target |-> c, created_at |-> at, id |-> id, content |-> content]

TwoGrants == {Grant(c1, 1, 2, Wide), Grant(c1, 1, 3, Narrow)}
=============================================================================
