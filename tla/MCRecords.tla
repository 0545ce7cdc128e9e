------------------------------ MODULE MCRecords ------------------------------
(****************************************************************************)
(* An instance of Records for TLC.                                          *)
(****************************************************************************)
EXTENDS Records, TLC

CONSTANTS p1, p2, p3, o1, o2, a1, a2

Payment(status, direction, at) ==
  [status |-> status, direction |-> direction, kind |-> "Bolt11",
   updated |-> at]

Symmetric == Permutations({o1, o2}) \cup Permutations({a1, a2})

(* Two payments of different times, or of the same, and room for a third.   *)
Kept == {(p1 :> Payment("Succeeded", Inbound, t)
          @@ p2 :> Payment("Pending", Inbound, 0) @@ p3 :> None) : t \in {0, 1}}
New == {Payment("Pending", Inbound, 0), Payment("Succeeded", "Outbound", 0)}

List(list, limit) ==
  [list |-> list, from |-> None, until |-> None, limit |-> limit,
   unpaid |-> FALSE, direction |-> None, kind |-> None, state |-> None,
   active_only |-> FALSE]

(* Pages of one, and a list without a limit; filters on what changes.       *)
AnyQuery ==
  {[List("list_transactions", 1) EXCEPT !.unpaid = TRUE],
   [List("list_transactions", 1) EXCEPT !.until = 1, !.kind = "Bolt11"],
   [List("list_invoices", 1) EXCEPT !.unpaid = TRUE, !.direction = Inbound,
                                    !.kind = "Bolt11", !.state = "Failed"],
   [List("list_offers", 1) EXCEPT !.active_only = TRUE],
   List("list_addresses", 1), List("list_offers", None),
   [List("get_forwarding_history", 1) EXCEPT !.from = 1, !.until = 1]}

Make(method, amount, parts) ==
  [method |-> method, amount |-> amount, parts |-> parts]
AnyMake == {Make("make_bip321", 5, <<"bolt11", "bolt12", "onchain">>),
            Make("make_bip321", None, <<"onchain", "p2wpkh", "onchain">>),
            Make("make_offer", 5, <<"bolt12">>)}
=============================================================================
