------------------------------ MODULE MCPayments ------------------------------
(****************************************************************************)
(* Instances of Payments for TLC: one client with a quota of 3 msat.        *)
(****************************************************************************)
EXTENDS Payments, TLC

CONSTANTS c1, pay, sub

Request(id, m, amount) == [id |-> id, client |-> c1, method |-> m,
                           amount |-> amount, valid |-> TRUE]
Order3(via, given, rails, a11, a12) ==
  [via |-> via, given |-> given, rails |-> rails,
   asks |-> [x \in {"bolt11", "bolt12"} |-> IF x = "bolt11" THEN a11 ELSE a12]]

Limit(cap) == [rate_per_micro |-> 0, max_capacity |-> cap]
Grant(methods) == [target |-> c1, created_at |-> 1, id |-> 1,
  content |-> [methods |-> methods, quota |-> Limit(3), control |-> None]]

(* Any method, on the quota; and payments with a rate of their own, of      *)
(* which the quota covers one.                                              *)
QuotaOnly == {Grant(None)}
RateAndQuota == {Grant(pay :> Limit(2))}

(* A URI with an offer and an address, a payment on chain; an invoice and   *)
(* an offer that carry the amount themselves.  Every payment is of 2 msat.  *)
Uri == (Request(2, pay, 2) :>
          Order3("pay_bip321", 1, {"bolt12", "onchain"}, None, 2))
OnChain == (Request(3, pay, 2) :> Order3("pay_onchain", 1, {"onchain"}, None, None))
Unstated == (Request(4, pay, 0) :> Order3("pay_invoice", None, {"bolt11"}, 2, None))

TwoMetered == Uri @@ OnChain
TwoMeteredRequests == DOMAIN TwoMetered
TwoUnstated == Unstated @@
  (Request(5, pay, 0) :> Order3("pay_offer", None, {"bolt12"}, None, 2))
TwoUnstatedRequests == DOMAIN TwoUnstated
=============================================================================
