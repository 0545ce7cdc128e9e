---------------------------- MODULE MCNotifications ----------------------------
(****************************************************************************)
(* Instances of Notifications for TLC.                                      *)
(****************************************************************************)
EXTENDS Notifications

CONSTANTS c1, c2, o1

Event(id, type, offer, amount) ==
  [id |-> id, type |-> type, offer |-> offer, amount |-> amount]
Ask(id, c, by, types) == [id |-> id, client |-> c, by |-> by, types |-> types]

(* A payment of the offer, a channel that opens, and a payment that is      *)
(* forwarded.                                                               *)
Paid == Event(1, "payment_received", o1, 2)
Opened == Event(2, "channel_opened", None, 0)
Forwarded == Event(3, "forwarded", None, 0)
ThreeEvents == {Paid, Opened, Forwarded}
NoEvents == {}

(* Two clients subscribe to payments; one of them then to node events, and  *)
(* the other one to a type that does not exist.                             *)
Asked == {Ask(1, c1, "nwc", {"payment_received"}),
          Ask(2, c1, "nnc", {"channel_opened"}),
          Ask(3, c2, "nwc", {"payment_received"}),
          Ask(4, c2, "nnc", {"channel_opened", "unknown"})}
BothChannels == {Ask(1, c1, "nwc", {"payment_received"}),
                 Ask(2, c1, "nnc", {"channel_opened"})}
=============================================================================
