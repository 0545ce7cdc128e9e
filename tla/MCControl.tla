------------------------------- MODULE MCControl -------------------------------
(****************************************************************************)
(* An instance of Control for TLC: the service as main.rs starts it, one    *)
(* loop and the poller, with a call and commands of one client.             *)
(****************************************************************************)
EXTENDS Control, TLC

CONSTANTS c1, pay, info, sub, peer, ch1, ch2

Grant(c, at, id, content) ==
  [target |-> c, created_at |-> at, id |-> id, content |-> content]
Ask(id, m, host, base, rate) ==
  [id |-> id, client |-> c1, form |-> "request", method |-> m, valid |-> TRUE,
   peer |-> peer, host |-> host, channel |-> ch1, force |-> FALSE,
   base |-> base, rate |-> rate]

(* The owner revokes the control of channels, and allows another call; the  *)
(* call is of a method that nobody handles.                                 *)
Revoking == {Grant(c1, 1, 1, [methods |-> (pay :> None), quota |-> None,
                              control |-> {"set_channel_fees", "ALL"}]),
             Grant(c1, 2, 2, [methods |-> (info :> None), quota |-> None,
                              control |-> None])}
OneCall == {[id |-> 1, client |-> c1, method |-> info, amount |-> 0,
             valid |-> TRUE]}

(* A command of every kind that has steps of its own, a query, and events   *)
(* that are no requests.                                                    *)
AnyCommand == {Ask(1, "set_channel_fees", FALSE, 1, None),
               Ask(2, "close_channel", FALSE, None, None),
               Ask(3, "open_channel", FALSE, None, None),
               Ask(4, "connect_peer", TRUE, None, None),
               Ask(5, "disconnect_peer", FALSE, None, None),
               Ask(6, "get_pending_htlcs", FALSE, None, None),
               Ask(7, "get_network_node", FALSE, None, None)}
             \cup {[Ask(8, "", FALSE, None, None) EXCEPT !.form = f] :
                     f \in {"unparseable", "unsupported"}}
Default == [base |-> 0, rate |-> 0]

(* A peer that is not connected, a channel with it whose rate was set, and  *)
(* a channel to be opened.                                                  *)
Channel(status, rate) == [status |-> status, peer |-> peer,
                          fees |-> [base |-> 0, rate |-> rate]]
Kept == [peers |-> [p \in {peer} |-> "stored"],
         channels |-> (ch1 :> Channel("open", 1) @@ ch2 :> Channel("none", 0))]
OldNode == {Kept}
=============================================================================
