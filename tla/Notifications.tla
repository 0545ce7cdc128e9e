----------------------------- MODULE Notifications -----------------------------
(****************************************************************************)
(* Node events and who is told of them: the LDK event loop (lib.rs:845-860, *)
(* 3409-3520), the publication of notifications (3663-3702), the one store  *)
(* of subscriptions that wallet and control requests share                  *)
(* (subscription_store.rs, lib.rs:3192-3236, 3300-3342), the counts of      *)
(* payments per offer (offer_store.rs) and the forwarding history           *)
(* (forwarding_store.rs).  The node keeps its event queue on disk; all the  *)
(* rest is in memory only.                                                  *)
(****************************************************************************)
EXTENDS Integers, Sequences, FiniteSets, Functions

CONSTANTS
  Clients,      \* user pubkeys
  Offers,       \* BOLT-12 offers the node can make
  NodeEvents,   \* the events that ever happen
  Asks,         \* the subscription requests clients ever send
  Loops,        \* notification loops, which handle requests
  None,
  MaxRestarts   \* bound: process restarts in a behaviour

NwcTypes == {"payment_received", "payment_sent", "hold_invoice_accepted"}
NncTypes == {"channel_opened", "channel_closed"}
Known == [nwc |-> NwcTypes, nnc |-> NncTypes]

(* An event: a notification type, or "forwarded", or "other"; for a payment *)
(* that was received for an offer, the offer.                               *)
ASSUME EventsAssumption ==
  \A e \in NodeEvents :
    /\ e \in [id: Nat, type: NwcTypes \cup NncTypes \cup {"forwarded", "other"},
              offer: Offers \cup {None}, amount: Nat]
    /\ e.offer # None => e.type = "payment_received"
    /\ \A f \in NodeEvents : e.id = f.id => e = f

(* A request: the channel it comes by (wallet or control), and its types.   *)
ASSUME AsksAssumption ==
  /\ \A a \in Asks : a \in [id: Nat, client: Clients, by: {"nwc", "nnc"},
                            types: SUBSET (NwcTypes \cup NncTypes \cup {"unknown"})]
  /\ None \notin Offers \cup NodeEvents \cup Asks
  /\ MaxRestarts \in Nat

VARIABLES
  queue, disk,     \* the node's event queue, and what it has persisted of it
  arrived,         \* the events that have happened
  notifier,        \* the event loop: its step, event and remaining subscribers
  told,            \* for the properties: per event and client, the copies
                   \* this process has sent
  subscriptions,   \* SUBSCRIPTIONS: per client, notification types
  asked,           \* for the properties: the last accepted types, per channel
  asking,          \* per loop, the request that has been authorized
  awaited,         \* subscription requests the relay has not delivered yet
  made,            \* the offers the node has made, which it honours for good
  offers,          \* OFFER_STORE: per offer, its record
  forwards,        \* FORWARDING_HISTORY
  restarts
nodeVars == <<queue, disk, arrived>>
eventVars == <<notifier, told, forwards>>
askVars == <<subscriptions, asked, asking, awaited>>
vars == <<nodeVars, eventVars, askVars, made, offers, restarts>>

Waiting == [pc |-> "wait", event |-> None, left |-> {}, half |-> {}]
NoSubscription == [c \in Clients |-> {}]
NothingAsked == [c \in Clients |-> [nwc |-> {}, nnc |-> {}]]
NothingTold == [e \in NodeEvents |-> [c \in Clients |-> <<>>]]

TypeOK ==
  /\ queue \in Seq(NodeEvents) /\ disk \in Seq(NodeEvents)
  /\ arrived \in SUBSET NodeEvents
  /\ notifier \in [pc: {"wait", "publish", "record", "mark"},
                   event: NodeEvents \cup {None},
                   left: SUBSET Clients, half: SUBSET Clients]
  /\ notifier.half \subseteq notifier.left
  /\ told \in [NodeEvents -> [Clients -> Seq({"nip04", "nip44"})]]
  /\ subscriptions \in [Clients -> SUBSET (NwcTypes \cup NncTypes)]
  /\ asking \in [Loops -> Asks \cup {None}] /\ awaited \in SUBSET Asks
  /\ offers \in [Offers -> {None} \cup
                           [active: BOOLEAN, num: Nat, total: Nat]]
  /\ forwards \in Seq(NodeEvents) /\ made \in SUBSET Offers

NoOffers == [o \in Offers |-> None]

Init ==
  /\ queue = <<>> /\ disk = <<>> /\ arrived = {}
  /\ notifier = Waiting /\ told = NothingTold /\ forwards = <<>>
  /\ subscriptions = NoSubscription /\ asked = NothingAsked
  /\ asking = [l \in Loops |-> None] /\ awaited = Asks
  /\ made = {} /\ offers = NoOffers
  /\ restarts = 0

----------------------------------------------------------------------------
(* The node: it appends events and removes the first one when it is marked. *)

(* An offer can be paid once it is made, disabled or not.                   *)
Happen(e) ==
  /\ e \notin arrived /\ (e.offer # None => e.offer \in made)
  /\ arrived' = arrived \cup {e}
  /\ queue' = Append(queue, e)
  /\ disk' = queue'
  /\ UNCHANGED <<eventVars, askVars, made, offers, restarts>>

----------------------------------------------------------------------------
(* handle_ldk_event, in the task of the event loop.                         *)

Subscribers(type) == {c \in Clients : type \in subscriptions[c]}

(* next_event_async shows the first event without removing it.              *)
TakeNotification ==
  /\ notifier.pc = "wait" /\ queue # <<>>
  /\ Head(queue).type \in NwcTypes \cup NncTypes
  /\ notifier' = [pc |-> "publish", event |-> Head(queue),
                  left |-> Subscribers(Head(queue).type), half |-> {}]
  /\ UNCHANGED <<told, forwards, nodeVars, askVars, made,
                 offers, restarts>>

RecordForward(e) == Append(forwards, e)

(* PaymentForwarded is recorded, and nobody is told; the rest is ignored.   *)
TakeOther ==
  /\ notifier.pc = "wait" /\ queue # <<>>
  /\ Head(queue).type \in {"forwarded", "other"}
  /\ notifier' = [Waiting EXCEPT !.pc = "mark", !.event = Head(queue)]
  /\ forwards' = IF Head(queue).type = "other" THEN forwards
                 ELSE RecordForward(Head(queue))
  /\ UNCHANGED <<told, nodeVars, askVars, made, offers,
                 restarts>>

(* send_event_builder: publish_nwc_notification sends two copies to a       *)
(* client before it turns to the next, publish_nnc_notification one.        *)
NextCopy(c) ==
  IF notifier.event.type \in NwcTypes /\ c \notin notifier.half
  THEN "nip04" ELSE "nip44"
Turn(c) == c \in notifier.left /\ (notifier.half # {} => c \in notifier.half)

SendCopyKeepsHalf(c) ==                  \* mutant: the turn outlives the client
  /\ notifier.pc = "publish" /\ Turn(c)
  /\ told' = [told EXCEPT ![notifier.event][c] = Append(@, NextCopy(c))]
  /\ notifier' = IF NextCopy(c) = "nip04"
                 THEN [notifier EXCEPT !.half = {c}]
                 ELSE [notifier EXCEPT !.left = @ \ {c}]
  /\ UNCHANGED <<forwards, nodeVars, askVars, made, offers,
                 restarts>>
SendCopy(c) ==
  /\ notifier.pc = "publish" /\ Turn(c)
  /\ told' = [told EXCEPT ![notifier.event][c] = Append(@, NextCopy(c))]
  /\ notifier' = IF NextCopy(c) = "nip04"
                 THEN [notifier EXCEPT !.half = {c}]
                 ELSE [notifier EXCEPT !.half = {}, !.left = @ \ {c}]
  /\ UNCHANGED <<forwards, nodeVars, askVars, made, offers,
                 restarts>>

(* `?`: the first copy that cannot be sent ends handle_ldk_event, and the   *)
(* event is marked handled all the same.                                    *)
StayOnError(c) ==                    \* mutant: the event is kept for a retry
  /\ notifier.pc = "publish" /\ Turn(c)
  /\ notifier' = Waiting
  /\ UNCHANGED <<told, forwards, nodeVars, askVars, made,
                 offers, restarts>>
FailCopy(c) ==
  /\ notifier.pc = "publish" /\ Turn(c)
  /\ notifier' = [Waiting EXCEPT !.pc = "mark", !.event = notifier.event]
  /\ UNCHANGED <<told, forwards, nodeVars, askVars, made,
                 offers, restarts>>

EndPublish ==
  /\ notifier.pc = "publish" /\ notifier.left = {}
  /\ notifier' = [notifier EXCEPT !.pc =
                    IF notifier.event.type = "payment_received" THEN "record"
                    ELSE "mark"]
  /\ UNCHANGED <<told, forwards, nodeVars, askVars, made,
                 offers, restarts>>

(* find_by_offer_id and record_payment, on the offer store.                 *)
Found(offer) == offer # None /\ offers[offer] # None
RecordPayment(r, amount) ==
  [r EXCEPT !.num = @ + 1, !.total = @ + amount]

(* lookup_payment_by_hash, which may fail, before these; no record is ever  *)
(* removed.                                                                 *)
Record ==
  /\ notifier.pc = "record"
  /\ notifier' = [notifier EXCEPT !.pc = "mark"]
  /\ LET e == notifier.event IN
       \/ UNCHANGED offers
       \/ /\ Found(e.offer)
          /\ offers' = [offers EXCEPT ![e.offer] = RecordPayment(@, e.amount)]
  /\ UNCHANGED <<told, forwards, nodeVars, askVars, made,
                 restarts>>

(* event_handled removes the event, and persists the queue if it can.       *)
Unmarked ==                                   \* mutant: event_handled not called
  /\ notifier.pc = "mark"
  /\ notifier' = Waiting
  /\ UNCHANGED <<told, forwards, nodeVars, askVars, made,
                 offers, restarts>>
MarkHandled ==
  /\ notifier.pc = "mark"
  /\ notifier' = Waiting
  /\ queue' = Tail(queue)
  /\ disk' \in {queue', disk}
  /\ UNCHANGED <<told, forwards, arrived, askVars, made,
                 offers, restarts>>

Notify == \/ TakeNotification \/ TakeOther
          \/ \E c \in Clients : SendCopy(c) \/ FailCopy(c)
          \/ EndPublish \/ Record \/ MarkHandled

----------------------------------------------------------------------------
(* Requests, in the notification loops.                                     *)

(* handle_nwc_request and handle_control_request: the loop decrypts it and  *)
(* asks whether the profile of the client permits it just now, which        *)
(* verify_access or authorize_control_method answers.                       *)
Receive(l, a) ==
  /\ asking[l] = None /\ a \in awaited
  /\ awaited' = awaited \ {a}

Refuse(l, a) ==
  /\ Receive(l, a)
  /\ UNCHANGED <<asking, subscriptions, asked, nodeVars, eventVars, made,
                 offers, restarts>>

Authorize(l, a) ==
  /\ Receive(l, a)
  /\ asking' = [asking EXCEPT ![l] = a]
  /\ UNCHANGED <<subscriptions, asked, nodeVars, eventVars, made, offers,
                 restarts>>

(* A type the channel does not know is refused, and nothing changes.        *)
RefuseTypesLate(l) ==                 \* mutant: stored while it is validated
  /\ asking[l] # None /\ ~(asking[l].types \subseteq Known[asking[l].by])
  /\ LET a == asking[l] IN
       subscriptions' = [subscriptions EXCEPT ![a.client] =
                           a.types \cap Known[a.by]]
  /\ asking' = [asking EXCEPT ![l] = None]
  /\ UNCHANGED <<asked, awaited, nodeVars, eventVars, made, offers, restarts>>
RefuseTypes(l) ==
  /\ asking[l] # None /\ ~(asking[l].types \subseteq Known[asking[l].by])
  /\ asking' = [asking EXCEPT ![l] = None]
  /\ UNCHANGED <<subscriptions, asked, awaited, nodeVars, eventVars, made,
                 offers, restarts>>

(* subscribe replaces whatever the client had, unsubscribe removes it.      *)
Replaced(c, types) == [subscriptions EXCEPT ![c] = types]

Subscribe(l) ==
  /\ asking[l] # None /\ asking[l].types \subseteq Known[asking[l].by]
  /\ LET a == asking[l] IN
       /\ subscriptions' = Replaced(a.client, a.types)
       /\ asked' = [asked EXCEPT ![a.client][a.by] = a.types]
  /\ asking' = [asking EXCEPT ![l] = None]
  /\ UNCHANGED <<awaited, nodeVars, eventVars, made, offers, restarts>>

(* MakeOffer and DisableOffer: insert_offer, disable_offer.                 *)
NewOffer == [active |-> TRUE, num |-> 0, total |-> 0]
Disabled(r) == [r EXCEPT !.active = FALSE]

MakeOffer(o) ==
  /\ o \notin made
  /\ made' = made \cup {o}
  /\ offers' = [offers EXCEPT ![o] = NewOffer]
  /\ UNCHANGED <<nodeVars, eventVars, askVars, restarts>>
DisableOffer(o) ==
  /\ offers[o] # None /\ offers[o].active
  /\ offers' = [offers EXCEPT ![o] = Disabled(@)]
  /\ UNCHANGED <<nodeVars, eventVars, askVars, made, restarts>>

(* The statics are gone; the node reads its queue from disk.                *)
Restart ==
  /\ restarts < MaxRestarts
  /\ restarts' = restarts + 1
  /\ queue' = disk
  /\ notifier' = Waiting /\ told' = NothingTold /\ forwards' = <<>>
  /\ subscriptions' = NoSubscription /\ asked' = NothingAsked
  /\ asking' = [l \in Loops |-> None]
  /\ offers' = NoOffers
  /\ UNCHANGED <<disk, arrived, awaited, made>>

Next ==
  \/ \E e \in NodeEvents : Happen(e)
  \/ Notify
  \/ \E l \in Loops : \/ \E a \in awaited : Refuse(l, a) \/ Authorize(l, a)
                      \/ RefuseTypes(l) \/ Subscribe(l)
  \/ \E o \in Offers : MakeOffer(o) \/ DisableOffer(o)
  \/ Restart

Spec == Init /\ [][Next]_vars

(* The runtime keeps polling the event loop.                                *)
FairSpec == Spec /\ WF_vars(Notify)

----------------------------------------------------------------------------
(* Properties.                                                              *)

(* The copies a client is owed of an event, in order: the NIP-04 one for    *)
(* older clients first.                                                     *)
Copies(e) == IF e.type \in NwcTypes THEN <<"nip04", "nip44">> ELSE <<"nip44">>

(* A process sends a client no copy of an event twice, and a NIP-44 copy of *)
(* a wallet event only after the NIP-04 one, though copies fail, clients    *)
(* subscribe and unsubscribe meanwhile, and the queue is not always         *)
(* persisted (lib.rs:845-860, 3663-3702).                                   *)
CopiesOnce ==
  \A e \in NodeEvents, c \in Clients :
    \E n \in 0..Len(Copies(e)) : told[e][c] = SubSeq(Copies(e), 1, n)

(* No payment of an offer and no forward is counted twice, although an      *)
(* event may be handled again after a restart (lib.rs:3429-3437, 3506-3513; *)
(* offer_store.rs:63-69).                                                   *)
CountedOnce ==
  /\ \A o \in Offers : offers[o] # None =>
       LET paid == {e \in arrived : e.offer = o} IN
       /\ offers[o].num <= Cardinality(paid)
       /\ offers[o].total <=
            SumFunctionOnSet([e \in NodeEvents |-> e.amount], paid)
  /\ \A i, j \in DOMAIN forwards : forwards[i] = forwards[j] => i = j

(* A client is subscribed to nothing it has not asked for, by either        *)
(* channel, in its last request: also when it asks for nothing any more     *)
(* (subscription_store.rs:13-24).                                           *)
OnlyAsked ==
  \A c \in Clients : subscriptions[c] \subseteq asked[c].nwc \cup asked[c].nnc

(* "subscribed client gets all events of that type"                         *)
(* (plans/NIP47_NIPXX_COMPLIANCE_PLAN.md:400): what a client last asked for *)
(* by wallet request is still its subscription when it asks for node events *)
(* by control request, and the other way round.                             *)
SubscriptionsKept ==
  \A c \in Clients : asked[c].nwc \cup asked[c].nnc \subseteq subscriptions[c]

(* Every event is handled, in the end, and the queue is empty: a failure to *)
(* publish, to record or to persist holds nothing up (lib.rs:849-857).      *)
QueueDrained == <>[](queue = <<>>)
=============================================================================
