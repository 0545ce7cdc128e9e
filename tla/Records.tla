------------------------------- MODULE Records -------------------------------
(****************************************************************************)
(* What the service keeps of payments, offers, addresses and forwards, the  *)
(* handlers that make them, and the lists that clients read page by page    *)
(* while they change.  Payments are in LDK Node's store, the rest in memory *)
(* (offer_store, address_store, forwarding_store): each read or write is    *)
(* one critical section, and nothing holds a list between two pages.        *)
(****************************************************************************)
EXTENDS Naturals, SequencesExt

CONSTANTS
  Payments,     \* payments that exist at some time
  Offers,       \* offer strings
  Addresses,    \* on-chain addresses
  Arrivals,     \* new payments, of any time
  Queries,      \* the lists that clients read
  Makes,        \* the requests to make something
  OldPayments,  \* what the node may have stored in earlier processes
  None,         \* Option::None
  MaxSeconds,   \* bound: the clock stops here
  MaxChanges    \* bound: changes in a behaviour

Seconds == 0..MaxSeconds
Statuses == {"Pending", "Succeeded", "Failed"}
Inbound == "Inbound"
PaymentRecords == [status: Statuses, direction: {Inbound, "Outbound"},
                   kind: {"Bolt11", "Bolt12", "Keysend", "Onchain"},
                   updated: Seconds]
Stores == [Payments -> PaymentRecords \cup {None}]

(* The filters of a list: those it does not take are None, active_only and  *)
(* unpaid are FALSE.  A part of a make request is a method entry; "bolt12"  *)
(* is all of make_offer, and so on.                                         *)
PaymentLists == {"list_transactions", "list_invoices"}
Lists == PaymentLists \cup {"list_offers", "list_addresses",
                            "get_forwarding_history"}
Parts == {"bolt11", "bolt12", "onchain", "p2wpkh"}
ASSUME RecordsAssumption ==
  /\ IsFiniteSet(Payments)
  /\ Queries \subseteq
       [list: Lists, from: Seconds \cup {None}, until: Seconds \cup {None},
        limit: (Nat \ {0}) \cup {None}, unpaid: BOOLEAN,
        direction: {Inbound, "Outbound", None},
        kind: {"Bolt11", "Bolt12", "Keysend", None},
        state: Statuses \cup {None}, active_only: BOOLEAN]
  /\ Makes \subseteq
       [method: {"make_invoice", "make_offer", "make_new_address",
                 "make_bip321"},
        amount: Nat \cup {None}, parts: Seq(Parts)]
  /\ OldPayments \subseteq Stores /\ Arrivals \subseteq PaymentRecords
  /\ None \notin PaymentRecords
  /\ None \notin Nat /\ None \notin Addresses
  /\ Offers \cap Addresses = {}
  /\ MaxSeconds \in Nat /\ MaxChanges \in Nat

VARIABLES
  clock,      \* the time in seconds
  payments,   \* LDK Node's payments
  offers,     \* OFFER_STORE, in the order its HashMap iterates
  addresses,  \* ADDRESS_STORE, likewise
  forwards,   \* FORWARDING_HISTORY: per forward, settled_at
  making,     \* the make request that a loop handles
  walk,       \* a client's reading of a list
  changes     \* changes so far
storeVars == <<payments, offers, addresses, forwards>>
vars == <<clock, storeVars, making, walk, changes>>

OfferRecords == [offer: Offers, active: BOOLEAN]
Stored(s, field) == {s[i][field] : i \in DOMAIN s}

(* `stored` is, for the properties, what the request has put in the stores. *)
NoUri == [lightning |-> {}, lno |-> {}, address |-> None]
NotMaking == [pc |-> "none", request |-> None, todo |-> <<>>, uri |-> NoUri,
              stored |-> {}, code |-> "NONE"]
Makings == [pc: {"none", "making", "answered"}, request: Makes \cup {None},
            todo: Seq(Parts),
            uri: [lightning: SUBSET Payments, lno: SUBSET Offers,
                  address: Addresses \cup {None}],
            stored: SUBSET (Offers \cup Addresses),
            code: {"NONE", "OTHER", "OK"}]

(* `seen` are the pages read so far.  For the properties, `start` is what   *)
(* the list held at first, with the time of the last update; `touched` are  *)
(* the payments updated since, `grown` and `shrunk` say that something came *)
(* to the list or left it.                                                  *)
NotWalking == [pc |-> "none", query |-> None, seen |-> <<>>, start |-> {},
               touched |-> {}, grown |-> FALSE, shrunk |-> FALSE]

RecordsTypeOK ==
  /\ clock \in Seconds
  /\ payments \in Stores
  /\ offers \in Seq(OfferRecords)
  /\ \A i, j \in DOMAIN offers : offers[i].offer = offers[j].offer => i = j
  /\ addresses \in Seq(Addresses) /\ IsInjective(addresses)
  /\ forwards \in Seq(Seconds)
  /\ making \in Makings
  /\ walk.pc \in {"none", "reading", "ended"}
  /\ walk.query \in Queries \cup {None}
  /\ changes \in 0..MaxChanges

RecordsInit ==
  /\ clock \in Seconds /\ payments \in OldPayments
  /\ \A p \in Payments : payments[p] # None => payments[p].updated <= clock
  /\ offers = <<>> /\ addresses = <<>> /\ forwards = <<>>
  /\ making = NotMaking /\ walk = NotWalking /\ changes = 0

----------------------------------------------------------------------------
(* What a list holds.                                                       *)

Between(q, t) == /\ q.from # None => q.from <= t
                 /\ q.until # None => t <= q.until

(* list_payments_filtered; list_invoices asks for the unpaid inbound ones,  *)
(* and filters by state what it gets.                                       *)
Wanted(q, ps) ==
  {p \in Payments : ps[p] # None /\ LET d == ps[p] IN
     /\ Between(q, d.updated)
     /\ q.direction # None => d.direction = q.direction
     /\ q.kind # None => d.kind = q.kind
     /\ d.status = "Pending" => q.unpaid
     /\ q.state # None => d.status = q.state}

(* sort_by is stable, over the order of a HashMap.                          *)
OldestFirst(s, ps) ==                                  \* mutant: ascending
  \A i, j \in DOMAIN s : i < j => ps[s[i]].updated <= ps[s[j]].updated
NewestFirst(s, ps) ==
  \A i, j \in DOMAIN s : i < j => ps[s[i]].updated >= ps[s[j]].updated

(* filter keeps the places of what it leaves in their order.                *)
InPlace(places) ==
  CHOOSE s \in SetToSeqs(places) : \A i, j \in DOMAIN s : i < j => s[i] < s[j]

OffersListed(q) ==
  LET left == InPlace({i \in DOMAIN offers :
                         q.active_only => offers[i].active})
  IN [i \in DOMAIN left |-> offers[left[i]].offer]

LatestForwards(q) ==                                   \* mutant: newest first
  Reverse(InPlace({i \in DOMAIN forwards : Between(q, forwards[i])}))
ForwardsListed(q) ==
  InPlace({i \in DOMAIN forwards : Between(q, forwards[i])})

(* The sequences that a list may be, by the ids of what it holds.           *)
Orders(q) ==
  CASE q.list \in PaymentLists ->
         {s \in SetToSeqs(Wanted(q, payments)) : NewestFirst(s, payments)}
    [] q.list = "list_offers" -> {OffersListed(q)}
    [] q.list = "list_addresses" -> {addresses}
    [] OTHER -> {ForwardsListed(q)}

(* skip(offset).take(limit), and split_off with truncate: n = None is no    *)
(* limit.                                                                   *)
Take(s, n) == IF n = None \/ n >= Len(s) THEN s ELSE SubSeq(s, 1, n)
SkipTake(s, o, n) == Take(SubSeq(s, o + 1, Len(s)), n)
NeverCleared(s, o, n) ==               \* mutant: no page is past the end
  Take(IF o > 0 /\ o < Len(s) THEN SubSeq(s, o + 1, Len(s)) ELSE s, n)
SplitTruncate(s, o, n) ==
  Take(IF o > 0 /\ o < Len(s) THEN SubSeq(s, o + 1, Len(s))
       ELSE IF o >= Len(s) /\ o > 0 THEN <<>>
       ELSE s, n)

PageOf(q, s, o) ==
  IF q.list \in {"list_transactions", "get_forwarding_history"}
  THEN SkipTake(s, o, q.limit) ELSE SplitTruncate(s, o, q.limit)

----------------------------------------------------------------------------
(* A client reads a list: a page, and then the next, until one is short.    *)

Page(q, seen) == {PageOf(q, s, Len(seen)) : s \in Orders(q)}
Held(q) ==
  CASE q.list \in PaymentLists ->
         {<<p, payments[p].updated>> : p \in Wanted(q, payments)}
    [] OTHER -> {<<i, 0>> : i \in Range(CHOOSE s \in Orders(q) : TRUE)}

Read(q, w) == \E page \in Page(q, w.seen) :
  walk' = [w EXCEPT !.seen = @ \o page,
                    !.pc = IF q.limit = None \/ Len(page) < q.limit
                           THEN "ended" ELSE "reading"]

StartReading(q) ==
  /\ walk.pc = "none"
  /\ Read(q, [NotWalking EXCEPT !.query = q, !.start = Held(q)])
  /\ UNCHANGED <<clock, storeVars, making, changes>>

ReadNext ==
  /\ walk.pc = "reading"
  /\ Read(walk.query, walk)
  /\ UNCHANGED <<clock, storeVars, making, changes>>

StopReading ==
  /\ walk.pc = "ended"
  /\ walk' = NotWalking
  /\ UNCHANGED <<clock, storeVars, making, changes>>

(* For the properties: what a step does to the list being read.             *)
Names(q) == {h[1] : h \in Held(q)}
Noticing(ids) ==
  IF walk.pc # "reading" THEN UNCHANGED walk
  ELSE \E q \in {walk.query} :
    walk' = [walk EXCEPT !.touched = @ \cup ids,
                         !.grown = @ \/ Names(q)' \ Names(q) # {},
                         !.shrunk = @ \/ Names(q) \ Names(q)' # {}]

----------------------------------------------------------------------------
(* The requests that make something.                                        *)

Changed == changes < MaxChanges /\ changes' = changes + 1

StartMaking(r) ==
  /\ making.pc # "making" /\ Changed
  /\ making' = [NotMaking EXCEPT !.pc = "making", !.request = r,
                                 !.todo = r.parts]
  /\ UNCHANGED <<clock, storeVars, walk>>

Making(part) == making.pc = "making" /\ making.todo # <<>>
                /\ Head(making.todo) = part
Made(uri, stored) ==
  making' = [making EXCEPT !.todo = Tail(@), !.uri = uri,
                           !.stored = @ \cup stored]

(* LDK Node keeps an invoice as a pending payment.                          *)
MakeInvoice(p) ==
  /\ Making("bolt11") /\ making.request.amount \notin {None, 0}
  /\ payments[p] = None
  /\ payments' = [payments EXCEPT ![p] =
       [status |-> "Pending", direction |-> Inbound, kind |-> "Bolt11",
        updated |-> clock]]
  /\ Made([making.uri EXCEPT !.lightning = @ \cup {p}], {})
  /\ UNCHANGED <<clock, offers, addresses, forwards, changes>>
  /\ Noticing({p})

(* A HashMap may iterate in any other order when something is inserted.     *)
InsertedTwice(s, x) == {s \o <<x, x>>}           \* mutant: a Vec for the map
Inserted(s, x) == SetToSeqs(Range(s) \cup {x})

NotTracked(o) == {offers}                       \* mutant: no insert_offer
InsertOffer(o) == Inserted(offers, [offer |-> o, active |-> TRUE])
MakeOffer(o) ==
  /\ Making("bolt12") /\ o \notin Stored(offers, "offer")
  /\ offers' \in InsertOffer(o)
  /\ Made([making.uri EXCEPT !.lno = @ \cup {o}], {o})
  /\ UNCHANGED <<clock, payments, addresses, forwards, changes>>
  /\ Noticing({})

(* The address is registered before make_bip321 reads it back from its      *)
(* text: one that cannot be read stays in the store and out of the URI.     *)
UnlessRead(uri) ==
  {uri} \cup (IF making.request.method = "make_bip321" THEN {making.uri} ELSE {})
MakeNewAddress(a) ==
  /\ Making("onchain") /\ a \notin Range(addresses)
  /\ addresses' \in Inserted(addresses, a)
  /\ \E uri \in UnlessRead([making.uri EXCEPT !.address = a]) : Made(uri, {a})
  /\ UNCHANGED <<clock, payments, offers, forwards, changes>>
  /\ Noticing({})

(* The node makes no such thing, or it was not asked to: no amount for an   *)
(* invoice, an address of another type.                                     *)
SkipPart ==
  /\ making.pc = "making" /\ making.todo # <<>>
  /\ Made(making.uri, {})
  /\ UNCHANGED <<clock, storeVars, walk, changes>>

(* An error only if nothing was generated.                                  *)
AllGenerated(m) ==                              \* mutant: any failure is one
  Cardinality(m.stored \cup m.uri.lightning) = Len(m.request.parts)
AnyGenerated(m) == m.uri # NoUri
AnswerMake ==
  /\ making.pc = "making" /\ making.todo = <<>>
  /\ making' = [making EXCEPT !.pc = "answered",
                  !.code = IF AnyGenerated(making) THEN "OK" ELSE "OTHER"]
  /\ UNCHANGED <<clock, storeVars, walk, changes>>

----------------------------------------------------------------------------
(* Other changes.                                                           *)

(* disable_offer, which finds the offer.                                    *)
DisableOffer(i) ==
  /\ Changed
  /\ offers' = [offers EXCEPT ![i].active = FALSE]
  /\ UNCHANGED <<clock, payments, addresses, forwards, making>>
  /\ Noticing({})

(* LDK Node sends or receives a payment, or one moves on; a failed one may  *)
(* be sent again.                                                           *)
NewPayment(p, d) ==
  /\ Changed /\ payments[p] = None
  /\ payments' = [payments EXCEPT ![p] = [d EXCEPT !.updated = clock]]
  /\ UNCHANGED <<clock, offers, addresses, forwards, making>>
  /\ Noticing({p})

MovePayment(p, status) ==
  /\ Changed /\ payments[p] # None
  /\ payments[p].status \in {"Pending", "Failed"} /\ payments[p].status # status
  /\ payments' = [payments EXCEPT ![p].status = status, ![p].updated = clock]
  /\ UNCHANGED <<clock, offers, addresses, forwards, making>>
  /\ Noticing({p})

RecordForward ==
  /\ Changed
  /\ forwards' = Append(forwards, clock)
  /\ UNCHANGED <<clock, payments, offers, addresses, making>>
  /\ Noticing({})

Tick == /\ clock < MaxSeconds /\ clock' = clock + 1
        /\ UNCHANGED <<storeVars, making, walk, changes>>

(* The node's payments survive, the stores and the request do not.          *)
RestartRecords ==
  /\ Changed
  /\ offers' = <<>> /\ addresses' = <<>> /\ forwards' = <<>>
  /\ making' = NotMaking
  /\ walk' = NotWalking
  /\ UNCHANGED <<clock, payments>>

RecordsNext ==
  \/ \E q \in Queries : StartReading(q)
  \/ ReadNext \/ StopReading
  \/ \E r \in Makes : StartMaking(r)
  \/ \E p \in Payments : MakeInvoice(p)
  \/ \E o \in Offers : MakeOffer(o)
  \/ \E a \in Addresses : MakeNewAddress(a)
  \/ SkipPart \/ AnswerMake
  \/ \E i \in DOMAIN offers : DisableOffer(i)
  \/ \E p \in Payments, d \in Arrivals : NewPayment(p, d)
  \/ \E p \in Payments, s \in Statuses : MovePayment(p, s)
  \/ RecordForward \/ Tick \/ RestartRecords

RecordsSpec == RecordsInit /\ [][RecordsNext]_vars

----------------------------------------------------------------------------
(* Properties.                                                              *)

Of(lists) == walk.pc # "none" /\ walk.query.list \in lists

(* A client that reads its payments page by page misses none that was in    *)
(* the list from the beginning and has not been updated since, although the *)
(* offset counts from a front that moves: newer payments come, and older    *)
(* ones move, before it.  The exceptions are payments of the same second,   *)
(* whose order is not fixed, and a list that something leaves               *)
(* (ldk_service.rs:823-839, lib.rs:1854-1862).                              *)
NothingSkipped ==
  Of(PaymentLists) /\ walk.pc = "ended" /\ ~walk.shrunk =>
    \A h \in walk.start :
      \/ h[1] \in walk.touched
      \/ \E g \in walk.start : g # h /\ g[2] = h[2]
      \/ h[1] \in Range(walk.seen)

(* The pages of the forwarding history are the history: no forward is read  *)
(* twice or passed over while others are recorded                           *)
(* (forwarding_store.rs:22-48).                                             *)
ForwardsInOrder ==
  Of({"get_forwarding_history"}) =>
    /\ IsPrefix(walk.seen, ForwardsListed(walk.query))
    /\ walk.pc = "ended" => {h[1] : h \in walk.start} \subseteq Range(walk.seen)

(* Offers and addresses come in no order, but as long as none is made the   *)
(* pages of a list have each of them once (lib.rs:1913-1922, 2009-2018).    *)
EachListedOnce ==
  Of({"list_offers", "list_addresses"}) /\ ~walk.grown /\ ~walk.shrunk =>
    /\ IsInjective(walk.seen)
    /\ walk.pc = "ended" => Range(walk.seen) = {h[1] : h \in walk.start}

(* What a client is told it can be paid with is what the stores got: the    *)
(* offers of the answer are the offers that the request registered, no more *)
(* and no fewer, and its address is registered.  A request that fails has   *)
(* left nothing behind, though make_bip321 goes on after a part that fails, *)
(* except the addresses that make_bip321 registered before it could not     *)
(* read them back (lib.rs:2186-2266, 1489-1500).                            *)
AnswerMatchesStores ==
  making.pc = "answered" =>
    /\ making.uri.lno = making.stored \cap Offers
    /\ making.uri.lno \subseteq Stored(offers, "offer")
    /\ {making.uri.address} \ {None} \subseteq making.stored \cap Range(addresses)
    /\ making.code = "OTHER" =>
         making.stored \subseteq
           IF making.request.method = "make_bip321" THEN Addresses ELSE {}
=============================================================================
