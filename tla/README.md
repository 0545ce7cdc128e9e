# ldk-controller, specified

A TLA+ specification of `ldk-controller`: a lightning node (LDK Node) that its
users control over nostr, by wallet requests (NWC, NIP-47) and node control
requests (NNC), within the limits of grants that its owners publish. The modules
are model-checked with TLC on small instances, and every safety property of those
runs is also proved with TLAPS for every instance, most of them without a
condition, the others under conditions that section 5 names and explains.

Paths are relative to the repository: `src/lib.rs`, `src/state/...`,
`src/usage_profile/...`, `src/lightning/ldk_service.rs`. "The protocol document"
is `nip-nostr-wallet-connect-controller.md`, "the accounting model" is
`STATE_ACCOUNTING_MODEL.md`, and "the compliance plan" is
`plans/NIP47_NIPXX_COMPLIANCE_PLAN.md`.

## 1. The system

| Component | State | Operations | Modules |
|---|---|---|---|
| Rate and quota arithmetic (`state/rate_state.rs`, `rate_limit_rule.rs`) | one `RateState` (balance, refill clock) behind an `Arc<Mutex<..>>` | `from_rule`, `calculate_refill`, `check_withdraw_after_refill`, `withdraw_after_refill`, `refund` | `RateState`, `RateCounter`, `TokenBucket` |
| Access grants (`lib.rs` 93-152, 755-830, `usage_profile/`, `state/store/access_store.rs`) | `APPLIED_GRANT_EVENTS`, `USAGE_PROFILES`, `ACCESS_STATE.access_rate`, `ACCESS_STATE.quota` | poll, receive, `should_apply_grant_event`, `upsert_usage_profile_and_reset_states` | `Grants` |
| Wallet request admission (`lib.rs` 223-393, 2417-2608) | the guards and updates of each request being handled | `verify_access`, dispatch, `refund_applied_state_updates`, response | `AccessControl` |
| Payments (`lib.rs` 519-533, 1080-2142, `ldk_service.rs` 417-460, 842-950) | LDK's payment store; the wait of each request | `pay_invoice`, `pay_keysend`, `pay_onchain`, `pay_offer`, `pay_bip321`, `wait_for_outbound_payment` | `Payments` |
| Node events and notifications (`lib.rs` 845-860, 3409-3520, 3661-3702, `subscription_store.rs`, `forwarding_store.rs`) | LDK's event queue, `SUBSCRIPTIONS`, `FORWARDING_HISTORY` | `handle_ldk_event`, publication, `event_handled`, subscribe | `Notifications` |
| Control requests (`lib.rs` 2610-3298, 3344-3400) | the control request of each loop | `authorize_control_method`, `process_control_request` | `Control` |
| Channel and peer management (`lib.rs` 2665-2829, 2856-2896, 2928-2981, `ldk_service.rs` 458-500, 531-667) | LDK's channels and peers | `open_channel`, `close_channel`, `set_channel_fees`, `connect_peer`, `disconnect_peer` | `Control` |
| Node queries (`lib.rs` 2830-2855, 2897-2927, 2982-3191, 3238-3298, `ldk_service.rs` 669-755, 947-1055, `forwarding_store.rs`) | LDK's network graph, `FORWARDING_HISTORY` | `find_routes`, the forwarding history; lists and statistics | `Routes`, `Records`, in part |
| Wallet queries and payment requests (`lib.rs` 955-1055, 1310-1440, 1775-1935, 2147-2357, `ldk_service.rs` 338-416, 756-840) | LDK's payment store | `make_invoice`, `make_bip321`, `list_transactions`, `list_invoices`, `list_offers`, `list_addresses`, `estimate_routing_fees`; info, balance, lookups | `Records`, `Routes`, in part |
| Offer records (`offer_store.rs`, `lib.rs` 1558-1617, 1936-1977) | `OFFER_STORE` | make, disable, list, count a payment | `Notifications`, `Records` |
| Address records (`address_store.rs`, `lib.rs` 1471-1506, 1716-1771, 1979-2030) | `ADDRESS_STORE` | make, list | `Records` |
| Encryption and event encoding; configuration and start-up | none of their own | | none |

How they interact. A *service* has one notification loop: a task that takes the
events the relay pushes, one at a time, and awaits the handling of each before
the next (lib.rs:795-830). A grant goes through `should_apply_grant_event` and
is applied step by step; a wallet request goes through `verify_access`, then to
its handler on a blocking thread that the loop awaits, then perhaps to a refund; a
control request goes through `authorize_control_method` to a chain of branches.
A *poller* fetches the grants every 30 seconds and applies them with the same
code, in parallel with the loops (769-793). A further task handles the node's
events. All of them share process-wide statics behind mutexes, and no critical
section spans a whole operation. Nothing but LDK Node's own stores survives the
process; the relay keeps the grants.

What is hard. Two requests meet at two counters, each behind its own lock. A
grant is applied in several critical sections while requests of its client use
the old profile and the old counters, which they reach through shared handles. A
debit is made before its payment and given back after it, possibly by a rule that
is no longer in force, into a counter that is no longer in the map. The poller
and a loop apply grants at once. A payment is awaited for at most 60 seconds and
may still settle later. The node's event queue is persisted and the
notifications sent from it are not. A command reads its grant, then a channel or a
peer, and acts on the node with what it read. A list is read page by page, by an
offset, while what it lists arrives, changes and disappears. A route is searched in
a graph that gossip changes while it is being read, with a limit on hops that the
search itself knows nothing of. `PROJECT.json` lists each of these hazards
at its line with the properties that cover it, or the reason none does.

## 2. The modules

    RateState  <--  RateCounter  --implements-->  TokenBucket
        ^
        +---  Grants  <--  AccessControl  <--  Payments
                             ^  ^   ^             |
                             |  |   +-implements--+
                             |  +--  Control
                             +-implements-+
    Notifications        Routes        Records

An arrow `A <-- B` reads "B extends A". The order in which they were written is
the order of importance: the arithmetic of a limit, the grants that set limits,
the requests they bind, the payments they are there for, notifications, then the
commands that change the node, the search for routes and the lists.

**RateState** is the arithmetic as pure operators: each saturation, conversion
and error of `rate_state.rs`, in the widths `MaxI64` and `MaxU64`. A negative
`max_capacity` is refused by deserialization (`rate_limit_rule.rs:14-32`), so
`InvalidRule` cannot occur and is left out.

**TokenBucket** is what the protocol document (98-106) promises of a limit, and
knows nothing of the code: a bucket that starts full, gains `Rate` tokens each
microsecond up to `Capacity`, and from which calls take tokens and refunds put
them back.

**RateCounter** is one counter under any number of concurrent requests: admission
(check and debit under one lock, at a time read before the lock), success and
refund. Its refinement mapping to `TokenBucket` is the balance seen through
`calculate_refill` at the present time. Only how many debits of each amount are
open or kept is remembered, which is all a refund depends on.

**Grants** has one action per critical section. `Deliver` and `Poll` are the two
ways a grant reaches a task; `Skip`, `AcceptUnparseable` and `Accept` are the
outcomes of `should_apply_grant_event` and the parse that follows it;
`ClearAccess`, `ClearQuota`, `StampCounters`, `InitMethod`, `InitQuota` and
`UpsertProfile` are the upsert. An `Arc<Mutex<RateState>>` is a *cell*: an index
into the sequence `cells` of all counters allocated since the process started, so
that a handle keeps its meaning when the maps drop it. A cell carries ghost
fields (what it was created for, the net of its debits) that no guard reads. A
stored profile is represented by the event it came from. `Restart` empties all
that is in memory.

**AccessControl** extends Grants with requests. Each step of `verify_access` that
reads or writes shared state is an action: the profile is cloned (`Authorize`),
the clock read, the two counters looked up (`FetchAccess`, `FetchQuota`), then
locked in the order of `compare_access_keys`, verified and debited one by one
under all the guards, then released. `AnswerUnexecuted`, `Start`, `Succeed`,
`Fail`, `RefundUpdate` and `Refunded` are `process_nwc_request` after that. A loop
that handles a request applies no grant until it has answered. What a handler does
is abstracted to its success or failure, at any later time.

**Payments** says what handlers that pay do. An *order* is the method, the
`amount` parameter, the destinations it names and the amount the invoice or offer
asks for. `SpendMsat` is what `request_spend_msat` charges to the quota and
`NodeMsat` what the node sends: they are separate in the code, and differ.
`SendLightning` hands the payment to the node; `LookPaid`, `LookUnproven`,
`LookFailed`, `LookPending`, `GiveUp` and `Sleep` are one round of the loop in
`wait_for_outbound_payment`, in which the look at the status and the look at the
time are apart. A payment may succeed without a preimage in its record
("unproven"): the code turns that into an error too (`LookUnproven`), so it refunds
and reports as failed a payment that was made, as it may when the wait times out
(`GiveUp`). The ghost `disowned` collects these requests; `sent` those that this
process has paid for. `Settle` is the network and the node's record of it, at any
time or never, also after the service has given up or restarted. Routing and
transaction fees are no part of an amount: the code charges no quota for them.
AccessControl is the abstract specification of
this module: every step of a paying request is a step of it or leaves its
variables alone.

**Notifications** stands alone, because this path reads neither a profile nor a
counter (authorization of a subscription is a free choice of the environment). The node
appends to a queue and to disk; the event task looks at the first event, records
it or publishes it copy by copy (two for a wallet event, NIP-04 then NIP-44, one
for a node event), counts a payment of an offer, and marks it handled. A copy may
fail, which ends the handling; the queue may fail to be persisted; the process may
restart. Subscriptions come by wallet and by control request into one map.

**Control** extends AccessControl with control requests, which the same loops
handle between wallet requests and grants. `ReceiveCommand`, `RefuseCommand` and
`PermitCommand` are receipt and `authorize_control_method`; `RefuseUnread` answers,
before any authorization, an event in an unknown encryption or one that is no
request; `AnswerAtOnce` answers the branches that need nothing of the node, the stubs
and the queries, with one of `CodesAtOnce` (a lookup may find nothing, or fail); the
five methods that change the node have an action per look at it and per call to it
(`LookUpPeer` then `OpenChannel` or `FailToOpen`; `FindChannel` then `CloseChannel`,
`SetChannelFees` or `FailToApply`; `ConnectPeer`; `DisconnectPeer`). The node's
peers and channels are external and move on their own (`PeerMoves`,
`ChannelGone`); they survive a restart, the command does not. The ghost `grants`
collects the grants stored for the client since the command came, `feesSet` what
the owner last set of each channel, component by component. AccessControl is the
abstract specification of this module too.

**Routes** is `find_routes`. `Query` is the entry of either handler, `ReadChannel`
one iteration of the scan that fills the table of edges, during which `Gossip` may
change the graph; `StartSearch`, `Drop`, `Reach` and `Expand` are the outcomes of
one `heap.pop()`, and `Finish` is the answer. Fees are computed with the unchecked
product of the code, modulo the width. The heap is a set of paths, and a pop takes
any path of least cost: two entries that tie have no promised order.

**Records** is what clients read in lists: LDK's payments, offers, addresses and
forwards. `StartReading` and `ReadNext` read a page, filters, sort and cut
included, each a critical section; `StartMaking` and the parts (`MakeInvoice`,
`MakeOffer`, `MakeNewAddress`, `SkipPart` for one that fails or is refused,
`AnswerMake`) are `make_bip321` and the handlers that make one thing. An address is
stored before `make_bip321` reads it back from its text, and if that fails it stays
stored and is not told (`UnlessRead`). The order of a
HashMap is a sequence that an insertion may permute. The two ways the code cuts
a page, `skip`/`take` and `split_off`/`truncate`, are separate operators.

The `MC*` modules give the constants of the instances. Definitions marked
`\* mutant:` are wrong variants of the definition after them; nothing uses them,
and they serve to see a property fail when the code is wrong in that way.

## 3. What is checked

A passing run (`MC..._x.cfg`) explores every behaviour of its instance.

| Run | Instance | What it shows |
|---|---|---|
| `MCRateCounter_quota` | rate 0, capacity 5, debits of 1, 2 and 9 (9 is above `MaxI64` = 7), 5 debits, 3 ticks | A plain quota never withholds (`NothingWithheld`) nor exceeds (`WithinGrantedRate`) what it grants, under debits and refunds in any order, and implements `TokenBucket`. |
| `MCAccessControl_replaced` | one loop and the poller, which do not apply grants of one client at once (`CONSTRAINT OneAtATime`); a grant for payments alone with a rate of 1 and a quota of 3, one that ties with it on the second, for any method, without the rate and with a quota of 2, and a later one that does not parse; a payment of 2, a call that nobody handles, one restart | Between upserts the stored profile is the grant accepted last and the counters are its own; a redelivery creates no counter again; a published grant becomes active unless a newer one is published, restarts included. A request that is admitted meanwhile has been charged for each limit of the profile that permitted it and for no other, at its price, from counters of its own client and kind, though the poller changes the maps between the clone of the profile and the lookups; no counter, the old ones that a request still holds included, gives out more than its capacity, refunds after a replacement included. `MCGrants_race` below shows what the constraint keeps out. |
| `MCPayments_spend` | two loops, a rate of 2 and a quota of 3, and two payments of 2 of one client (a BIP-321 URI with an offer and an address, paid by lightning, and an on-chain payment), up to three looks at an outcome, one tick, one restart; payments settle with a preimage or without, fail or stay pending | No counter is overspent and none loses tokens, a refused request is charged nothing, nobody finds a counter missing, and lock waits end. The amounts that destinations have got or may still get in this process, plus what is left of the quota, stay within the quota, but for the payments that were refunded although they go out (`disowned`), and for fees. Each client is answered; an OK means the payment was made, with a proof, and a failure that it was not, unless it is one of those. |
| `MCControl_commands` | one loop and the poller, as `main.rs` starts them; a grant that allows a method and "ALL", replaced by one without a control section; one command of every kind with steps of its own, a wallet call, two channels, a peer that comes and goes, one restart | The node is told to do something only under a grant that was stored since the command came and allowed it; a fee that was set stays set, component by component; every command is answered. |
| `MCNotifications_events` | two clients, one offer, three events (a payment of the offer, a channel, a forward), four subscription requests, one restart | No copy is sent twice by a process, no payment or forward is counted twice, nobody is subscribed to what it did not ask for, and the queue is drained. |
| `MCRoutes_search` | four nodes, five channels with cheap, dear or missing updates and one too small for the amount (24 graphs), paths of at most two hops where the longest way has three, one change by gossip during the scan, a width that the fee product exceeds; one or two routes | Every route is an unbroken simple path of allowed length over updates the graph held; routes come in the order of their fees and report the fees of their hops; unless a path was cut for its length, a route is found exactly if there is one, and the first is the cheapest. |
| `MCRecords_pages` | pages of one and a list without a limit, over payments (two old ones, of one time or of two, and new ones), offers, addresses and forwards, with the filters of each list; requests for a URI of three parts, with and without an amount; three changes, two seconds, restarts | A reader misses no payment that did not change, unless something left the list or two payments share a second; the pages of the forwarding history are the history; offers and addresses appear once each while none is made; a make request is answered with exactly the offers it stored and with an address that is stored, and one that fails has left nothing but addresses that could not be read back. |

The bounds are small because the state they bound is per client, per counter and
per event: two loops are the least with which locks, looks and debits interleave;
a quota that covers one of two payments is the least that can be overspent; two
grants are the least with an older and a newer one, and they tie on the second so
that only the id orders them; one restart in the middle of anything leaves everything to be done
again. No rule refills but in `MCRateCounter_rate`, and time has no effect without a refill:
`MaxTime` is 0 in most
instances, and positive where a clock that moves between two steps is to be seen to do no harm. The widths are small enough to be reached. In Control one
command is enough, because a command meets others only through the loop that
handles them in turn, and the poller, the peer and the node act in between; the
states are 289 thousand. In Routes two hops are the least limit that a third node
can exceed, and one change by gossip is the least that makes the scan read no single
graph; a change during the search is not explored, since the table has been
built. In Records three changes are the least with which a payment arrives, another
moves and a third goes on between two pages (2.7 million states; the names of
offers and of addresses are interchangeable, and `Symmetric` permutes them).

### Where the code departs from its documents

Each of these runs checks one statement and finds a counterexample.

| Run | Statement | What the code does |
|---|---|---|
| `MCRateCounter_rate` | `rate_per_micro` is the refill per microsecond (protocol document :99) | `withdraw_after_refill` never moves `last_refill_micros`, so each withdrawal is credited again with all the time since the counter was created. |
| `MCGrants_race` | the latest grant is the active one (:38) | The order of acceptance is decided under a lock, the upsert happens after it: the poller and the loop with one grant each can leave the older profile stored, and no redelivery repairs it. |
| `MCAccessControl_all` | a rate under "ALL" applies to every method (compliance plan :183) | The counter is created under "ALL" and looked up under the method: every such request is refused for want of state. |
| `MCPayments_unmetered` | the quota bounds what is spent (:104) | An invoice without an `amount` parameter pays its own amount, and an offer always does; neither is charged. |
| `MCNotifications_channels` | a subscribed client gets all events of the type (compliance plan :400) | The two channels replace each other's subscription. |

Divergences that were seen and are modelled, or stated here, but have no run of
their own:

- *Grants.* A grant that does not parse is recorded as applied and otherwise ignored, so
  the profile before it stays in force until a grant that parses comes (lib.rs:820);
  the protocol document (:138) says to deny access - `AcceptUnparseable`.
- *Requests.* The charge of a request that fails validation is kept (lib.rs:2446;
  protocol document :191 says otherwise) - `AnswerUnexecuted`. A refund or debit under a rule read before a grant update is
  clamped to the old capacity and may fill a smaller counter beyond its own
  (lib.rs:363, document :106), which cannot happen to a counter reached by its own
  handle, and whose total usage `NeverOverspent` still bounds.
- *Payments.* A payment that succeeds without a preimage in the node's record is
  refunded and reported as failed (ldk_service.rs:918-922) - `LookUnproven`; no
  document speaks of it. One that is still pending after 60 seconds is refunded as
  failed too (938-941), and paid when the network settles it, though the accounting
  model takes the ambiguous timeout not to arise (:63) - `GiveUp`. `SpendingWithinQuota`
  and `AnswersAreTrue` leave out these two, and no other payment, by `disowned`. Routing fees (926) and transaction fees are never charged to
  a quota; no document says whether they should be. A restart forgets which payments
  are open and starts every counter full, which the accounting model accepts (:65).
- *Notifications.* Subscriptions are not checked against the profile at the time of
  an event, so they outlive a revocation until the process restarts. The payment of
  an offer is not counted when publication fails or after a restart (the compliance
  plan, :295, expects the count).
- *Control.* The rates that a `control` section states (protocol document :101) are
  never looked at (lib.rs:2617-2638), and a rule's key is `access_rate`
  (usage_profile/mod.rs:17) where the document writes `rate`. "ALL" grants every
  control method, as the compliance plan has it (:173) and the document does not
  (:97) - `PermitsControl`. `tests/control_stubs_not_implemented.rs`
  expects NOT_IMPLEMENTED of `query_routes`, which has a handler; of its other
  names, `get_pending_htlcs` is the one that is a stub - `CodesAtOnce`. With two
  loops the read-modify-write of `set_channel_fees` would lose updates; `main.rs`
  starts one.
- *Routes.* A cheap path of many hops marks a node expanded and hides a dearer one of
  fewer hops: with the limit reached, the answer may be "no route found" (lib.rs:2334,
  3278) although a route of allowed length exists (`us -> a -> b` before
  `us -> b -> dest` in the instance, with `cut` set). That is why
  `CheapestUnlessCut` has its condition. Further routes are not the next cheapest
  ones, for the same reason. Disabled directions are offered, the fee of the node's
  own first channel is included, the product of amount and rate wraps in a release
  build (and panics in a debug build), and `max_routes` 0 answers NOT_FOUND -
  `HopFee`, `NoRoute`, `Query`.
- *Records.* Between two pages a payment that stops matching the filter shortens the
  list, and the reader skips the one behind it; two payments of one second may swap.
  Both are the exceptions in `NothingSkipped`. `disable_offer` is a mark in
  memory, forgotten in a restart, and the node still honours the offer. A second
  on-chain entry of a BIP-321 request replaces the address in the answer, and the
  first one stays registered - `MakeNewAddress`. Nothing calls
  `record_transaction`, so an address never shows a payment.

## 4. Fairness

- `TaskFairness` (AccessControl): weak fairness of each task's poll, of looking at the grants it
  was given, and of each step of an upsert. The tokio runtime keeps polling tasks
  that are ready, and the poller never ends. The relay owes nothing: publication,
  delivery and ticks have no fairness, and a pushed event may never arrive.
  `FairService` is this and the fairness of the loops.
- `Fairness` (AccessControl) and `WF_allPayVars(Serve(l))` (Payments): a loop that can
  take a step takes one. In AccessControl `Succeed` and `Fail` are such steps
  because a handler ends: its only unbounded wait is ended after 60 seconds
  (ldk_service.rs:938-945). Payments models that wait and shows it: it ends after
  `Patience` looks although `Settle` has no fairness.
- `WF_allControlVars(Command(l))` (Control): the runtime runs a loop that is in the middle
  of a command. The calls into the node return, with a success or an error; a peer
  and a channel owe nothing.
- `WF_vars(Notify)` (Notifications): the event task is polled. Copies may always
  fail, and nothing obliges the queue to be persisted.

Routes and Records have safety properties only. Deadlock is checked in every run but
those of RateCounter and Notifications: there a bounded number of calls or events
ends, and then the system rests.

## 5. What is proved

For all constants that satisfy the assumptions of the modules: any sets of
clients, methods, grants, requests, commands, events, loops and pollers, any rules,
networks, lists and widths. The named assumptions (`WidthAssumption`,
`CounterAssumption`, `GrantEventsAssumption`, `NoneAssumption`, `GrantBoundsAssumption`,
`RequestsAssumption`, `FiniteAssumption`, `OrdersAssumption`, `CommandsAssumption`,
`EventsAssumption`, `AsksAssumption`, `RoutesAssumption`, `RecordsAssumption`) say
what the constants are: that a request has a client and an amount in the width, that
ids are unique, that a bound is a number. Requests, payments and the nodes of the
graph are finite sets, of any size: sums over them, ranks in a list and the end of a
search make sense for no others. TLC evaluates each assumption.

Each row states a property that a run checks, unless it says otherwise. "If" gives
what the theorem supposes beyond the assumptions; the conditions are explained below
the table.

| Theorem | Module | Says | If |
|---|---|---|---|
| `CounterTypeCorrect` | `RateCounter_proofs` | `TypeOK` of RateCounter: a balance stays between zero and the capacity. | |
| `NothingIsWithheld` | `RateCounter_proofs` | `NothingWithheld`, with a rate or without. | |
| `QuotaNotExceeded` | `RateCounter_proofs` | `WithinGrantedRate`. | `PlainRule` |
| `QuotaIsBucket` | `RateCounter_proofs` | `ImplementsTokenBucket`: the refinement of `TokenBucket`. | `PlainRule` |
| `GrantsTypeCorrect` | `AccessControl_proofs` | `TypeOK` of Grants. | |
| `GrantsOnceCorrect` | `AccessControl_proofs` | `CountersOncePerGrant`: any number of tasks and redeliveries create each counter of a grant once. | |
| `LatestGrantStays` | `AccessControl_proofs` | `LatestGrantActive`. | `[]OneAtATime` |
| `CountersStay` | `AccessControl_proofs` | `CountersMatchProfile`. | `[]OneAtATime` |
| `AccessTypeCorrect` | `AccessControl_proofs` | `AccessTypeOK` (no property of a run); in particular no balance is negative or overflows. | |
| `AdmittedCharged` | `AccessControl_proofs` | `AdmittedIsCharged`. | |
| `RefusedUncharged` | `AccessControl_proofs` | `RefusedNotCharged`. | |
| `WaitingEnds` | `AccessControl_proofs` | `WaitsEnd`, for any number of loops. | |
| `PlainLimitsHold` | `AccessControl_proofs` | `NeverOverspent`. | `PlainLimits` |
| `CountersFound` | `AccessControl_proofs` | `NeverMissingState`. | `OneGrantEach`, `AllUnrated` |
| `NoTokenLost` | `AccessControl_proofs` | `NothingLost`, with any rates. | `OneGrantEach` |
| `PaymentsImplementAccess` | `Handlers_proofs` | `PaySpec => Spec`: Payments implements AccessControl. | |
| `PaymentLimitsHold` | `Handlers_proofs` | `NeverOverspent` for Payments. | `PlainLimits` |
| `PaymentsLoseNothing` | `Handlers_proofs` | `NothingLost` for Payments. | `OneGrantEach` |
| `PayTypeCorrect` | `Handlers_proofs` | `PayTypeOK`. | |
| `AnswersTrue` | `Handlers_proofs` | `AnswersAreTrue`. | |
| `SpendingBounded` | `Handlers_proofs` | `SpendingWithinQuota`. | `PlainLimits`, `OneGrantEach` |
| `ControlImplementsAccess` | `Handlers_proofs` | `ControlSpec => Spec`: Control implements AccessControl. | |
| `ControlTypeCorrect` | `Handlers_proofs` | `ControlTypeOK`. | |
| `CommandsUnderGrant` | `Handlers_proofs` | `ActsUnderGrant`, for any number of loops. | |
| `FeesStay` | `Handlers_proofs` | `FeesAsSet`. | `SingleLoop` |
| `NotificationsTypeCorrect` | `Notifications_proofs` | `TypeOK` of Notifications. | |
| `SubscribedToAsked` | `Notifications_proofs` | `OnlyAsked`, for any number of loops. | |
| `CopiesSentOnce` | `Notifications_proofs` | `CopiesOnce`. | |
| `PaymentsCountedOnce` | `Notifications_proofs` | `CountedOnce`. | |
| `RoutesTypeCorrect` | `Routes_proofs` | `RoutesTypeOK`; no more routes than were asked for. | |
| `RoutesAreSound` | `Routes_proofs` | `RoutesSound`, for any network, gossip and limits. | |
| `RoutesAreSorted` | `Routes_proofs` | `RoutesSorted`. | |
| `RouteTotalsAdd` | `Routes_proofs` | `RouteTotals`. | |
| `CheapestFound` | `Routes_proofs` | `CheapestUnlessCut`: unless a path was cut for its length, a route is found exactly if there is a way, and the first is the cheapest. | |
| `PagesAgree`, `PagesCover` | `Records_proofs` | Of operators, not of a run: the two ways of cutting a page agree on every list, and a page with the pages after it is the rest of the list. | |
| `RecordsTypeCorrect` | `Records_proofs` | `RecordsTypeOK`. | |
| `AnswersMatchStores` | `Records_proofs` | `AnswerMatchesStores`. | |
| `NothingIsSkipped` | `Records_proofs` | `NothingSkipped`. | |
| `ForwardsReadInOrder` | `Records_proofs` | `ForwardsInOrder`. | |
| `EachIsListedOnce` | `Records_proofs` | `EachListedOnce`. | |

The conditions. Each one is a property of an instance that the corresponding run has,
and without it the statement is false of the code:

- `PlainRule`, `PlainLimits`: the rule, or every rule of a grant, has rate 0, the
  default. With a refill the statements are false (`MCRateCounter_rate`).
- `[]OneAtATime` (the definition of `Grants` that
  `MCAccessControl_replaced` has as a constraint): no two tasks are in the upsert of one client at the same time.
  `MCGrants_race` shows `LatestGrantActive` violated without it.
- `OneGrantEach`: no client is named by two grants. A further grant starts new
  counters by design, and a request that cloned the older profile may be refunded under
  the older rule, so what is left and what was spent are no longer of one counter.
  Redeliveries, restarts and any number of tasks remain.
- `AllUnrated`: no grant puts a rate under "ALL". One that does creates a counter that
  no request finds (`MCAccessControl_all`).
- `SingleLoop`: `main.rs` starts one service; with two, the read-modify-write of
  `set_channel_fees` loses updates.

### The argument

*Arithmetic.* `RateState_proofs` has the lemmas on the operations of a counter: each
keeps a counter in its range, a rule without a rate adds nothing with time, a
withdrawal leaves at most the balance less its amount, and a refund gives back at most
its amount. `Sums_proofs` has the sums (`SumFunctionOnSet` of the library): an
element can be taken out of a sum and put in, sums over fewer elements or of smaller
values are not greater. The library defines them by choice of a recursive unfolding,
and induction over finite sets is out of the provers' reach as a rule of
inference, so each fact is proved by a smallest counterexample: a nonempty set of
finite sets has a minimal member (`Smallest`), and that one can be reduced.
Everything else cites these two modules.

*One counter.* `CounterInv` adds to what is to be proved that an open debit fits
the signed width, so that its refund is made and not rejected. A debit takes its
amount from the balance after refilling, at least the balance before; a refund gives
all of it back unless it fills the counter. Hence what is left and what is spent
together never fall below the capacity, and without a rate they are equal to it; from
that equality the clamp never cuts a refund, which is what makes each step
one of the token bucket.

*Grants.* `GrantsInv` is the type invariant with what makes it inductive: every handle
in the two maps is the index of a cell of its kind (`MapInv`), a cell was created from
a rule of its event (`CellInv`), and a task in the middle of an upsert works on a
grant that parses and names a client (`TaskInv`). `OnceInv` adds, for
`GrantsOnceCorrect`, that a task which applies a grant owns it: no other task
applies it, the grant is no newer than the one recorded as applied, and what is
still to be created has no cell yet. That is what the recording of a grant in the
same critical section as the comparison buys. `ForceInv`, for `LatestGrantStays` and
`CountersStay`, says that the grant recorded as applied is either stored or being
applied, and of a task in an upsert how far the client's counters are (`Progress`).

*Requests.* `AccessInv` adds `ProfileInv` (a stored profile is a profile), `JobInv` and
`Apart`. `JobOK` says of a request what it has locked, charged and still covers at
each step: the heart is that at "debit" every update not yet debited is covered by
its counter, which makes the debit that follows succeed. It is inductive only with
`Apart`: no two loops hold the same counter, so nobody else changes it in
between. Acquisition in the order method, quota is a conjunct of `JobOK`, and
`WaitsEnd` follows from it: a loop that holds a counter and waits for another holds
a method counter and waits for a quota counter, and whoever holds a quota counter
waits for nothing, so a chain of waits has no third link.

`ChargeInv`, for `AdmittedCharged`, adds two layers. `Bound` follows the clone of the
profile: the rules a request has read are those of the clone, the updates collected
up to a step are those of the limits looked up by then (`Limits`), and each has the
rule and the price of its limit and a counter of its client and kind. `OwnedInv` says
that the maps hold, for a client, counters of that client, whichever grant made them. A
lookup that finds none ends the request, so none that reaches the locks has passed over
a limit; nothing is said of the age of a counter, since a replacement between the
clone and the lookup does pair old rules with new counters.

`SpentInv`, for `PlainLimitsHold`, adds to `NeverOverspent` that the stored
profiles, the grants being applied and the rules that requests have read are all
without a rate. Then no debit leaves more than the balance less its amount and no
refund adds more than its amount, whichever rule it was made under, so balance and
net debits of a cell never add up to more than at its creation.

`OnlyGrantInv`, for the theorems under `OneGrantEach`, says that the profile that is
stored is the one grant there is, that it is not applied again, and (`FitsInv`) that
the rules and counters a request holds are those of its client's profile. So a
request that has cloned a profile finds the counters it asks for (`CountersFound`).
`KeptInv`, for `NoTokenLost`, adds `Backed`: what a cell has spent is at least the sum
of the amounts of the requests that are charged to it (`ChargedTo`). It makes every
refund one of tokens that were taken, so that the spent tokens never become
negative and a refund that is clamped has filled the counter.

*Payments and commands.* `PaymentsImplementAccess` and `ControlImplementsAccess` map
each step to a step or a stutter, so every safety theorem about AccessControl carries
over. `PayInv`, for `AnswersTrue`, adds to `AnswersAreTrue` that a request is with at
most one loop and no longer awaited (`Single`), so that no other loop moves its payment,
and that an outcome is set only when the loop responds (`Concluded`). A payment that
has failed or was made never changes again, and one that is pending or unproven is
refunded only by `GiveUp` and `LookUnproven`, which put it in `disowned`. `MemoryInv`, for
`PayTypeCorrect`, adds what is remembered of each payment: a request still awaited has
none, and one that has was sent.

`SpendInv`, for `SpendingBounded`, extends `Backed` from the requests in flight to the
payments that are due: the quota cell of a client has spent at least the sum over
both, where a request moves from one to the other when its loop goes on. With
`NeverOverspent` the bound follows. It needs that the quota handle of a client names a
cell of that client (`QuotaOwned`). What the node sends is at most what was charged
(`NodeMsat`, `SpendMsat`) except for the orders that are not metered, which
`MCPayments_unmetered` is about, and a refund of a payment that may go out puts its
request in `disowned` before it takes the charge back.

`ControlInv`, for `CommandsUnderGrant`, adds to the invariant of AccessControl
`CommandOK` of each command: from its dispatch on, a grant among those stored since
its receipt allows its method, and the grant stored now is one of those. The second
part is what lets a step that reads the profile add a grant that is in the set.
`FeesInv`, for `FeesStay`, adds that what `find()` returned of a listed channel is
still so; no second loop can write between the look and the write, and the node
never re-prices a channel by itself.

*Notifications.* `CopiesInv`, for `CopiesSentOnce`, relates three places: an event is in
the queue once and on disk once (`QueuesOnce`), only the event being handled has been
told to anyone while it is still in the queue (`ToldOnlyNow`), and a client still to be
served has been sent nothing of it, or the NIP-04 copy if it is half served (`Turns`).
When an event leaves the queue it can never be first again, and a restart, which takes
the queue from disk, forgets what the process had sent. `CountInv`, for
`PaymentsCountedOnce`, says that what an offer has counted is at most the number, and
the sum, of the events of that offer that the event loop is done with (`DoneFor`), and
that the forwards recorded are distinct events it is done with.

*Routes.* `RInv` holds of every path in the heap: it starts at us,
its hops are updates the graph held, it visits no node twice, and every node but its
last has been expanded (`PathOK`). The last part is what makes an extension to a node
not yet expanded a simple path. For the order, a path in the heap costs at least as
much as any route found (`InOrder`), because fees are not negative and a pop takes
the cheapest. `CostInv` adds that the cost a path carries is the sum of its hops' fees,
a fold, of which only its step is needed.

`SearchInv`, for `CheapestFound`, is Dijkstra's argument without induction over paths.
As long as nothing was cut and no route found there is a distance for each expanded
node (`Settled`): zero for us, at most one edge more than that of an expanded
predecessor, no greater than any cost in the heap; and an edge that leaves the expanded
nodes is matched by a path in the heap that costs no more. A way from us to the
destination must leave the expanded nodes; the least hop at which it does (a least
number of a set of numbers) gives a path in the heap that is no dearer than the
way, so an empty heap leaves no way and the path that is popped at the destination
beats them all. Once it is found, `NoneCheaper` stays.

*Records.* `MakingInv`, for `AnswersMatchStores`, says that all that a request under
way would answer is stored, that the offers it stored are those it would answer, and
that what only make_bip321 can store without telling is an address.
`SkipInv`, for `NothingIsSkipped`, sorts the payments that were listed when the reading
began: one was touched, shares its second, has been seen, or is still `Ahead`, that is
alone in its second, older than the clock, and behind at least as many newer payments
as the reader has read. Its place in the list is one more than the number of newer
payments, so the next offset is at or before it; whatever arrives or moves only
adds newer payments. `HistoryInv` says that a forward keeps its place, because a new
one is appended: an ascending enumeration of a finite set is unique. `OnceInv` says that
the order of a list stays as it is unless a name comes or goes, so that the pages of
one reader are stretches of one sequence.

The proofs corrected the model in two places. The amount of a payment (`NodeMsat` and
`GivenMsat`) was written with overlapping cases, of which TLC took the first. And
the in-place filters of the lists are now `InPlace`, a function over positions,
since nothing can be proved of the recursive filter of the standard module; TLC checks
the same behaviours as before.

## 6. What is only model-checked

Liveness under fairness (`PublishedGrantActive`, `EveryRequestAnswered`,
`EveryCommandAnswered`, `QueueDrained`) and whatever rests on ENABLED are outside the
prover's reach; TLC checks them on the instances of section 3. Every other property of
a passing run has its theorem above. Deadlock freedom is checked by TLC; of it,
`WaitsEnd` is proved. `WithinGrantedRate` for a rule with a rate is no theorem: it is
false (`MCRateCounter_rate`).

## 7. What is not modelled

- *Reads.* `get_info`, `get_balance`, `estimate_onchain_fees`, the lookups,
  `list_network_nodes`, `get_network_node`, `get_network_stats`,
  `get_network_channel`, `list_channels`, `list_peers` and `get_channel_fees` compute
  a response from one read of LDK's state and change nothing; what could be said of
  them is their formatting. The hold-invoice handlers are stubs.
- *Encryption and encoding.* NIP-04 and NIP-44 are library calls; a payload that does
  not decrypt ends the handler before it touches any state, without an answer. A response that cannot
  be published is lost, after the request was executed and charged.
- *Configuration and start-up* run once: they read a file, start the node and the
  tasks.
- *Ownership.* `OWNERS` (lib.rs:87) is written and never read. Deletion events
  (kind 5) are not subscribed to (lib.rs:755), so deleting a grant at the relay has
  no behaviour either.
- *Data.* Payloads, descriptions, expiry times, currency conversions
  (`make_bip321` truncates msat to sat, lib.rs:529 multiplies sat without
  saturation), fees. What the node does with a payment sent twice is LDK's.

## 8. Plan

Done: every component that keeps or changes state, their instances, and the
theorems of section 5.

What is left, in this order:

1. Refilling rules in AccessControl, with the bound that does hold of them: each
   debit credits at most the time since the counter was created. The theorems on
   spending (`NeverOverspent`, `WithinGrantedRate`, `SpendingWithinQuota`) could then
   lose their condition on rates.
2. A client with several grants: what `NothingLost` and `SpendingWithinQuota` become
   when a grant replaces another under a request, which starts new counters by
   design.
3. Subscriptions and profiles in one model, for the notifications that a revoked
   client still receives.
