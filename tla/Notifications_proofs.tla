-------------------------- MODULE Notifications_proofs --------------------------
(****************************************************************************)
(* Theorems about node events and notifications, for any clients, offers,   *)
(* events, requests and loops: the state is well typed, no process sends a  *)
(* copy or counts a payment twice, and nobody is subscribed to what it has  *)
(* not asked for.                                                           *)
(****************************************************************************)
EXTENDS Notifications, Sums_proofs, SequenceTheorems, TLAPS

USE DEF NwcTypes, NncTypes

AnyTypes == SUBSET (NwcTypes \cup NncTypes \cup {"unknown"})
AskedOK == asked \in [Clients -> [nwc: AnyTypes, nnc: AnyTypes]]

(* The event loop holds the first event of its queue until it marks it.     *)
HoldsFirst ==
  notifier.pc # "wait" => queue # <<>> /\ notifier.event = Head(queue)

NotifyTypeInv == TypeOK /\ AskedOK /\ HoldsFirst

LEMMA EventFields ==
  ASSUME NEW e \in NodeEvents
  PROVE  /\ e.type \in NwcTypes \cup NncTypes \cup {"forwarded", "other"}
         /\ e.offer \in Offers \cup {None}
         /\ e.amount \in Nat
BY EventsAssumption

LEMMA AskFields ==
  ASSUME NEW a \in Asks
  PROVE  a.client \in Clients /\ a.by \in {"nwc", "nnc"} /\ a.types \in AnyTypes
BY AsksAssumption DEF AnyTypes

LEMMA NotNone == None \notin NodeEvents /\ None \notin Asks
BY AsksAssumption

LEMMA HeadIsFirst ==
  ASSUME NEW S, NEW s \in Seq(S), s # <<>>
  PROVE  Len(s) \in Nat /\ Len(s) > 0 /\ Head(s) = s[1] /\ s[1] \in S
BY EmptySeq, LenProperties, HeadTailProperties

LEMMA AppendKeepsHead ==
  ASSUME NEW S, NEW s \in Seq(S), NEW x \in S, s # <<>>
  PROVE  Head(Append(s, x)) = Head(s)
BY HeadIsFirst, AppendProperties

LEMMA PaymentRecorded ==
  ASSUME NEW r \in [active: BOOLEAN, num: Nat, total: Nat], NEW amount \in Nat
  PROVE  RecordPayment(r, amount) \in [active: BOOLEAN, num: Nat, total: Nat]
<1> DEFINE n == [r EXCEPT !.num = r.num + 1]
<1>1. n \in [active: BOOLEAN, num: Nat, total: Nat] /\ n.total = r.total
  OBVIOUS
<1>2. RecordPayment(r, amount) = [n EXCEPT !.total = n.total + amount]
  BY <1>1 DEF RecordPayment
<1>3. n.total + amount \in Nat
  BY <1>1
<1> HIDE DEF n
<1> QED BY <1>1, <1>2, <1>3

LEMMA TypeStep == NotifyTypeInv /\ [Next]_vars => NotifyTypeInv'
<1> SUFFICES ASSUME NotifyTypeInv, [Next]_vars PROVE NotifyTypeInv'
  OBVIOUS
<1> USE DEF NotifyTypeInv
<1>1. ASSUME NEW e \in NodeEvents, Happen(e) PROVE NotifyTypeInv'
  <2>1. queue' \in Seq(NodeEvents) /\ disk' \in Seq(NodeEvents)
    BY <1>1 DEF Happen, TypeOK
  <2>2. queue' # <<>> /\ (queue # <<>> => Head(queue') = Head(queue))
    <3>1. queue \in Seq(NodeEvents) /\ queue' = Append(queue, e)
      BY <1>1 DEF Happen, TypeOK
    <3> QED BY <3>1, AppendProperties, AppendKeepsHead
  <2> QED BY <1>1, <2>1, <2>2 DEF Happen, TypeOK, AskedOK, HoldsFirst,
                                  eventVars, askVars
<1>2. ASSUME TakeNotification PROVE NotifyTypeInv'
  <2>1. Head(queue) \in NodeEvents
    BY <1>2 DEF TakeNotification, TypeOK
  <2>2. notifier' \in [pc: {"wait", "publish", "record", "mark"},
                       event: NodeEvents \cup {None},
                       left: SUBSET Clients, half: SUBSET Clients]
        /\ notifier'.half \subseteq notifier'.left
    BY <1>2, <2>1 DEF TakeNotification, Subscribers
  <2> QED BY <1>2, <2>2 DEF TakeNotification, TypeOK, AskedOK, HoldsFirst,
                            nodeVars, askVars
<1>3. ASSUME TakeOther PROVE NotifyTypeInv'
  <2>1. Head(queue) \in NodeEvents
    BY <1>3 DEF TakeOther, TypeOK
  <2>2. forwards' \in Seq(NodeEvents)
    BY <1>3, <2>1 DEF TakeOther, TypeOK, RecordForward
  <2>3. notifier' = [pc |-> "mark", event |-> Head(queue), left |-> {},
                     half |-> {}]
    BY <1>3 DEF TakeOther, Waiting
  <2>4. HoldsFirst'
    BY <1>3, <2>3 DEF TakeOther, HoldsFirst, nodeVars
  <2>5. notifier' \in [pc: {"wait", "publish", "record", "mark"},
                       event: NodeEvents \cup {None},
                       left: SUBSET Clients, half: SUBSET Clients]
        /\ notifier'.half \subseteq notifier'.left
    BY <2>1, <2>3
  <2>6. TypeOK' /\ AskedOK'
    BY <1>3, <2>2, <2>5 DEF TakeOther, TypeOK, AskedOK, nodeVars, askVars
  <2> QED BY <2>4, <2>6
<1>4. ASSUME NEW c \in Clients, SendCopy(c) PROVE NotifyTypeInv'
  <2>1. notifier.event \in NodeEvents
    BY <1>4, HeadTailProperties DEF SendCopy, TypeOK, HoldsFirst
  <2>2. NextCopy(c) \in {"nip04", "nip44"}
    BY DEF NextCopy
  <2>3. Append(told[notifier.event][c], NextCopy(c)) \in Seq({"nip04", "nip44"})
    BY <2>1, <2>2 DEF TypeOK
  <2>4. told' \in [NodeEvents -> [Clients -> Seq({"nip04", "nip44"})]]
    BY <1>4, <2>1, <2>3 DEF SendCopy, TypeOK
  <2>5. notifier' \in [pc: {"wait", "publish", "record", "mark"},
                       event: NodeEvents \cup {None},
                       left: SUBSET Clients, half: SUBSET Clients]
        /\ notifier'.half \subseteq notifier'.left
        /\ notifier'.event = notifier.event /\ notifier'.pc = notifier.pc
    BY <1>4 DEF SendCopy, TypeOK, Turn
  <2> QED BY <1>4, <2>4, <2>5 DEF SendCopy, TypeOK, AskedOK, HoldsFirst,
                                  nodeVars, askVars
<1>5. ASSUME NEW c \in Clients, FailCopy(c) PROVE NotifyTypeInv'
  <2>1. notifier' = [pc |-> "mark", event |-> notifier.event, left |-> {},
                     half |-> {}]
    BY <1>5 DEF FailCopy, Waiting
  <2>2. HoldsFirst'
    BY <1>5, <2>1 DEF FailCopy, HoldsFirst, nodeVars
  <2>3. notifier.event \in NodeEvents \cup {None}
    BY DEF TypeOK
  <2>4. notifier' \in [pc: {"wait", "publish", "record", "mark"},
                       event: NodeEvents \cup {None},
                       left: SUBSET Clients, half: SUBSET Clients]
        /\ notifier'.half \subseteq notifier'.left
    BY <2>1, <2>3
  <2>5. TypeOK' /\ AskedOK'
    BY <1>5, <2>4 DEF FailCopy, TypeOK, AskedOK, nodeVars, askVars
  <2> QED BY <2>2, <2>5
<1>6. ASSUME EndPublish PROVE NotifyTypeInv'
  BY <1>6 DEF EndPublish, TypeOK, AskedOK, HoldsFirst, nodeVars, askVars
<1>7. ASSUME Record PROVE NotifyTypeInv'
  <2>1. notifier.event \in NodeEvents
    BY <1>7, HeadTailProperties DEF Record, TypeOK, HoldsFirst
  <2>2. offers' \in [Offers -> {None} \cup
                               [active: BOOLEAN, num: Nat, total: Nat]]
    <3> DEFINE e == notifier.event
    <3>1. CASE UNCHANGED offers
      BY <3>1 DEF TypeOK
    <3>2. CASE /\ Found(e.offer)
               /\ offers' = [offers EXCEPT ![e.offer] =
                               RecordPayment(@, e.amount)]
      <4>1. e.offer \in Offers /\ e.amount \in Nat
        BY <3>2, <2>1, EventFields DEF Found
      <4>2. offers[e.offer] \in [active: BOOLEAN, num: Nat, total: Nat]
        BY <3>2, <4>1 DEF Found, TypeOK
      <4>3. RecordPayment(offers[e.offer], e.amount)
              \in [active: BOOLEAN, num: Nat, total: Nat]
        BY <4>1, <4>2, PaymentRecorded
      <4> HIDE DEF e
      <4>4. offers \in [Offers -> {None} \cup
                                  [active: BOOLEAN, num: Nat, total: Nat]]
        BY DEF TypeOK
      <4>5. PICK r \in [active: BOOLEAN, num: Nat, total: Nat] :
              offers' = [offers EXCEPT ![e.offer] = r]
        BY <3>2, <4>3
      <4> QED BY <4>1, <4>4, <4>5
    <3> QED BY <1>7, <3>1, <3>2 DEF Record
  <2>3. /\ notifier' \in [pc: {"wait", "publish", "record", "mark"},
                          event: NodeEvents \cup {None},
                          left: SUBSET Clients, half: SUBSET Clients]
        /\ notifier'.half \subseteq notifier'.left
        /\ notifier'.event = notifier.event
    BY <1>7 DEF Record, TypeOK
  <2> QED BY <1>7, <2>2, <2>3 DEF Record, TypeOK, AskedOK, HoldsFirst,
                                  nodeVars, askVars
<1>8. ASSUME MarkHandled PROVE NotifyTypeInv'
  <2>1. queue' \in Seq(NodeEvents) /\ disk' \in Seq(NodeEvents)
    <3>1. queue \in Seq(NodeEvents) /\ queue # <<>> /\ disk \in Seq(NodeEvents)
      BY <1>8 DEF MarkHandled, TypeOK, HoldsFirst
    <3>2. Tail(queue) \in Seq(NodeEvents)
      BY <3>1, HeadTailProperties
    <3> QED BY <1>8, <3>1, <3>2 DEF MarkHandled
  <2>2. notifier' = Waiting
    BY <1>8 DEF MarkHandled
  <2> QED BY <1>8, <2>1, <2>2 DEF MarkHandled, TypeOK, AskedOK, HoldsFirst,
                                  askVars, Waiting
<1>9. ASSUME NEW l \in Loops, NEW a \in awaited, Refuse(l, a) \/ Authorize(l, a)
      PROVE NotifyTypeInv'
  BY <1>9 DEF Refuse, Authorize, Receive, TypeOK, AskedOK, HoldsFirst,
              nodeVars, eventVars
<1>10. ASSUME NEW l \in Loops, RefuseTypes(l) PROVE NotifyTypeInv'
  BY <1>10 DEF RefuseTypes, TypeOK, AskedOK, HoldsFirst, nodeVars, eventVars
<1>11. ASSUME NEW l \in Loops, Subscribe(l) PROVE NotifyTypeInv'
  <2> DEFINE a == asking[l]
  <2>1. a \in Asks
    BY <1>11 DEF Subscribe, TypeOK
  <2>2. a.client \in Clients /\ a.by \in {"nwc", "nnc"} /\ a.types \in AnyTypes
    BY <2>1, AskFields
  <2>3. a.types \in SUBSET (NwcTypes \cup NncTypes)
    BY <1>11, <2>2 DEF Subscribe, Known
  <2>4. subscriptions' \in [Clients -> SUBSET (NwcTypes \cup NncTypes)]
    BY <1>11, <2>2, <2>3 DEF Subscribe, Replaced, TypeOK
  <2>5. asked' \in [Clients -> [nwc: AnyTypes, nnc: AnyTypes]]
    <3> HIDE DEF a
    <3>1. asked' = [asked EXCEPT ![a.client][a.by] = a.types]
      BY <1>11 DEF Subscribe, a
    <3>2. CASE a.by = "nwc"
      BY <3>1, <3>2, <2>2 DEF AskedOK
    <3>3. CASE a.by = "nnc"
      BY <3>1, <3>3, <2>2 DEF AskedOK
    <3> QED BY <2>2, <3>2, <3>3
  <2> QED BY <1>11, <2>4, <2>5 DEF Subscribe, TypeOK, AskedOK, HoldsFirst,
                                   nodeVars, eventVars
<1>12. ASSUME NEW o \in Offers, MakeOffer(o) \/ DisableOffer(o)
       PROVE NotifyTypeInv'
  <2>1. offers' \in [Offers -> {None} \cup
                               [active: BOOLEAN, num: Nat, total: Nat]]
        /\ made' \in SUBSET Offers
    <3>1. CASE MakeOffer(o)
      BY <3>1 DEF MakeOffer, NewOffer, TypeOK
    <3>2. CASE DisableOffer(o)
      <4>1. offers[o] \in [active: BOOLEAN, num: Nat, total: Nat]
        BY <3>2 DEF DisableOffer, TypeOK
      <4>2. Disabled(offers[o]) \in [active: BOOLEAN, num: Nat, total: Nat]
        BY <4>1 DEF Disabled
      <4> QED BY <3>2, <4>2 DEF DisableOffer, TypeOK
    <3> QED BY <1>12, <3>1, <3>2
  <2>2. UNCHANGED <<nodeVars, eventVars, askVars>>
    BY <1>12 DEF MakeOffer, DisableOffer
  <2> QED BY <2>1, <2>2 DEF TypeOK, AskedOK, HoldsFirst, nodeVars, eventVars,
                            askVars
<1>13. ASSUME Restart PROVE NotifyTypeInv'
  <2>1. told' \in [NodeEvents -> [Clients -> Seq({"nip04", "nip44"})]]
    BY <1>13 DEF Restart, NothingTold
  <2>2. notifier' = Waiting /\ forwards' = <<>>
    BY <1>13 DEF Restart
  <2> QED BY <1>13, <2>1, <2>2 DEF Restart, NoSubscription, NothingAsked,
            NoOffers, Waiting, TypeOK, AskedOK, AnyTypes, HoldsFirst
<1>14. ASSUME UNCHANGED vars PROVE NotifyTypeInv'
  BY <1>14 DEF vars, nodeVars, eventVars, askVars, TypeOK, AskedOK, HoldsFirst
<1> QED BY <1>1, <1>2, <1>3, <1>4, <1>5, <1>6, <1>7, <1>8, <1>9, <1>10, <1>11,
           <1>12, <1>13, <1>14 DEF Next, Notify

LEMMA TypeStart == Init => NotifyTypeInv
<1> SUFFICES ASSUME Init PROVE NotifyTypeInv
  OBVIOUS
<1>1. told \in [NodeEvents -> [Clients -> Seq({"nip04", "nip44"})]]
  BY DEF Init, NothingTold
<1> QED BY <1>1 DEF Init, NotifyTypeInv, TypeOK, AskedOK, HoldsFirst, Waiting,
           NoSubscription, NothingAsked, AnyTypes, NoOffers

LEMMA AlwaysTyped == Spec => []NotifyTypeInv
BY TypeStart, TypeStep, PTL DEF Spec

(* The stores, the event loop, the node's queue and the requests are well   *)
(* typed whatever fails and whenever the process restarts; in particular    *)
(* what is stored of a subscription are known types, and a client for whom  *)
(* one copy was sent is still to be served (lib.rs:3300-3342, 3663-3702).   *)
THEOREM NotificationsTypeCorrect == Spec => []TypeOK
<1>1. NotifyTypeInv => TypeOK
  BY DEF NotifyTypeInv
<1> QED BY <1>1, AlwaysTyped, PTL

----------------------------------------------------------------------------
(* Subscriptions: one action writes both what is stored and what was asked. *)

LEMMA OnlyAskedStep ==
  NotifyTypeInv /\ OnlyAsked /\ [Next]_vars => OnlyAsked'
<1> SUFFICES ASSUME NotifyTypeInv, OnlyAsked, [Next]_vars PROVE OnlyAsked'
  OBVIOUS
<1>1. ASSUME NEW l \in Loops, Subscribe(l) PROVE OnlyAsked'
  <2> SUFFICES ASSUME NEW c \in Clients
               PROVE  subscriptions'[c] \subseteq asked'[c].nwc \cup asked'[c].nnc
    BY DEF OnlyAsked
  <2> DEFINE a == asking[l]
  <2>1. a \in Asks
    BY <1>1 DEF Subscribe, NotifyTypeInv, TypeOK
  <2>2. a.client \in Clients /\ a.by \in {"nwc", "nnc"}
    BY <2>1, AskFields
  <2>3. /\ subscriptions' = [subscriptions EXCEPT ![a.client] = a.types]
        /\ asked' = [asked EXCEPT ![a.client][a.by] = a.types]
    BY <1>1 DEF Subscribe, Replaced
  <2>4. /\ subscriptions \in [Clients -> SUBSET (NwcTypes \cup NncTypes)]
        /\ asked \in [Clients -> [nwc: AnyTypes, nnc: AnyTypes]]
    BY DEF NotifyTypeInv, TypeOK, AskedOK
  <2>5. subscriptions[c] \subseteq asked[c].nwc \cup asked[c].nnc
    BY DEF OnlyAsked
  <2> HIDE DEF a
  <2>6. CASE c # a.client
    BY <2>2, <2>3, <2>4, <2>5, <2>6
  <2>7. CASE c = a.client /\ a.by = "nwc"
    BY <2>2, <2>3, <2>4, <2>7
  <2>8. CASE c = a.client /\ a.by = "nnc"
    BY <2>2, <2>3, <2>4, <2>8
  <2> QED BY <2>2, <2>6, <2>7, <2>8
<1>2. ASSUME Restart PROVE OnlyAsked'
  BY <1>2 DEF Restart, NoSubscription, NothingAsked, OnlyAsked
<1>3. CASE UNCHANGED <<subscriptions, asked>>
  BY <1>3 DEF OnlyAsked
<1>4. ASSUME NEW l \in Loops, NEW a \in awaited, Refuse(l, a) \/ Authorize(l, a)
      PROVE UNCHANGED <<subscriptions, asked>>
  BY <1>4 DEF Refuse, Authorize
<1>5. ASSUME NEW l \in Loops, RefuseTypes(l)
      PROVE UNCHANGED <<subscriptions, asked>>
  BY <1>5 DEF RefuseTypes
<1>6. ASSUME \/ \E e \in NodeEvents : Happen(e)
             \/ Notify
             \/ \E o \in Offers : MakeOffer(o) \/ DisableOffer(o)
             \/ UNCHANGED vars
      PROVE UNCHANGED <<subscriptions, asked>>
  BY <1>6 DEF Happen, Notify, TakeNotification, TakeOther, SendCopy, FailCopy,
     EndPublish, Record, MarkHandled, MakeOffer, DisableOffer, vars, askVars
<1> QED BY <1>1, <1>2, <1>3, <1>4, <1>5, <1>6 DEF Next

(* For any clients and any number of loops that handle their requests at    *)
(* once, what is stored for a client is never more than its last accepted   *)
(* request of each channel asks for (subscription_store.rs:13-24).          *)
THEOREM SubscribedToAsked == Spec => []OnlyAsked
<1>1. Init => OnlyAsked
  BY DEF Init, OnlyAsked, NoSubscription, NothingAsked
<1> QED BY <1>1, OnlyAskedStep, AlwaysTyped, PTL DEF Spec

----------------------------------------------------------------------------
(* Copies: a process sends them for the first event of its queue only, and  *)
(* no event is in the queue twice.                                          *)

In(e, s) == \E i \in 1..Len(s) : s[i] = e
Distinct(s) == \A i, j \in 1..Len(s) : s[i] = s[j] => i = j

(* What may have been sent of an event, and what has been sent to a client  *)
(* that is still to be served.                                              *)
Sent(e) == IF e.type \in NwcTypes
           THEN {<<>>, <<"nip04">>, <<"nip04", "nip44">>}
           ELSE {<<>>, <<"nip44">>}
SentBefore(c) == IF c \in notifier.half THEN <<"nip04">> ELSE <<>>

QueuesOnce ==
  /\ Distinct(queue) /\ \A e \in NodeEvents : In(e, queue) => e \in arrived
  /\ Distinct(disk) /\ \A e \in NodeEvents : In(e, disk) => e \in arrived
ToldOnlyNow ==
  \A e \in NodeEvents, c \in Clients :
    told[e][c] # <<>> /\ In(e, queue) =>
      notifier.pc # "wait" /\ notifier.event = e
Turns ==
  notifier.pc = "publish" =>
    /\ notifier.event.type \in NwcTypes \/ notifier.half = {}
    /\ notifier.half # {} => \E c \in Clients : notifier.half = {c}
    /\ \A c \in notifier.left : told[notifier.event][c] = SentBefore(c)
ToldInOrder == \A e \in NodeEvents, c \in Clients : told[e][c] \in Sent(e)
Arrived == \A e \in NodeEvents, c \in Clients : told[e][c] # <<>> => e \in arrived

CopiesInv == QueuesOnce /\ ToldOnlyNow /\ Turns /\ ToldInOrder /\ Arrived

LEMMA ShortSeqs ==
  ASSUME NEW S, NEW a \in S, NEW b \in S
  PROVE  <<>> \in Seq(S) /\ <<a>> \in Seq(S) /\ <<a, b>> \in Seq(S)
OBVIOUS

LEMMA ShortSeqElements ==
  ASSUME NEW a, NEW b
  PROVE  /\ Len(<<a>>) = 1 /\ Len(<<a, b>>) = 2
         /\ <<a>>[1] = a /\ <<a, b>>[1] = a /\ <<a, b>>[2] = b
OBVIOUS

LEMMA AppendToOne ==
  ASSUME NEW a, NEW b
  PROVE  Append(<<a>>, b) = <<a, b>>
<1> DEFINE S == {a, b}
           s == Append(<<a>>, b)
           t == <<a, b>>
<1>1. s \in Seq(S) /\ t \in Seq(S)
  BY ShortSeqs, AppendProperties
<1>2. Len(s) = 2 /\ s[1] = a /\ s[2] = b
  BY ShortSeqs, ShortSeqElements, AppendProperties
<1>3. Len(t) = 2 /\ t[1] = a /\ t[2] = b
  BY ShortSeqElements
<1> HIDE DEF s, t, S
<1>4. Len(s) = Len(t) /\ \A i \in 1..Len(s) : s[i] = t[i]
  BY <1>2, <1>3
<1>5. s = t
  BY <1>1, <1>4, SeqEqual
<1> QED BY <1>5 DEF s, t

LEMMA PrefixOfTwo ==
  ASSUME NEW a, NEW b, NEW s, s = <<a, b>>, NEW t,
         t = <<>> \/ t = <<a>> \/ t = <<a, b>>
  PROVE  Len(t) <= Len(s) /\ \A i \in 1..Len(t) : t[i] = s[i]
<1>1. CASE t = <<>>
  BY <1>1, ShortSeqElements
<1>2. CASE t = <<a>>
  BY <1>2, ShortSeqElements
<1>3. CASE t = <<a, b>>
  BY <1>3, ShortSeqElements
<1> QED BY <1>1, <1>2, <1>3

LEMMA PrefixOfOne ==
  ASSUME NEW a, NEW s, s = <<a>>, NEW t, t = <<>> \/ t = <<a>>
  PROVE  Len(t) <= Len(s) /\ \A i \in 1..Len(t) : t[i] = s[i]
<1>1. CASE t = <<>>
  BY <1>1, ShortSeqElements
<1>2. CASE t = <<a>>
  BY <1>2, ShortSeqElements
<1> QED BY <1>1, <1>2

LEMMA HeadIsIn ==
  ASSUME NEW S, NEW s \in Seq(S), s # <<>>
  PROVE  In(Head(s), s)
BY HeadIsFirst DEF In

LEMMA TailOfDistinct ==
  ASSUME NEW S, NEW s \in Seq(S), s # <<>>, Distinct(s)
  PROVE  /\ Distinct(Tail(s))
         /\ ~In(Head(s), Tail(s))
         /\ \A e : In(e, Tail(s)) => In(e, s)
<1>1. /\ Len(s) \in Nat /\ Len(s) > 0 /\ Head(s) = s[1]
      /\ Len(Tail(s)) = Len(s) - 1
      /\ \A i \in 1..Len(Tail(s)) : Tail(s)[i] = s[i + 1]
  BY HeadIsFirst, HeadTailProperties
<1>2. \A i \in 1..Len(Tail(s)) : i + 1 \in 1..Len(s) /\ i + 1 # 1
  BY <1>1
<1>3. Distinct(Tail(s))
  BY <1>1, <1>2 DEF Distinct
<1>4. ~In(Head(s), Tail(s))
  BY <1>1, <1>2 DEF Distinct, In
<1>5. \A e : In(e, Tail(s)) => In(e, s)
  BY <1>1, <1>2 DEF In
<1> QED BY <1>3, <1>4, <1>5

LEMMA AppendNew ==
  ASSUME NEW S, NEW s \in Seq(S), NEW x \in S, ~In(x, s), Distinct(s)
  PROVE  /\ Distinct(Append(s, x))
         /\ \A e : In(e, Append(s, x)) => In(e, s) \/ e = x
<1>1. /\ Len(s) \in Nat /\ Len(Append(s, x)) = Len(s) + 1
      /\ \A i \in 1..Len(s) : Append(s, x)[i] = s[i]
      /\ Append(s, x)[Len(s) + 1] = x
  BY AppendProperties, LenProperties
<1>2. \A i \in 1..Len(s) + 1 : i \in 1..Len(s) \/ i = Len(s) + 1
  BY <1>1
<1> QED BY <1>1, <1>2 DEF Distinct, In

LEMMA CopiesStart == Init => CopiesInv
BY DEF Init, CopiesInv, QueuesOnce, ToldOnlyNow, Turns, ToldInOrder, Arrived,
       Distinct, In, Waiting, NothingTold, Sent

LEMMA CopiesStep ==
  NotifyTypeInv /\ CopiesInv /\ [Next]_vars => CopiesInv'
<1> SUFFICES ASSUME NotifyTypeInv, CopiesInv, [Next]_vars PROVE CopiesInv'
  OBVIOUS
<1> USE DEF CopiesInv
<1>t. /\ queue \in Seq(NodeEvents) /\ disk \in Seq(NodeEvents)
      /\ told \in [NodeEvents -> [Clients -> Seq({"nip04", "nip44"})]]
      /\ notifier.left \in SUBSET Clients /\ notifier.half \in SUBSET Clients
      /\ HoldsFirst
  BY DEF NotifyTypeInv, TypeOK
<1>e. notifier.pc # "wait" =>
        /\ queue # <<>> /\ notifier.event = Head(queue)
        /\ notifier.event \in NodeEvents /\ In(notifier.event, queue)
  <2> SUFFICES ASSUME notifier.pc # "wait"
               PROVE  /\ queue # <<>> /\ notifier.event = Head(queue)
                      /\ notifier.event \in NodeEvents
                      /\ In(notifier.event, queue)
    OBVIOUS
  <2>1. queue # <<>> /\ notifier.event = Head(queue)
    BY <1>t DEF HoldsFirst
  <2> QED BY <2>1, <1>t, HeadIsIn, HeadTailProperties
<1>1. ASSUME NEW e \in NodeEvents, Happen(e) PROVE CopiesInv'
  <2>1. /\ e \notin arrived /\ arrived' = arrived \cup {e}
        /\ queue' = Append(queue, e) /\ disk' = Append(queue, e)
        /\ notifier' = notifier /\ told' = told
    BY <1>1 DEF Happen, eventVars
  <2>2. ~In(e, queue)
    BY <2>1 DEF QueuesOnce
  <2>3. /\ Distinct(queue')
        /\ \A f : In(f, queue') => In(f, queue) \/ f = e
    BY <2>1, <2>2, <1>t, AppendNew DEF QueuesOnce
  <2>4. QueuesOnce'
    BY <2>1, <2>3 DEF QueuesOnce
  <2>5. ToldOnlyNow'
    BY <2>1, <2>3 DEF ToldOnlyNow, Arrived
  <2>6. Turns' /\ ToldInOrder' /\ Arrived'
    BY <2>1 DEF Turns, SentBefore, ToldInOrder, Arrived
  <2> QED BY <2>4, <2>5, <2>6
<1>2. ASSUME TakeNotification PROVE CopiesInv'
  <2>1. /\ notifier.pc = "wait" /\ queue # <<>>
        /\ notifier' = [pc |-> "publish", event |-> Head(queue),
                        left |-> Subscribers(Head(queue).type), half |-> {}]
        /\ told' = told /\ queue' = queue /\ disk' = disk /\ arrived' = arrived
    BY <1>2 DEF TakeNotification, nodeVars
  <2>2. Head(queue) \in NodeEvents /\ In(Head(queue), queue)
    BY <2>1, <1>t, HeadIsIn, HeadTailProperties
  <2>3. \A f \in NodeEvents, c \in Clients : told[f][c] # <<>> => ~In(f, queue)
    BY <2>1 DEF ToldOnlyNow
  <2>4. \A c \in notifier'.left : c \in Clients
    BY <2>1 DEF Subscribers
  <2>5. Turns'
    BY <2>1, <2>2, <2>3, <2>4 DEF Turns, SentBefore
  <2>6. QueuesOnce' /\ ToldOnlyNow' /\ ToldInOrder' /\ Arrived'
    BY <2>1, <2>3 DEF QueuesOnce, ToldOnlyNow, ToldInOrder, Arrived
  <2> QED BY <2>5, <2>6
<1>3. ASSUME TakeOther PROVE CopiesInv'
  <2>1. /\ notifier.pc = "wait"
        /\ notifier' = [pc |-> "mark", event |-> Head(queue), left |-> {},
                        half |-> {}]
        /\ told' = told /\ queue' = queue /\ disk' = disk /\ arrived' = arrived
    BY <1>3 DEF TakeOther, nodeVars, Waiting
  <2> QED BY <2>1 DEF QueuesOnce, ToldOnlyNow, Turns, ToldInOrder, Arrived
<1>4. ASSUME NEW c \in Clients, SendCopy(c) PROVE CopiesInv'
  <2> DEFINE e == notifier.event
  <2>1. /\ notifier.pc = "publish" /\ Turn(c)
        /\ told' = [told EXCEPT ![e][c] = Append(@, NextCopy(c))]
        /\ queue' = queue /\ disk' = disk /\ arrived' = arrived
        /\ notifier'.pc = "publish" /\ notifier'.event = e
    BY <1>4 DEF SendCopy, nodeVars, NotifyTypeInv, TypeOK
  <2>2. e \in NodeEvents /\ In(e, queue) /\ c \in notifier.left
    BY <2>1, <1>e DEF Turn
  <2>3. told[e][c] = SentBefore(c)
    BY <2>1, <2>2 DEF Turns
  <2>4. /\ \A f \in NodeEvents, d \in Clients :
             f # e \/ d # c => told'[f][d] = told[f][d]
        /\ told'[e][c] = Append(told[e][c], NextCopy(c))
    BY <2>1, <2>2, <1>t
  <2>5. CASE NextCopy(c) = "nip04"
    <3>1. e.type \in NwcTypes /\ c \notin notifier.half
      BY <2>5 DEF NextCopy
    <3>2. /\ notifier'.half = {c} /\ notifier'.left = notifier.left
          /\ notifier.half = {} /\ told'[e][c] = <<"nip04">>
      BY <1>4, <2>1, <2>3, <2>4, <2>5, <3>1
         DEF SendCopy, Turn, SentBefore, NotifyTypeInv, TypeOK
    <3>3. Turns'
      BY <2>1, <2>2, <2>4, <3>1, <3>2, <1>t DEF Turns, SentBefore
    <3>4. told'[e][c] \in Sent(e)
      BY <3>1, <3>2 DEF Sent
    <3> QED BY <2>1, <2>2, <2>4, <3>3, <3>4
            DEF QueuesOnce, ToldOnlyNow, ToldInOrder, Arrived
  <2>6. CASE NextCopy(c) # "nip04"
    <3>1. NextCopy(c) = "nip44"
      BY <2>6 DEF NextCopy
    <3>2. /\ notifier'.half = {} /\ notifier'.left = notifier.left \ {c}
          /\ notifier.half \subseteq {c}
      <4>1. notifier'.half = {} /\ notifier'.left = notifier.left \ {c}
        BY <1>4, <2>6 DEF SendCopy, NotifyTypeInv, TypeOK
      <4>2. notifier.half \subseteq {c}
        BY <2>1 DEF Turns, Turn
      <4> QED BY <4>1, <4>2
    <3>3. Turns'
      BY <2>1, <2>2, <2>4, <3>2, <1>t DEF Turns, SentBefore
    <3>4. told'[e][c] \in Sent(e)
      <4>1. CASE c \in notifier.half
        <5>1. e.type \in NwcTypes
          BY <2>1, <4>1 DEF Turns
        <5>2. told'[e][c] = <<"nip04", "nip44">>
          <6>1. told[e][c] = <<"nip04">>
            BY <2>3, <4>1 DEF SentBefore
          <6>2. told'[e][c] = Append(<<"nip04">>, "nip44")
            BY <2>4, <3>1, <6>1
          <6> QED BY <6>2, AppendToOne
        <5> HIDE DEF e
        <5>3. Sent(e) = {<<>>, <<"nip04">>, <<"nip04", "nip44">>}
          BY <5>1 DEF Sent
        <5> QED BY <5>2, <5>3, Zenon
      <4>2. CASE c \notin notifier.half
        <5>1. e.type \notin NwcTypes
          BY <2>6, <4>2 DEF NextCopy
        <5>2. told'[e][c] = <<"nip44">>
          BY <2>3, <2>4, <3>1, <4>2 DEF SentBefore
        <5> QED BY <5>1, <5>2 DEF Sent
      <4> QED BY <4>1, <4>2
    <3> QED BY <2>1, <2>2, <2>4, <3>3, <3>4
            DEF QueuesOnce, ToldOnlyNow, ToldInOrder, Arrived
  <2> QED BY <2>5, <2>6
<1>5. ASSUME NEW c \in Clients, FailCopy(c) PROVE CopiesInv'
  <2>1. /\ notifier.pc = "publish"
        /\ notifier' = [pc |-> "mark", event |-> notifier.event, left |-> {},
                        half |-> {}]
        /\ told' = told /\ queue' = queue /\ disk' = disk /\ arrived' = arrived
    BY <1>5 DEF FailCopy, nodeVars, Waiting
  <2> QED BY <2>1 DEF QueuesOnce, ToldOnlyNow, Turns, ToldInOrder, Arrived
<1>6. ASSUME EndPublish \/ Record PROVE CopiesInv'
  <2>1. /\ notifier.pc # "wait" /\ notifier'.event = notifier.event
        /\ notifier'.pc \in {"record", "mark"}
        /\ told' = told /\ queue' = queue /\ disk' = disk /\ arrived' = arrived
    BY <1>6 DEF EndPublish, Record, nodeVars, NotifyTypeInv, TypeOK
  <2> QED BY <2>1 DEF QueuesOnce, ToldOnlyNow, Turns, ToldInOrder, Arrived
<1>7. ASSUME MarkHandled PROVE CopiesInv'
  <2>1. /\ notifier.pc = "mark" /\ notifier'.pc = "wait"
        /\ queue' = Tail(queue) /\ disk' \in {Tail(queue), disk}
        /\ told' = told /\ arrived' = arrived
    BY <1>7 DEF MarkHandled, Waiting
  <2>2. /\ Distinct(Tail(queue)) /\ ~In(notifier.event, Tail(queue))
        /\ \A f : In(f, Tail(queue)) => In(f, queue)
    BY <2>1, <1>e, <1>t, TailOfDistinct DEF QueuesOnce
  <2>3. QueuesOnce'
    BY <2>1, <2>2 DEF QueuesOnce
  <2>4. ToldOnlyNow'
    BY <2>1, <2>2 DEF ToldOnlyNow
  <2>5. Turns' /\ ToldInOrder' /\ Arrived'
    BY <2>1 DEF Turns, ToldInOrder, Arrived
  <2> QED BY <2>3, <2>4, <2>5
<1>8. CASE UNCHANGED <<nodeVars, eventVars>>
  BY <1>8 DEF nodeVars, eventVars, QueuesOnce, ToldOnlyNow, Turns, SentBefore,
              ToldInOrder, Arrived
<1>9. ASSUME \/ \E l \in Loops : \/ \E a \in awaited : Refuse(l, a)
                                                       \/ Authorize(l, a)
                                 \/ RefuseTypes(l) \/ Subscribe(l)
             \/ \E o \in Offers : MakeOffer(o) \/ DisableOffer(o)
             \/ UNCHANGED vars
      PROVE  UNCHANGED <<nodeVars, eventVars>>
  BY <1>9 DEF Refuse, Authorize, RefuseTypes, Subscribe, MakeOffer,
              DisableOffer, vars
<1>10. ASSUME Restart PROVE CopiesInv'
  <2>1. /\ notifier'.pc = "wait" /\ told' = NothingTold
        /\ queue' = disk /\ disk' = disk /\ arrived' = arrived
    BY <1>10 DEF Restart, Waiting
  <2>2. \A e \in NodeEvents, c \in Clients : told'[e][c] = <<>>
    BY <2>1 DEF NothingTold
  <2> QED BY <2>1, <2>2 DEF QueuesOnce, ToldOnlyNow, Turns, ToldInOrder,
                            Arrived, Sent
<1> QED BY <1>1, <1>2, <1>3, <1>4, <1>5, <1>6, <1>7, <1>8, <1>9, <1>10
        DEF Next, Notify

LEMMA PrefixIsSubSeq ==
  ASSUME NEW S, NEW s \in Seq(S), NEW t \in Seq(S), Len(t) <= Len(s),
         \A i \in 1..Len(t) : t[i] = s[i]
  PROVE  t = SubSeq(s, 1, Len(t))
<1> DEFINE n == Len(t)
           u == SubSeq(s, 1, n)
<1>1. n \in Nat /\ Len(s) \in Nat
  BY LenProperties
<1>2. \A i \in 1..n : s[i] \in S
  BY <1>1, ElementOfSeq
<1>3. /\ u \in Seq(S) /\ Len(u) = IF 1 <= n THEN n - 1 + 1 ELSE 0
      /\ \A i \in 1..n - 1 + 1 : u[i] = s[1 + i - 1]
  <2> HIDE DEF n
  <2> QED BY <1>1, <1>2, SubSeqProperties
<1> HIDE DEF u
<1>4. Len(u) = Len(t) /\ \A i \in 1..Len(t) : t[i] = u[i]
  BY <1>1, <1>3
<1>5. t = u
  BY <1>3, <1>4, SeqEqual
<1> QED BY <1>5 DEF u

LEMMA SentIsPrefix ==
  ASSUME NEW e \in NodeEvents, NEW t \in Sent(e)
  PROVE  \E n \in 0..Len(Copies(e)) : t = SubSeq(Copies(e), 1, n)
<1> DEFINE s == Copies(e)
           S == {"nip04", "nip44"}
<1>1. s \in Seq(S) /\ t \in Seq(S)
  <2>1. s = <<"nip04", "nip44">> \/ s = <<"nip44">>
    BY DEF Copies
  <2>2. t = <<>> \/ t = <<"nip04">> \/ t = <<"nip04", "nip44">> \/ t = <<"nip44">>
    BY DEF Sent
  <2> HIDE DEF s
  <2>3. "nip04" \in S /\ "nip44" \in S
    OBVIOUS
  <2> HIDE DEF S
  <2> QED BY <2>1, <2>2, <2>3, ShortSeqs
<1>2. Len(t) <= Len(s) /\ \A i \in 1..Len(t) : t[i] = s[i]
  <2>1. CASE e.type \in NwcTypes
    <3>1. s = <<"nip04", "nip44">>
      BY <2>1 DEF Copies
    <3>2. t = <<>> \/ t = <<"nip04">> \/ t = <<"nip04", "nip44">>
      BY <2>1 DEF Sent
    <3> HIDE DEF s
    <3> QED BY <3>1, <3>2, PrefixOfTwo
  <2>2. CASE e.type \notin NwcTypes
    <3>1. s = <<"nip44">>
      BY <2>2 DEF Copies
    <3>2. t = <<>> \/ t = <<"nip44">>
      BY <2>2 DEF Sent
    <3> HIDE DEF s
    <3> QED BY <3>1, <3>2, PrefixOfOne
  <2> QED BY <2>1, <2>2
<1> HIDE DEF s, S
<1>3. t = SubSeq(s, 1, Len(t))
  BY <1>1, <1>2, PrefixIsSubSeq
<1>4. Len(t) \in 0..Len(s)
  BY <1>1, <1>2, LenProperties
<1> QED BY <1>3, <1>4 DEF s

(* For any events, clients and requests, and whatever copies fail, a        *)
(* process sends each client of an event the NIP-04 copy and then the       *)
(* NIP-44 one, neither twice (lib.rs:845-860, 3663-3702).                   *)
THEOREM CopiesSentOnce == Spec => []CopiesOnce
<1>1. CopiesInv => CopiesOnce
  BY SentIsPrefix DEF CopiesInv, ToldInOrder, CopiesOnce
<1> QED BY <1>1, CopiesStart, CopiesStep, AlwaysTyped, PTL DEF Spec

(****************************************************************************)
(* Counts: what the stores have counted in this process are events that the *)
(* event loop is done with.  They are out of the queue, or about to be, and *)
(* come back only with a restart, which empties the stores.                 *)

IsDone(e) == ~In(e, queue) \/ (notifier.pc = "mark" /\ notifier.event = e)
Done == {e \in arrived : IsDone(e)}
DoneFor(o) == {e \in Done : e.offer = o}
Amount == [e \in NodeEvents |-> e.amount]

OffersCounted ==
  \A o \in Offers : offers[o] # None =>
    /\ offers[o].num <= Cardinality(DoneFor(o))
    /\ offers[o].total <= SumFunctionOnSet(Amount, DoneFor(o))
ForwardsCounted ==
  Distinct(forwards) /\ \A e \in NodeEvents : In(e, forwards) => e \in Done

CountInv == IsFiniteSet(arrived) /\ OffersCounted /\ ForwardsCounted

(* A larger set of events has as many members, and as much to pay.          *)
LEMMA MoreCount ==
  ASSUME NEW S \in SUBSET NodeEvents, IsFiniteSet(S), NEW T \in SUBSET S
  PROVE  /\ Cardinality(T) \in Nat /\ Cardinality(S) \in Nat
         /\ SumFunctionOnSet(Amount, T) \in Nat
         /\ SumFunctionOnSet(Amount, S) \in Nat
         /\ Cardinality(T) <= Cardinality(S)
         /\ SumFunctionOnSet(Amount, T) <= SumFunctionOnSet(Amount, S)
<1>1. IsFiniteSet(T) /\ Cardinality(T) <= Cardinality(S)
  BY FS_Subset
<1>2. Cardinality(T) \in Nat /\ Cardinality(S) \in Nat
  BY <1>1, FS_CardinalityType
<1>3. \A e \in S : Amount[e] \in Nat
  BY EventFields DEF Amount
<1>4. SumFunctionOnSet(Amount, T) <= SumFunctionOnSet(Amount, S)
  BY <1>3, SumOfMore
<1>5. SumFunctionOnSet(Amount, S) \in Nat
  BY <1>3, SumType
<1>6. SumFunctionOnSet(Amount, T) \in Nat
  <2>1. \A e \in T : Amount[e] \in Nat
    BY <1>3
  <2> QED BY <1>1, <2>1, SumType
<1> QED BY <1>1, <1>2, <1>4, <1>5, <1>6

(* The event that is handled is arrived and in the queue.                   *)
LEMMA HeldEvent ==
  ASSUME NotifyTypeInv, QueuesOnce, notifier.pc # "wait"
  PROVE  /\ queue # <<>> /\ notifier.event = Head(queue)
         /\ notifier.event \in NodeEvents /\ In(notifier.event, queue)
         /\ notifier.event \in arrived
<1>1. queue # <<>> /\ notifier.event = Head(queue) /\ queue \in Seq(NodeEvents)
  BY DEF NotifyTypeInv, HoldsFirst, TypeOK
<1>2. notifier.event \in NodeEvents /\ In(notifier.event, queue)
  BY <1>1, HeadIsIn, HeadTailProperties
<1> QED BY <1>1, <1>2 DEF QueuesOnce

(* Nothing that is done is forgotten before a restart.                      *)
LEMMA DoneGrows ==
  ASSUME NotifyTypeInv, QueuesOnce, Next, ~Restart
  PROVE  Done \subseteq Done'
<1>t. queue \in Seq(NodeEvents) /\ notifier.pc \in {"wait", "publish", "record", "mark"}
  BY DEF NotifyTypeInv, TypeOK
<1>1. ASSUME NEW e \in NodeEvents, Happen(e) PROVE Done \subseteq Done'
  <2>1. /\ e \notin arrived /\ arrived' = arrived \cup {e}
        /\ queue' = Append(queue, e) /\ notifier' = notifier
    BY <1>1 DEF Happen, eventVars
  <2>2. \A f : In(f, queue') => In(f, queue) \/ f = e
    BY <2>1, <1>t, AppendNew DEF QueuesOnce
  <2> QED BY <2>1, <2>2 DEF Done, IsDone
<1>2. ASSUME MarkHandled PROVE Done \subseteq Done'
  <2>1. notifier.pc = "mark" /\ queue' = Tail(queue) /\ arrived' = arrived
    BY <1>2 DEF MarkHandled
  <2>2. queue # <<>> /\ notifier.event = Head(queue)
    BY <2>1, HeldEvent
  <2>3. ~In(notifier.event, queue') /\ \A f : In(f, queue') => In(f, queue)
    BY <2>1, <2>2, <1>t, TailOfDistinct DEF QueuesOnce
  <2> QED BY <2>1, <2>3 DEF Done, IsDone
<1>3. ASSUME TakeNotification \/ TakeOther \/ EndPublish \/ Record
             \/ \E c \in Clients : SendCopy(c) \/ FailCopy(c)
      PROVE  Done \subseteq Done'
  <2>1. notifier.pc # "mark" /\ queue' = queue /\ arrived' = arrived
    BY <1>3 DEF TakeNotification, TakeOther, EndPublish, Record, SendCopy,
                FailCopy, nodeVars
  <2> QED BY <2>1 DEF Done, IsDone
<1>4. ASSUME \/ \E l \in Loops : \/ \E a \in awaited : Refuse(l, a)
                                                       \/ Authorize(l, a)
                                 \/ RefuseTypes(l) \/ Subscribe(l)
             \/ \E o \in Offers : MakeOffer(o) \/ DisableOffer(o)
      PROVE  Done \subseteq Done'
  <2>1. UNCHANGED <<nodeVars, eventVars>>
    BY <1>4 DEF Refuse, Authorize, RefuseTypes, Subscribe, MakeOffer,
                DisableOffer
  <2> QED BY <2>1 DEF nodeVars, eventVars, Done, IsDone
<1> QED BY <1>1, <1>2, <1>3, <1>4 DEF Next, Notify

LEMMA DoneFinite ==
  ASSUME NotifyTypeInv, IsFiniteSet(arrived), NEW o
  PROVE  /\ DoneFor(o) \in SUBSET arrived /\ arrived \in SUBSET NodeEvents
         /\ IsFiniteSet(DoneFor(o))
<1>1. DoneFor(o) \in SUBSET arrived /\ arrived \in SUBSET NodeEvents
  BY DEF DoneFor, Done, IsDone, NotifyTypeInv, TypeOK
<1> QED BY <1>1, FS_Subset

(* A record keeps its bounds while more is done.                            *)
LEMMA StillCounted ==
  ASSUME NotifyTypeInv', IsFiniteSet(arrived)', Done \subseteq Done',
         NEW o \in Offers, NEW r \in [active: BOOLEAN, num: Nat, total: Nat],
         r.num <= Cardinality(DoneFor(o)),
         r.total <= SumFunctionOnSet(Amount, DoneFor(o))
  PROVE  /\ r.num <= Cardinality(DoneFor(o)')
         /\ r.total <= SumFunctionOnSet(Amount, DoneFor(o)')
<1>1. DoneFor(o)' \in SUBSET NodeEvents /\ IsFiniteSet(DoneFor(o)')
  <2>1. DoneFor(o)' \in SUBSET arrived' /\ arrived' \in SUBSET NodeEvents
    BY DEF DoneFor, Done, IsDone, NotifyTypeInv, TypeOK
  <2> QED BY <2>1, FS_Subset
<1>2. DoneFor(o) \in SUBSET DoneFor(o)'
  BY DEF DoneFor
<1> DEFINE T == DoneFor(o)
           U == DoneFor(o)'
<1> HIDE DEF T, U
<1>3. /\ Cardinality(T) \in Nat /\ Cardinality(U) \in Nat
      /\ SumFunctionOnSet(Amount, T) \in Nat /\ SumFunctionOnSet(Amount, U) \in Nat
      /\ Cardinality(T) <= Cardinality(U)
      /\ SumFunctionOnSet(Amount, T) <= SumFunctionOnSet(Amount, U)
  BY <1>1, <1>2, MoreCount DEF T, U
<1>4. r.num \in Nat /\ r.total \in Nat
  OBVIOUS
<1>5. r.num <= Cardinality(T) /\ r.total <= SumFunctionOnSet(Amount, T)
  BY DEF T
<1>6. r.num <= Cardinality(U) /\ r.total <= SumFunctionOnSet(Amount, U)
  BY <1>3, <1>4, <1>5
<1> QED BY <1>6 DEF U

LEMMA RecordCounted ==
  ASSUME NotifyTypeInv, NotifyTypeInv', QueuesOnce, CountInv, Record
  PROVE  OffersCounted'
<1> DEFINE e == notifier.event
<1>1. notifier.pc = "record" /\ notifier'.pc = "mark" /\ notifier'.event = e
      /\ queue' = queue /\ arrived' = arrived
  BY DEF Record, nodeVars, NotifyTypeInv, TypeOK
<1>2. e \in NodeEvents /\ In(e, queue) /\ e \in arrived
  BY <1>1, HeldEvent
<1>3. Done' = Done \cup {e} /\ e \notin Done
  BY <1>1, <1>2 DEF Done, IsDone
<1>4. IsFiniteSet(arrived)' /\ Done \subseteq Done'
  BY <1>1, <1>3 DEF CountInv
<1>5. offers \in [Offers -> {None} \cup [active: BOOLEAN, num: Nat, total: Nat]]
  BY DEF NotifyTypeInv, TypeOK
<1>6. ASSUME NEW o \in Offers, offers[o] # None, offers'[o] = offers[o]
      PROVE  /\ offers'[o].num <= Cardinality(DoneFor(o)')
             /\ offers'[o].total <= SumFunctionOnSet(Amount, DoneFor(o)')
  <2>1. /\ offers[o] \in [active: BOOLEAN, num: Nat, total: Nat]
        /\ offers[o].num <= Cardinality(DoneFor(o))
        /\ offers[o].total <= SumFunctionOnSet(Amount, DoneFor(o))
    BY <1>5, <1>6 DEF CountInv, OffersCounted
  <2>2. /\ offers[o].num <= Cardinality(DoneFor(o)')
        /\ offers[o].total <= SumFunctionOnSet(Amount, DoneFor(o)')
    BY <2>1, <1>4, StillCounted
  <2> QED BY <2>2, <1>6
<1>7. CASE UNCHANGED offers
  BY <1>6, <1>7 DEF OffersCounted
<1>8. ASSUME Found(e.offer),
             offers' = [offers EXCEPT ![e.offer] = RecordPayment(@, e.amount)]
      PROVE  OffersCounted'
  <2>p. PICK p \in Offers : p = e.offer
    BY <1>2, <1>8, EventFields DEF Found
  <2> DEFINE T == DoneFor(p)
  <2>1. offers[p] # None /\ e.amount \in Nat
    BY <1>2, <1>8, <2>p, EventFields DEF Found
  <2>2. /\ offers'[p] = RecordPayment(offers[p], e.amount)
        /\ \A o \in Offers : o # p => offers'[o] = offers[o]
    BY <1>5, <1>8, <2>p
  <2>3. offers[p] \in [active: BOOLEAN, num: Nat, total: Nat]
    BY <1>5, <2>1
  <2>4. /\ offers'[p].num = offers[p].num + 1
        /\ offers'[p].total = offers[p].total + e.amount
    BY <2>1, <2>2, <2>3 DEF RecordPayment
  <2>5. DoneFor(p)' = T \cup {e} /\ e \notin T
    BY <1>3, <2>p DEF DoneFor
  <2>6. T \in SUBSET NodeEvents /\ IsFiniteSet(T)
    BY DoneFinite DEF CountInv
  <2>7. /\ Cardinality(T) \in Nat /\ SumFunctionOnSet(Amount, T) \in Nat
        /\ offers[p].num <= Cardinality(T)
        /\ offers[p].total <= SumFunctionOnSet(Amount, T)
    <3>1. Cardinality(T) \in Nat /\ SumFunctionOnSet(Amount, T) \in Nat
      <4> HIDE DEF T
      <4> QED BY <2>6, MoreCount
    <3> QED BY <3>1, <2>1 DEF CountInv, OffersCounted
  <2> HIDE DEF T
  <2>8. Cardinality(T \cup {e}) = Cardinality(T) + 1
    BY <2>5, <2>6, FS_AddElement
  <2>9. SumFunctionOnSet(Amount, T \cup {e}) = SumFunctionOnSet(Amount, T) + Amount[e]
    <3>1. \A x \in T \cup {e} : Amount[x] \in Nat
      BY <1>2, <2>6, EventFields DEF Amount
    <3> QED BY <2>5, <2>6, <3>1, SumPutIn
  <2>10. Amount[e] = e.amount
    BY <1>2 DEF Amount
  <2>11. /\ offers'[p].num <= Cardinality(T \cup {e})
         /\ offers'[p].total <= SumFunctionOnSet(Amount, T \cup {e})
    BY <2>1, <2>3, <2>4, <2>7, <2>8, <2>9, <2>10
  <2>12. ASSUME NEW o \in Offers, offers'[o] # None
         PROVE  /\ offers'[o].num <= Cardinality(DoneFor(o)')
                /\ offers'[o].total <= SumFunctionOnSet(Amount, DoneFor(o)')
    <3>1. CASE o = p
      BY <2>5, <2>11, <3>1
    <3>2. CASE o # p
      BY <2>2, <2>12, <3>2, <1>6
    <3> QED BY <3>1, <3>2
  <2> QED BY <2>12 DEF OffersCounted
<1> QED BY <1>7, <1>8 DEF Record

LEMMA CountStep ==
  NotifyTypeInv /\ NotifyTypeInv' /\ CopiesInv /\ CountInv /\ [Next]_vars => CountInv'
<1> SUFFICES ASSUME NotifyTypeInv, NotifyTypeInv', CopiesInv, CountInv, [Next]_vars
             PROVE  CountInv'
  OBVIOUS
<1>q. QueuesOnce
  BY DEF CopiesInv
<1>t. /\ offers \in [Offers -> {None} \cup [active: BOOLEAN, num: Nat, total: Nat]]
      /\ queue \in Seq(NodeEvents) /\ forwards \in Seq(NodeEvents)
  BY DEF NotifyTypeInv, TypeOK
<1>1. CASE UNCHANGED vars
  BY <1>1 DEF vars, nodeVars, eventVars, CountInv, OffersCounted,
              ForwardsCounted, Done, IsDone, DoneFor
<1>2. ASSUME Restart PROVE CountInv'
  <2>1. /\ arrived' = arrived /\ forwards' = <<>>
        /\ \A o \in Offers : offers'[o] = None
    BY <1>2 DEF Restart, NoOffers
  <2> QED BY <2>1 DEF CountInv, OffersCounted, ForwardsCounted, Distinct, In
<1>3. ASSUME Next, ~Restart PROVE CountInv'
  <2>1. Done \subseteq Done'
    BY <1>3, <1>q, DoneGrows
  <2>2. IsFiniteSet(arrived)'
    <3>1. arrived' = arrived \/ \E e \in NodeEvents : arrived' = arrived \cup {e}
      BY <1>3 DEF Next, Happen, Notify, TakeNotification, TakeOther, SendCopy,
                  FailCopy, EndPublish, Record, MarkHandled, Refuse,
                  Authorize, RefuseTypes, Subscribe, MakeOffer, DisableOffer,
                  nodeVars
    <3> QED BY <3>1, FS_AddElement DEF CountInv
  <2>3. ASSUME NEW o \in Offers, offers[o] # None,
               NEW r \in [active: BOOLEAN, num: Nat, total: Nat],
               r.num = offers[o].num, r.total = offers[o].total
        PROVE  /\ r.num <= Cardinality(DoneFor(o)')
               /\ r.total <= SumFunctionOnSet(Amount, DoneFor(o)')
    <3>1. /\ r.num <= Cardinality(DoneFor(o))
          /\ r.total <= SumFunctionOnSet(Amount, DoneFor(o))
      BY <2>3 DEF CountInv, OffersCounted
    <3> QED BY <3>1, <2>1, <2>2, StillCounted
  <2>4. UNCHANGED offers => OffersCounted'
    BY <1>t, <2>3 DEF OffersCounted
  <2>5. UNCHANGED forwards => ForwardsCounted'
    BY <2>1 DEF CountInv, ForwardsCounted
  <2>6. CASE Record
    BY <2>2, <2>5, <2>6, <1>q, RecordCounted DEF Record, CountInv
  <2>7. ASSUME TakeOther PROVE CountInv'
    <3> DEFINE e == Head(queue)
    <3>1. /\ notifier.pc = "wait" /\ queue # <<>> /\ queue' = queue
          /\ notifier'.pc = "mark" /\ notifier'.event = e
          /\ arrived' = arrived /\ UNCHANGED offers
          /\ forwards' \in {forwards, Append(forwards, e)}
      BY <2>7 DEF TakeOther, RecordForward, nodeVars, Waiting
    <3>2. e \in NodeEvents /\ In(e, queue) /\ e \in arrived
      BY <3>1, <1>t, <1>q, HeadIsIn, HeadTailProperties DEF QueuesOnce
    <3>3. e \notin Done /\ e \in Done'
      BY <3>1, <3>2 DEF Done, IsDone
    <3>4. ~In(e, forwards) /\ Distinct(forwards)
      BY <3>2, <3>3 DEF CountInv, ForwardsCounted
    <3>5. Distinct(forwards') /\ \A f : In(f, forwards') => In(f, forwards) \/ f = e
      <4> DEFINE s == Append(forwards, e)
      <4>1. Distinct(s) /\ \A f : In(f, s) => In(f, forwards) \/ f = e
        BY <3>2, <3>4, <1>t, AppendNew
      <4>2. forwards' = forwards \/ forwards' = s
        BY <3>1
      <4> HIDE DEF s
      <4>3. CASE forwards' = forwards
        BY <3>4, <4>3
      <4>4. CASE forwards' = s
        BY <4>1, <4>4
      <4> QED BY <4>2, <4>3, <4>4
    <3>6. ForwardsCounted'
      BY <2>1, <3>3, <3>5 DEF CountInv, ForwardsCounted
    <3> QED BY <2>2, <2>4, <3>1, <3>6 DEF CountInv
  <2>8. ASSUME NEW p \in Offers, MakeOffer(p) PROVE CountInv'
    <3>1. UNCHANGED forwards /\ offers' = [offers EXCEPT ![p] = NewOffer]
      BY <2>8 DEF MakeOffer, eventVars
    <3>2. DoneFor(p)' \in SUBSET NodeEvents /\ IsFiniteSet(DoneFor(p)')
      <4>1. DoneFor(p)' \in SUBSET arrived' /\ arrived' \in SUBSET NodeEvents
        BY DEF DoneFor, Done, IsDone, NotifyTypeInv, TypeOK
      <4> QED BY <4>1, <2>2, FS_Subset
    <3> DEFINE U == DoneFor(p)'
    <3>3. Cardinality(U) \in Nat /\ SumFunctionOnSet(Amount, U) \in Nat
      <4> HIDE DEF U
      <4> QED BY <3>2, MoreCount DEF U
    <3>4. offers'[p].num = 0 /\ offers'[p].total = 0
      BY <3>1, <1>t DEF NewOffer
    <3>5. OffersCounted'
      <4>1. ASSUME NEW o \in Offers, offers'[o] # None
            PROVE  /\ offers'[o].num <= Cardinality(DoneFor(o)')
                   /\ offers'[o].total <= SumFunctionOnSet(Amount, DoneFor(o)')
        <5>1. CASE o = p
          <6>1. offers'[p].num <= Cardinality(U)
                /\ offers'[p].total <= SumFunctionOnSet(Amount, U)
            <7> HIDE DEF U
            <7> QED BY <3>3, <3>4
          <6> QED BY <5>1, <6>1
        <5>2. CASE o # p
          <6>1. offers'[o] = offers[o] /\ offers[o] \in [active: BOOLEAN, num: Nat, total: Nat]
            BY <3>1, <4>1, <5>2, <1>t
          <6> QED BY <6>1, <4>1, <2>3
        <5> QED BY <5>1, <5>2
      <4> QED BY <4>1 DEF OffersCounted
    <3> QED BY <2>2, <2>5, <3>1, <3>5 DEF CountInv
  <2>9. ASSUME NEW p \in Offers, DisableOffer(p) PROVE CountInv'
    <3>1. /\ UNCHANGED forwards /\ offers[p] # None
          /\ offers' = [offers EXCEPT ![p] = [@ EXCEPT !.active = FALSE]]
      BY <2>9 DEF DisableOffer, Disabled, eventVars
    <3>2. ASSUME NEW o \in Offers, offers'[o] # None
          PROVE  /\ offers[o] # None
                 /\ offers'[o] \in [active: BOOLEAN, num: Nat, total: Nat]
                 /\ offers'[o].num = offers[o].num
                 /\ offers'[o].total = offers[o].total
      <4>1. CASE o = p
        BY <3>1, <4>1, <1>t
      <4>2. CASE o # p
        BY <3>1, <3>2, <4>2, <1>t
      <4> QED BY <4>1, <4>2
    <3>3. OffersCounted'
      BY <3>2, <2>3 DEF OffersCounted
    <3> QED BY <2>2, <2>5, <3>1, <3>3 DEF CountInv
  <2>10. ASSUME \/ \E e \in NodeEvents : Happen(e)
                \/ TakeNotification \/ EndPublish \/ MarkHandled
                \/ \E c \in Clients : SendCopy(c) \/ FailCopy(c)
                \/ \E l \in Loops : \/ \E a \in awaited : Refuse(l, a)
                                                          \/ Authorize(l, a)
                                    \/ RefuseTypes(l) \/ Subscribe(l)
         PROVE  CountInv'
    <3>1. UNCHANGED <<offers, forwards>>
      BY <2>10 DEF Happen, TakeNotification, EndPublish, MarkHandled,
                   SendCopy, FailCopy, Refuse, Authorize, RefuseTypes,
                   Subscribe, eventVars
    <3> QED BY <2>2, <2>4, <2>5, <3>1 DEF CountInv
  <2> QED BY <1>3, <2>6, <2>7, <2>8, <2>9, <2>10 DEF Next, Notify
<1> QED BY <1>1, <1>2, <1>3

LEMMA CountStart == Init => CountInv
BY FS_EmptySet DEF Init, NoOffers, CountInv, OffersCounted, ForwardsCounted, Distinct, In

LEMMA CountedByDone == NotifyTypeInv /\ CountInv => CountedOnce
<1> SUFFICES ASSUME NotifyTypeInv, CountInv PROVE CountedOnce
  OBVIOUS
<1>1. ASSUME NEW o \in Offers, offers[o] # None
      PROVE  LET paid == {e \in arrived : e.offer = o} IN
             /\ offers[o].num <= Cardinality(paid)
             /\ offers[o].total <=
                  SumFunctionOnSet([e \in NodeEvents |-> e.amount], paid)
  <2> DEFINE S == {e \in arrived : e.offer = o}
             T == DoneFor(o)
  <2>1. S \in SUBSET NodeEvents /\ IsFiniteSet(S) /\ T \in SUBSET S
    <3>1. S \in SUBSET arrived /\ arrived \in SUBSET NodeEvents /\ IsFiniteSet(arrived)
      BY DEF CountInv, NotifyTypeInv, TypeOK
    <3>2. T \in SUBSET S
      BY DEF DoneFor, Done, IsDone
    <3> HIDE DEF S, T
    <3> QED BY <3>1, <3>2, FS_Subset
  <2>2. offers[o].num \in Nat /\ offers[o].total \in Nat
    BY <1>1 DEF NotifyTypeInv, TypeOK
  <2>3. /\ offers[o].num <= Cardinality(T)
        /\ offers[o].total <= SumFunctionOnSet(Amount, T)
    BY <1>1 DEF CountInv, OffersCounted
  <2>4. offers[o].num <= Cardinality(S)
        /\ offers[o].total <= SumFunctionOnSet(Amount, S)
    <3> HIDE DEF S, T
    <3>1. /\ Cardinality(T) \in Nat /\ Cardinality(S) \in Nat
          /\ SumFunctionOnSet(Amount, T) \in Nat
          /\ SumFunctionOnSet(Amount, S) \in Nat
          /\ Cardinality(T) <= Cardinality(S)
          /\ SumFunctionOnSet(Amount, T) <= SumFunctionOnSet(Amount, S)
      BY <2>1, MoreCount
    <3> QED BY <3>1, <2>2, <2>3
  <2> QED BY <2>4 DEF Amount
<1>2. \A i, j \in DOMAIN forwards : forwards[i] = forwards[j] => i = j
  <2>1. DOMAIN forwards = 1..Len(forwards)
    BY LenProperties DEF NotifyTypeInv, TypeOK
  <2> QED BY <2>1 DEF CountInv, ForwardsCounted, Distinct
<1> QED BY <1>1, <1>2 DEF CountedOnce

(* For any events, offers and clients, and however often the process stops  *)
(* before an event is marked, no payment of an offer is counted twice in    *)
(* the record that the process keeps, nor a forward in its history          *)
(* (lib.rs:3429-3437, 3506-3513; offer_store.rs:63-69).                     *)
THEOREM PaymentsCountedOnce == Spec => []CountedOnce
<1>1. Spec => [](NotifyTypeInv /\ CopiesInv)
  BY CopiesStart, CopiesStep, AlwaysTyped, PTL DEF Spec
<1>2. Spec => []CountInv
  BY <1>1, CountStart, CountStep, PTL DEF Spec
<1> QED BY <1>1, <1>2, CountedByDone, PTL
=============================================================================
