---------------------------- MODULE Records_proofs ----------------------------
(****************************************************************************)
(* The two ways in which the handlers cut a page from a list agree, and the *)
(* pages of an unchanging list are the list; what a request is answered is  *)
(* in the stores; and what a reader of a list that changes is shown.        *)
(****************************************************************************)
EXTENDS Records, SequenceTheorems, FiniteSetTheorems, TLAPS

LEMMA SubSeqNone ==
  ASSUME NEW S, NEW s \in Seq(S), NEW o \in Nat, o >= Len(s)
  PROVE  SubSeq(s, o + 1, Len(s)) = <<>>
<1>1. Len(s) \in Nat /\ Len(s) < o + 1
  OBVIOUS
<1>2. SubSeq(s, o + 1, Len(s)) \in Seq(S) /\ Len(SubSeq(s, o + 1, Len(s))) = 0
  BY <1>1
<1> QED
  BY <1>2

(* split_off and truncate, with their conditions, return what skip and take *)
(* return, for every list, offset and limit (lib.rs:1846-1854, 1912-1920;   *)
(* ldk_service.rs:828-839).                                                 *)
THEOREM PagesAgree ==
  ASSUME NEW S, NEW s \in Seq(S), NEW o \in Nat, NEW n \in Nat \cup {None}
  PROVE  SplitTruncate(s, o, n) = SkipTake(s, o, n)
<1>1. Len(s) \in Nat
  OBVIOUS
<1>2. CASE o = 0
  <2>1. SubSeq(s, o + 1, Len(s)) = s
    BY <1>2, SubSeqFull
  <2>2. ~(o > 0)
    BY <1>2
  <2> QED
    BY <2>1, <2>2 DEF SplitTruncate, SkipTake
<1>3. CASE o > 0 /\ o < Len(s)
  BY <1>3 DEF SplitTruncate, SkipTake
<1>4. CASE o > 0 /\ o >= Len(s)
  BY <1>1, <1>4, SubSeqNone DEF SplitTruncate, SkipTake
<1> QED
  BY <1>1, <1>2, <1>3, <1>4

(* A page and the pages after it are the rest of the list, so that a client *)
(* which adds the length of each page to its offset reads a list that does  *)
(* not change once, from end to end.                                        *)
THEOREM PagesCover ==
  ASSUME NEW S, NEW s \in Seq(S), NEW o \in 0..Len(s), NEW n \in Nat \cup {None}
  PROVE  LET page == SkipTake(s, o, n) IN
           /\ page \in Seq(S) /\ o + Len(page) <= Len(s)
           /\ n = None \/ Len(page) < n => o + Len(page) = Len(s)
           /\ \A i \in 1..Len(page) : page[i] = s[o + i]
<1> DEFINE rest == SubSeq(s, o + 1, Len(s))
           page == Take(rest, n)
<1>1. Len(s) \in Nat /\ o \in Nat /\ o <= Len(s)
  OBVIOUS
<1>2. /\ rest \in Seq(S) /\ Len(rest) = Len(s) - o
      /\ \A i \in 1..Len(rest) : rest[i] = s[o + i]
  <2>1. rest \in Seq(S) /\ Len(rest) = Len(s) - o
    BY <1>1
  <2>2. \A i \in 1..Len(rest) : rest[i] = s[o + i]
    BY <1>1, <2>1
  <2> QED
    BY <2>1, <2>2
<1> HIDE DEF rest
<1> SUFFICES /\ page \in Seq(S) /\ o + Len(page) <= Len(s)
             /\ n = None \/ Len(page) < n => o + Len(page) = Len(s)
             /\ \A i \in 1..Len(page) : page[i] = s[o + i]
  BY DEF SkipTake, rest
<1>3. CASE n = None \/ n >= Len(rest)
  <2>1. page = rest
    BY <1>3 DEF Take
  <2> QED
    BY <1>1, <1>2, <2>1
<1>4. CASE n # None /\ ~(n >= Len(rest))
  <2>1. n \in Nat /\ n < Len(rest) /\ page = SubSeq(rest, 1, n)
    BY <1>1, <1>2, <1>4 DEF Take
  <2>2. /\ page \in Seq(S) /\ Len(page) = n
        /\ \A i \in 1..n : page[i] = rest[i]
    BY <1>2, <2>1
  <2> HIDE DEF page
  <2>3. /\ o + Len(page) <= Len(s) /\ ~(Len(page) < n)
        /\ \A i \in 1..Len(page) : page[i] = s[o + i]
    BY <1>1, <1>2, <2>1, <2>2
  <2> QED
    BY <1>4, <2>2, <2>3
<1> QED
  BY <1>3, <1>4

----------------------------------------------------------------------------
(* Orders of a set.                                                         *)

LEMMA SeqRange ==
  ASSUME NEW S, NEW s \in Seq(S)
  PROVE  /\ Range(s) \in SUBSET S /\ IsFiniteSet(Range(s))
         /\ Range(s) = {s[i] : i \in 1..Len(s)}
<1>1. Len(s) \in Nat /\ DOMAIN s = 1..Len(s) /\ s \in [1..Len(s) -> S]
  BY LenProperties
<1>2. Range(s) = {s[i] : i \in 1..Len(s)} /\ Range(s) \in SUBSET S
  BY <1>1 DEF Range
<1>3. s \in Surjection(1..Len(s), Range(s))
  BY <1>1, <1>2 DEF Surjection
<1>4. IsFiniteSet(1..Len(s))
  BY <1>1, FS_Interval
<1> QED BY <1>2, <1>3, <1>4, FS_Surjection

LEMMA OrdersOf ==
  ASSUME NEW S, IsFiniteSet(S), NEW s \in SetToSeqs(S)
  PROVE  /\ s \in Seq(S) /\ Len(s) = Cardinality(S) /\ Len(s) \in Nat
         /\ Range(s) = S
         /\ \A i, j \in 1..Len(s) : s[i] = s[j] => i = j
<1> DEFINE n == Cardinality(S)
           D == 1..n
<1>1. n \in Nat
  BY FS_CardinalityType
<1>2. s \in [D -> S] /\ \A i, j \in D : i # j => s[i] # s[j]
  BY DEF SetToSeqs
<1>3. s \in Seq(S) /\ Len(s) = n
  BY <1>1, <1>2
<1>4. IsFiniteSet(D) /\ Cardinality(D) = n
  BY <1>1, FS_Interval
<1>5. s \in Injection(D, S)
  BY <1>2 DEF Injection, IsInjective
<1> HIDE DEF D
<1>6. s \in Surjection(D, S)
  BY <1>4, <1>5, FS_Injection
<1>7. Range(s) = S
  BY <1>6 DEF Surjection, Range
<1> QED BY <1>1, <1>2, <1>3, <1>7 DEF D

LEMMA ElementsOf ==
  ASSUME NEW S, IsFiniteSet(S), NEW s \in SetToSeqs(S)
  PROVE  \A x \in S : \E i \in 1..Len(s) : s[i] = x
<1>1. s \in Seq(S) /\ Range(s) = S
  BY OrdersOf
<1> QED BY <1>1, SeqRange

----------------------------------------------------------------------------
(* Types.  The items of a list are payments, offers, addresses, or the      *)
(* places of forwards.                                                      *)

Items == Payments \cup Offers \cup Addresses \cup Nat
Walks == [pc: {"none", "reading", "ended"}, query: Queries \cup {None},
          seen: Seq(Items), start: SUBSET (Items \X Nat),
          touched: SUBSET Payments, grown: BOOLEAN, shrunk: BOOLEAN]

StoresOK ==
  /\ clock \in Seconds /\ payments \in Stores
  /\ offers \in Seq(OfferRecords)
  /\ \A i, j \in DOMAIN offers : offers[i].offer = offers[j].offer => i = j
  /\ addresses \in Seq(Addresses) /\ IsInjective(addresses)
  /\ forwards \in Seq(Seconds)
  /\ making \in Makings
  /\ changes \in 0..MaxChanges

LEMMA InsertOfferType ==
  ASSUME StoresOK, NEW o \in Offers, o \notin Stored(offers, "offer"),
         NEW s \in InsertOffer(o)
  PROVE  /\ s \in Seq(OfferRecords)
         /\ \A i, j \in DOMAIN s : s[i].offer = s[j].offer => i = j
         /\ Stored(s, "offer") = Stored(offers, "offer") \cup {o}
<1> DEFINE r == [offer |-> o, active |-> TRUE]
           S == Range(offers) \cup {r}
<1>1. /\ Range(offers) \in SUBSET OfferRecords /\ IsFiniteSet(Range(offers))
      /\ Range(offers) = {offers[i] : i \in 1..Len(offers)}
      /\ DOMAIN offers = 1..Len(offers)
  BY SeqRange, LenProperties DEF StoresOK
<1>2. r \in OfferRecords /\ r.offer = o
  BY DEF OfferRecords
<1> HIDE DEF r
<1>3. IsFiniteSet(S) /\ S \in SUBSET OfferRecords
  BY <1>1, <1>2, FS_AddElement
<1>4. s \in SetToSeqs(S)
  BY DEF InsertOffer, Inserted, r
<1>5. \A x \in Range(offers) : x.offer \in Stored(offers, "offer") /\ x.offer # o
  BY <1>1 DEF Stored
<1>6. \A x, y \in S : x.offer = y.offer => x = y
  <2>1. \A x, y \in Range(offers) : x.offer = y.offer => x = y
    BY <1>1 DEF StoresOK
  <2> QED BY <2>1, <1>2, <1>5
<1> HIDE DEF S
<1>7. /\ s \in Seq(S) /\ Range(s) = S /\ Len(s) \in Nat /\ DOMAIN s = 1..Len(s)
      /\ \A i, j \in 1..Len(s) : s[i] = s[j] => i = j
  BY <1>3, <1>4, OrdersOf, LenProperties
<1>8. \A i \in 1..Len(s) : s[i] \in S
  BY <1>7, ElementOfSeq
<1>9. s \in Seq(OfferRecords)
  BY <1>3, <1>7, SeqMonotonic
<1>10. \A i, j \in DOMAIN s : s[i].offer = s[j].offer => i = j
  BY <1>6, <1>7, <1>8
<1>11. Stored(s, "offer") = {x.offer : x \in S}
  <2>1. S = {s[i] : i \in 1..Len(s)}
    BY <1>7, SeqRange
  <2> QED BY <2>1, <1>7 DEF Stored
<1>12. Stored(offers, "offer") = {x.offer : x \in Range(offers)}
  BY <1>1 DEF Stored
<1> QED BY <1>2, <1>9, <1>10, <1>11, <1>12 DEF S

LEMMA InsertAddressType ==
  ASSUME StoresOK, NEW a \in Addresses, NEW s \in Inserted(addresses, a)
  PROVE  /\ s \in Seq(Addresses) /\ IsInjective(s)
         /\ Range(s) = Range(addresses) \cup {a}
<1> DEFINE S == Range(addresses) \cup {a}
<1>1. Range(addresses) \in SUBSET Addresses /\ IsFiniteSet(Range(addresses))
  BY SeqRange DEF StoresOK
<1>2. IsFiniteSet(S) /\ S \in SUBSET Addresses
  BY <1>1, FS_AddElement
<1>3. s \in SetToSeqs(S)
  BY DEF Inserted
<1> HIDE DEF S
<1>4. /\ s \in Seq(S) /\ Range(s) = S /\ DOMAIN s = 1..Len(s)
      /\ \A i, j \in 1..Len(s) : s[i] = s[j] => i = j
  BY <1>2, <1>3, OrdersOf, LenProperties
<1>5. s \in Seq(Addresses)
  BY <1>2, <1>4, SeqMonotonic
<1> QED BY <1>4, <1>5 DEF IsInjective, S

LEMMA MadeType ==
  ASSUME making \in Makings, making.todo # <<>>,
         NEW uri, NEW stored,
         uri \in [lightning: SUBSET Payments, lno: SUBSET Offers,
                  address: Addresses \cup {None}],
         stored \in SUBSET (Offers \cup Addresses), Made(uri, stored)
  PROVE  /\ making' \in Makings
         /\ making'.pc = making.pc /\ making'.code = making.code
         /\ making'.request = making.request
         /\ making'.uri = uri /\ making'.stored = making.stored \cup stored
<1>1. making.todo \in Seq(Parts) /\ Tail(making.todo) \in Seq(Parts)
  BY HeadTailProperties DEF Makings
<1>2. making' = [[[making EXCEPT !.todo = Tail(making.todo)]
                    EXCEPT !.uri = uri]
                    EXCEPT !.stored = making.stored \cup stored]
  BY DEF Made, Makings
<1> QED BY <1>1, <1>2 DEF Makings

(* What a client is told is stored; the offers that are stored are told,    *)
(* and outside make_bip321 what is stored is told in some form.             *)
MakingInv ==
  making.pc # "none" =>
    /\ making.uri.lno \subseteq Stored(offers, "offer")
    /\ making.uri.address # None => making.uri.address \in Range(addresses)
    /\ making.uri.lno = making.stored \cap Offers
    /\ making.uri.address # None => making.uri.address \in making.stored
    /\ making.request.method # "make_bip321" /\ making.stored # {} =>
         making.uri.lno # {} \/ making.uri.address # None
    /\ making.pc = "answered" /\ making.code = "OTHER" =>
         making.uri.lno = {} /\ making.uri.address = None

StoresInv == StoresOK /\ MakingInv

Uris == [lightning: SUBSET Payments, lno: SUBSET Offers,
         address: Addresses \cup {None}]

LEMMA ChangedType ==
  ASSUME changes \in 0..MaxChanges, Changed
  PROVE  changes' \in 0..MaxChanges
<1>1. MaxChanges \in Nat
  BY RecordsAssumption
<1> QED BY <1>1 DEF Changed

LEMMA MakesStep ==
  ASSUME StoresInv,
         \/ \E r \in Makes : StartMaking(r)
         \/ \E p \in Payments : MakeInvoice(p)
         \/ \E o \in Offers : MakeOffer(o)
         \/ \E a \in Addresses : MakeNewAddress(a)
         \/ SkipPart \/ AnswerMake
  PROVE  StoresInv'
<1> USE DEF StoresInv, StoresOK
<1>m. /\ making \in Makings /\ making.uri \in Uris
      /\ making.stored \in SUBSET (Offers \cup Addresses)
  BY DEF Makings, Uris
<1>1. ASSUME NEW r \in Makes, StartMaking(r) PROVE StoresInv'
  <2>1. making' = [pc |-> "making", request |-> r, todo |-> r.parts,
                   uri |-> NoUri, stored |-> {}, code |-> "NONE"]
    BY <1>1 DEF StartMaking, NotMaking
  <2>2. making' \in Makings
    BY <2>1, RecordsAssumption DEF Makings, NoUri
  <2>3. MakingInv'
    BY <2>1 DEF MakingInv, NoUri
  <2>4. changes' \in 0..MaxChanges
    BY <1>1, ChangedType DEF StartMaking
  <2> QED BY <1>1, <2>2, <2>3, <2>4 DEF StartMaking, storeVars
<1>2. ASSUME NEW p \in Payments, MakeInvoice(p) PROVE StoresInv'
  <2> DEFINE uri == [making.uri EXCEPT !.lightning = @ \cup {p}]
  <2>1. /\ Made(uri, {}) /\ making.pc = "making" /\ making.todo # <<>>
        /\ UNCHANGED <<clock, offers, addresses, forwards, changes>>
    BY <1>2 DEF MakeInvoice, Making
  <2>2. uri \in Uris /\ uri.lno = making.uri.lno /\ uri.address = making.uri.address
    BY <1>m DEF Uris
  <2> HIDE DEF uri
  <2>3. /\ making' \in Makings /\ making'.pc = making.pc
        /\ making'.request = making.request
        /\ making'.uri = uri /\ making'.stored = making.stored \cup {}
    <3>1. {} \in SUBSET (Offers \cup Addresses)
      OBVIOUS
    <3> QED BY <3>1, <2>1, <2>2, MadeType DEF Uris
  <2>4. MakingInv'
    BY <2>1, <2>2, <2>3 DEF MakingInv
  <2>5. payments' \in Stores
    BY <1>2, RecordsAssumption DEF MakeInvoice, Stores, PaymentRecords,
                                   Statuses, Inbound
  <2> QED BY <2>1, <2>3, <2>4, <2>5
<1>3. ASSUME NEW o \in Offers, MakeOffer(o) PROVE StoresInv'
  <2> DEFINE uri == [making.uri EXCEPT !.lno = @ \cup {o}]
  <2>1. /\ Made(uri, {o}) /\ making.pc = "making" /\ making.todo # <<>>
        /\ o \notin Stored(offers, "offer") /\ offers' \in InsertOffer(o)
        /\ UNCHANGED <<clock, payments, addresses, forwards, changes>>
    BY <1>3 DEF MakeOffer, Making
  <2>2. /\ uri \in Uris /\ uri.lno = making.uri.lno \cup {o}
        /\ uri.address = making.uri.address
    BY <1>m DEF Uris
  <2> HIDE DEF uri
  <2>3. /\ making' \in Makings /\ making'.pc = making.pc
        /\ making'.request = making.request
        /\ making'.uri = uri /\ making'.stored = making.stored \cup {o}
    BY <1>m, <2>1, <2>2, MadeType DEF Uris
  <2>4. /\ offers' \in Seq(OfferRecords)
        /\ \A i, j \in DOMAIN offers' :
             offers'[i].offer = offers'[j].offer => i = j
        /\ Stored(offers', "offer") = Stored(offers, "offer") \cup {o}
    BY <2>1, InsertOfferType
  <2>5. MakingInv'
    BY <2>1, <2>2, <2>3, <2>4 DEF MakingInv
  <2> QED BY <2>1, <2>3, <2>4, <2>5
<1>4. ASSUME NEW a \in Addresses, MakeNewAddress(a) PROVE StoresInv'
  <2>1. /\ making.pc = "making" /\ making.todo # <<>>
        /\ addresses' \in Inserted(addresses, a)
        /\ UNCHANGED <<clock, payments, offers, forwards, changes>>
    BY <1>4 DEF MakeNewAddress, Making
  <2>2. PICK uri \in UnlessRead([making.uri EXCEPT !.address = a]) :
          Made(uri, {a})
    BY <1>4 DEF MakeNewAddress
  <2>3. /\ uri \in Uris /\ uri.lno = making.uri.lno
        /\ \/ uri.address = a
           \/ /\ uri.address = making.uri.address
              /\ making.request.method = "make_bip321"
    BY <1>m, <2>2 DEF Uris, UnlessRead
  <2>4. /\ making' \in Makings /\ making'.pc = making.pc
        /\ making'.request = making.request
        /\ making'.uri = uri /\ making'.stored = making.stored \cup {a}
    BY <1>m, <2>1, <2>2, <2>3, MadeType DEF Uris
  <2>5. /\ addresses' \in Seq(Addresses) /\ IsInjective(addresses')
        /\ Range(addresses') = Range(addresses) \cup {a}
    BY <2>1, InsertAddressType
  <2>6. a # None /\ a \notin Offers
    BY RecordsAssumption
  <2>7. MakingInv'
    BY <2>1, <2>3, <2>4, <2>5, <2>6 DEF MakingInv
  <2> QED BY <2>1, <2>4, <2>5, <2>7
<1>5. CASE SkipPart
  <2>1. /\ making.pc = "making" /\ making.todo # <<>> /\ Made(making.uri, {})
        /\ UNCHANGED <<clock, storeVars, changes>>
    BY <1>5 DEF SkipPart
  <2>2. /\ making' \in Makings /\ making'.pc = making.pc
        /\ making'.request = making.request
        /\ making'.uri = making.uri /\ making'.stored = making.stored \cup {}
    <3>1. {} \in SUBSET (Offers \cup Addresses)
      OBVIOUS
    <3> QED BY <3>1, <1>m, <2>1, MadeType DEF Uris
  <2>3. MakingInv'
    BY <2>1, <2>2 DEF MakingInv, storeVars
  <2> QED BY <2>1, <2>2, <2>3 DEF storeVars
<1>6. CASE AnswerMake
  <2>1. /\ making.pc = "making" /\ UNCHANGED <<clock, storeVars, changes>>
        /\ making' \in Makings /\ making'.pc = "answered"
        /\ making'.request = making.request
        /\ making'.uri = making.uri /\ making'.stored = making.stored
        /\ making'.code = "OTHER" => making.uri = NoUri
    BY <1>6 DEF AnswerMake, AnyGenerated, Makings
  <2>2. making.uri = NoUri => making.uri.lno = {} /\ making.uri.address = None
    BY DEF NoUri
  <2>3. MakingInv'
    BY <2>1, <2>2 DEF MakingInv, storeVars
  <2> QED BY <2>1, <2>3 DEF storeVars
<1> QED BY <1>1, <1>2, <1>3, <1>4, <1>5, <1>6

LEMMA StoresStep == StoresInv /\ [RecordsNext]_vars => StoresInv'
<1> SUFFICES ASSUME StoresInv, [RecordsNext]_vars PROVE StoresInv'
  OBVIOUS
<1> USE DEF StoresInv, StoresOK
<1>1. ASSUME NEW i \in DOMAIN offers, DisableOffer(i) PROVE StoresInv'
  <2> DEFINE r == [offers[i] EXCEPT !.active = FALSE]
  <2>1. /\ offers' = [offers EXCEPT ![i] = r]
        /\ UNCHANGED <<clock, payments, addresses, forwards, making>>
        /\ changes' \in 0..MaxChanges
    BY <1>1, ChangedType DEF DisableOffer
  <2>2. r \in OfferRecords /\ r.offer = offers[i].offer /\ i \in 1..Len(offers)
    <3>1. offers[i] \in OfferRecords /\ i \in 1..Len(offers)
      OBVIOUS
    <3> QED BY <3>1 DEF OfferRecords
  <2> HIDE DEF r
  <2>3. offers' \in Seq(OfferRecords) /\ DOMAIN offers' = DOMAIN offers
        /\ \A j \in DOMAIN offers : offers'[j].offer = offers[j].offer
    BY <2>1, <2>2
  <2>4. Stored(offers', "offer") = Stored(offers, "offer")
    <3>1. /\ Stored(offers', "offer") = {offers'[j].offer : j \in DOMAIN offers'}
          /\ Stored(offers, "offer") = {offers[j].offer : j \in DOMAIN offers}
      BY DEF Stored
    <3> HIDE DEF StoresInv, StoresOK
    <3>2. {offers'[j].offer : j \in DOMAIN offers'}
            = {offers[j].offer : j \in DOMAIN offers}
      BY <2>3, Zenon
    <3> QED BY <3>1, <3>2, Zenon
  <2>5. MakingInv'
    BY <2>1, <2>4 DEF MakingInv
  <2> QED BY <2>1, <2>3, <2>5
<1>2. ASSUME NEW p \in Payments, NEW d \in Arrivals, NewPayment(p, d)
      PROVE  StoresInv'
  <2>1. [d EXCEPT !.updated = clock] \in PaymentRecords
    BY RecordsAssumption DEF PaymentRecords
  <2>2. payments' \in Stores
    BY <1>2, <2>1 DEF NewPayment, Stores
  <2> QED BY <1>2, <2>2, ChangedType DEF NewPayment, MakingInv
<1>3. ASSUME NEW p \in Payments, NEW s \in Statuses, MovePayment(p, s)
      PROVE  StoresInv'
  <2> DEFINE d == [[payments[p] EXCEPT !.status = s] EXCEPT !.updated = clock]
  <2>1. payments[p] \in PaymentRecords
    BY <1>3 DEF MovePayment, Stores
  <2>2. d \in PaymentRecords
    BY <2>1 DEF PaymentRecords
  <2>3. payments' = [payments EXCEPT ![p] = d]
    BY <1>3, <2>1 DEF MovePayment, Stores, PaymentRecords
  <2>4. payments' \in Stores
    BY <2>2, <2>3 DEF Stores
  <2> QED BY <1>3, <2>4, ChangedType DEF MovePayment, MakingInv
<1>4. CASE RecordForward
  <2>1. forwards' \in Seq(Seconds)
    BY <1>4 DEF RecordForward
  <2> QED BY <1>4, <2>1, ChangedType DEF RecordForward, MakingInv
<1>5. CASE Tick
  BY <1>5, RecordsAssumption DEF Tick, storeVars, Seconds, MakingInv
<1>6. CASE RestartRecords
  <2>1. /\ offers' = <<>> /\ addresses' = <<>> /\ forwards' = <<>>
        /\ making' = NotMaking /\ UNCHANGED <<clock, payments>>
        /\ changes' \in 0..MaxChanges
    BY <1>6, ChangedType DEF RestartRecords
  <2>2. making' \in Makings /\ MakingInv'
    BY <2>1 DEF NotMaking, NoUri, Makings, MakingInv
  <2> QED BY <2>1, <2>2 DEF IsInjective
<1>7. ASSUME \/ \E q \in Queries : StartReading(q)
             \/ ReadNext \/ StopReading \/ UNCHANGED vars
      PROVE  StoresInv'
  <2>1. UNCHANGED <<clock, storeVars, making, changes>>
    BY <1>7 DEF StartReading, ReadNext, StopReading, vars
  <2> QED BY <2>1 DEF storeVars, MakingInv
<1> QED BY <1>1, <1>2, <1>3, <1>4, <1>5, <1>6, <1>7, MakesStep DEF RecordsNext

LEMMA StoresStart == RecordsInit => StoresInv
<1> SUFFICES ASSUME RecordsInit PROVE StoresInv
  OBVIOUS
<1>1. /\ offers = <<>> /\ addresses = <<>> /\ forwards = <<>>
      /\ making = NotMaking /\ changes = 0 /\ payments \in Stores
      /\ clock \in Seconds
  BY RecordsAssumption DEF RecordsInit
<1>2. making \in Makings /\ MakingInv
  BY <1>1 DEF NotMaking, NoUri, Makings, MakingInv
<1> QED BY <1>1, <1>2, RecordsAssumption DEF StoresInv, StoresOK, IsInjective

(* For any stores, requests and failures of parts, the offers that a client *)
(* is told of are the ones its request registered, its address is           *)
(* registered, and a request that fails has left nothing but the addresses  *)
(* that make_bip321 could not read back (lib.rs:2186-2266).                 *)
THEOREM AnswersMatchStores == RecordsSpec => []AnswerMatchesStores
<1>1. ASSUME StoresInv PROVE AnswerMatchesStores
  <2>1. making.stored \subseteq Offers \cup Addresses
    BY <1>1 DEF StoresInv, StoresOK, Makings
  <2> QED BY <1>1, <2>1 DEF StoresInv, MakingInv, AnswerMatchesStores
<1> QED BY <1>1, StoresStart, StoresStep, PTL DEF RecordsSpec

(* If the elements at the places before k are those of T, T has k - 1.      *)
LEMMA Rank ==
  ASSUME NEW S, IsFiniteSet(S), NEW s \in SetToSeqs(S), NEW k \in 1..Len(s),
         NEW T \in SUBSET S, \A i \in 1..Len(s) : s[i] \in T <=> i < k
  PROVE  Cardinality(T) = k - 1
<1>1. /\ s \in Seq(S) /\ Len(s) \in Nat
      /\ \A i, j \in 1..Len(s) : s[i] = s[j] => i = j
  BY OrdersOf
<1> DEFINE D == 1..(k - 1)
           f == [i \in D |-> s[i]]
<1>2. IsFiniteSet(D) /\ Cardinality(D) = k - 1
  <2>1. k - 1 \in Int /\ k - 1 >= 0 /\ 1 \in Int
    BY <1>1
  <2>2. /\ IsFiniteSet(1..(k - 1))
        /\ Cardinality(1..(k - 1)) = IF 1 > k - 1 THEN 0 ELSE (k - 1) - 1 + 1
    BY <2>1, FS_Interval
  <2> QED BY <2>1, <2>2
<1>3. \A i \in D : i \in 1..Len(s) /\ i < k
  BY <1>1
<1>4. \A x \in T : \E i \in D : s[i] = x
  <2> TAKE x \in T
  <2>1. PICK i \in 1..Len(s) : s[i] = x
    BY ElementsOf
  <2> QED BY <2>1, <1>1
<1> HIDE DEF D
<1>5. f \in [D -> T] /\ \A a, b \in D : f[a] = f[b] => a = b
  BY <1>1, <1>3
<1>6. f \in Injection(D, T) /\ f \in Surjection(D, T)
  BY <1>4, <1>5 DEF Injection, IsInjective, Surjection
<1> QED BY <1>2, <1>6, FS_Surjection

----------------------------------------------------------------------------
(* Ascending enumerations of a finite set of numbers.                       *)

Ascending(s) == \A i, j \in DOMAIN s : i < j => s[i] < s[j]
Below(S, x) == {y \in S : y < x}

LEMMA BelowCard ==
  ASSUME NEW S \in SUBSET Nat, IsFiniteSet(S), NEW x \in S
  PROVE  /\ Cardinality(Below(S, x)) + 1 \in 1..Cardinality(S)
         /\ \A y \in S : x < y =>
              Cardinality(Below(S, x)) < Cardinality(Below(S, y))
<1>1. ASSUME NEW T \in SUBSET S, Below(S, x) \in SUBSET T, x \in T
      PROVE  Cardinality(Below(S, x)) < Cardinality(T)
  <2>1. IsFiniteSet(T) /\ Cardinality(T) \in Nat
    BY FS_Subset, FS_CardinalityType
  <2>2. x \notin Below(S, x)
    BY DEF Below
  <2>3. Below(S, x) # T
    BY <1>1, <2>2
  <2>4. Cardinality(Below(S, x)) \in Nat
    BY <1>1, <2>1, FS_Subset, FS_CardinalityType
  <2> QED BY <1>1, <2>1, <2>3, <2>4, FS_Subset
<1>2. Below(S, x) \in SUBSET S
  BY DEF Below
<1>3. Cardinality(Below(S, x)) \in Nat /\ Cardinality(S) \in Nat
  BY <1>2, FS_Subset, FS_CardinalityType
<1>4. Cardinality(Below(S, x)) < Cardinality(S)
  BY <1>1, <1>2
<1>5. ASSUME NEW y \in S, x < y
      PROVE  Cardinality(Below(S, x)) < Cardinality(Below(S, y))
  <2>1. /\ Below(S, y) \in SUBSET S /\ Below(S, x) \in SUBSET Below(S, y)
        /\ x \in Below(S, y)
    <3>1. x \in Nat /\ y \in Nat /\ \A z \in S : z \in Nat
      OBVIOUS
    <3>2. \A z \in S : z < x => z < y
      BY <1>5, <3>1
    <3> QED BY <1>5, <3>2 DEF Below
  <2> QED BY <1>1, <2>1
<1> QED BY <1>3, <1>4, <1>5

LEMMA AscendingExists ==
  ASSUME NEW S \in SUBSET Nat, IsFiniteSet(S)
  PROVE  \E s \in SetToSeqs(S) : Ascending(s)
<1> DEFINE n == Cardinality(S)
           D == 1..n
           f == [x \in S |-> Cardinality(Below(S, x)) + 1]
<1>1. n \in Nat /\ IsFiniteSet(D) /\ Cardinality(D) = n
  BY FS_CardinalityType, FS_Interval
<1>a. \A x \in S : f[x] \in D /\ \A y \in S : x < y => f[x] < f[y]
  <2> SUFFICES ASSUME NEW x \in S
               PROVE  f[x] \in D /\ \A y \in S : x < y => f[x] < f[y]
    OBVIOUS
  <2>1. \A y \in S : Cardinality(Below(S, y)) + 1 \in D
    BY BelowCard
  <2>2. \A y \in S : Cardinality(Below(S, y)) \in Nat
    <3> TAKE y \in S
    <3>1. Below(S, y) \in SUBSET S
      BY DEF Below
    <3> QED BY <3>1, FS_Subset, FS_CardinalityType
  <2>3. \A y \in S : x < y => Cardinality(Below(S, x)) < Cardinality(Below(S, y))
    BY BelowCard
  <2> QED BY <2>1, <2>2, <2>3
<1>2. f \in [S -> D] /\ \A x, y \in S : f[x] = f[y] => x = y
  <2>1. f \in [S -> D]
    BY <1>a
  <2> HIDE DEF f
  <2>2. ASSUME NEW x \in S, NEW y \in S, f[x] = f[y] PROVE x = y
    <3>1. f[x] \in Nat /\ f[y] \in Nat /\ x \in Nat /\ y \in Nat
      BY <2>1, <1>1
    <3>2. ~(x < y) /\ ~(y < x)
      BY <1>a, <2>2, <3>1
    <3> QED BY <3>1, <3>2
  <2> QED BY <2>1, <2>2
<1> HIDE DEF f, D
<1>3. f \in Surjection(S, D)
  <2>1. f \in Injection(S, D)
    BY <1>2 DEF Injection, IsInjective
  <2>2. Cardinality(S) = Cardinality(D)
    BY <1>1
  <2> QED BY <1>1, <2>1, <2>2, FS_Injection
<1> DEFINE s == [i \in D |-> CHOOSE x \in S : f[x] = i]
<1>4. \A i \in D : s[i] \in S /\ f[s[i]] = i
  BY <1>3 DEF Surjection
<1>5. DOMAIN s = D /\ s \in [D -> S]
  BY <1>4
<1> HIDE DEF s
<1>6. \A i, j \in D : i # j => s[i] # s[j]
  BY <1>4
<1>7. s \in SetToSeqs(S)
  BY <1>5, <1>6 DEF SetToSeqs, D
<1>8. Ascending(s)
  <2> SUFFICES ASSUME NEW i \in D, NEW j \in D, i < j PROVE s[i] < s[j]
    BY <1>5 DEF Ascending
  <2>1. s[i] \in S /\ s[j] \in S /\ f[s[i]] = i /\ f[s[j]] = j
    BY <1>4
  <2>2. i \in Nat /\ j \in Nat /\ s[i] \in Nat /\ s[j] \in Nat
    <3>1. \A x \in D : x \in Nat
      BY <1>1 DEF D
    <3>2. \A x \in S : x \in Nat
      OBVIOUS
    <3> QED BY <2>1, <3>1, <3>2
  <2>3. ~(s[j] < s[i])
    BY <1>a, <2>1, <2>2
  <2>4. s[i] # s[j]
    BY <2>1, <2>2
  <2> QED BY <2>2, <2>3, <2>4
<1> QED BY <1>7, <1>8

LEMMA AscendingUnique ==
  ASSUME NEW S \in SUBSET Nat, IsFiniteSet(S),
         NEW s \in SetToSeqs(S), Ascending(s),
         NEW t \in SetToSeqs(S), Ascending(t)
  PROVE  s = t
<1>1. /\ s \in Seq(S) /\ Len(s) = Cardinality(S) /\ Len(s) \in Nat
      /\ DOMAIN s = 1..Len(s)
      /\ t \in Seq(S) /\ Len(t) = Cardinality(S) /\ DOMAIN t = 1..Len(t)
  BY OrdersOf, LenProperties
<1>2. ASSUME NEW u \in SetToSeqs(S), Ascending(u), u \in Seq(S),
             DOMAIN u = 1..Len(u), Len(u) \in Nat, NEW k \in 1..Len(u)
      PROVE  Cardinality(Below(S, u[k])) = k - 1
  <2>1. \A i \in 1..Len(u) : u[i] \in Nat /\ u[i] \in S
    <3>1. \A i \in 1..Len(u) : u[i] \in S
      BY <1>2, ElementOfSeq
    <3>2. \A x \in S : x \in Nat
      OBVIOUS
    <3> QED BY <3>1, <3>2
  <2>2. \A i \in 1..Len(u) : i < k => u[i] < u[k]
    BY <1>2 DEF Ascending
  <2>3. \A i \in 1..Len(u) : k < i => u[k] < u[i]
    BY <1>2 DEF Ascending
  <2>4. \A i \in 1..Len(u) : u[i] < u[k] <=> i < k
    BY <1>2, <2>1, <2>2, <2>3
  <2>5. \A i \in 1..Len(u) : u[i] \in Below(S, u[k]) <=> i < k
    BY <2>1, <2>4 DEF Below
  <2>6. Below(S, u[k]) \in SUBSET S
    BY DEF Below
  <2> QED BY <2>5, <2>6, Rank
<1>3. ASSUME NEW k \in 1..Len(s) PROVE s[k] = t[k]
  <2>1. k \in 1..Len(t) /\ k \in Nat
    BY <1>1
  <2>2. s[k] \in S /\ t[k] \in S /\ s[k] \in Nat /\ t[k] \in Nat
    BY <1>1, <2>1, ElementOfSeq
  <2>3. Cardinality(Below(S, s[k])) = k - 1 /\ Cardinality(Below(S, t[k])) = k - 1
    BY <1>1, <1>2, <2>1
  <2>4. \A x, y \in S : x < y => Cardinality(Below(S, x)) < Cardinality(Below(S, y))
    BY BelowCard
  <2>5. ~(s[k] < t[k]) /\ ~(t[k] < s[k])
    BY <2>1, <2>2, <2>3, <2>4
  <2> QED BY <2>2, <2>5
<1> QED BY <1>1, <1>3, SeqEqual

(* filter: the places in their order.                                       *)
LEMMA InPlaceIs ==
  ASSUME NEW S \in SUBSET Nat, IsFiniteSet(S)
  PROVE  /\ InPlace(S) \in SetToSeqs(S) /\ Ascending(InPlace(S))
         /\ \A s \in SetToSeqs(S) : Ascending(s) => s = InPlace(S)
<1>1. InPlace(S) \in SetToSeqs(S) /\ Ascending(InPlace(S))
  BY AscendingExists DEF InPlace, Ascending
<1> QED BY <1>1, AscendingUnique

(* What the order of the places of a longer set starts with.                *)
LEMMA InPlaceAppend ==
  ASSUME NEW S \in SUBSET Nat, IsFiniteSet(S), NEW m \in Nat,
         \A x \in S : x < m
  PROVE  InPlace(S \cup {m}) = Append(InPlace(S), m)
<1> DEFINE s == InPlace(S)
           T == S \cup {m}
           t == Append(s, m)
<1>1. IsFiniteSet(T) /\ T \in SUBSET Nat /\ m \notin S
  BY FS_AddElement
<1>2. Cardinality(T) = Cardinality(S) + 1 /\ Cardinality(S) \in Nat
  BY <1>1, FS_AddElement, FS_CardinalityType
<1>3. s \in SetToSeqs(S) /\ Ascending(s)
  BY InPlaceIs
<1> HIDE DEF s
<1>4. /\ s \in Seq(S) /\ Len(s) = Cardinality(S) /\ Len(s) \in Nat
      /\ DOMAIN s = 1..Len(s)
  BY <1>3, OrdersOf, LenProperties
<1>5. s \in Seq(T) /\ m \in T
  BY <1>4, SeqMonotonic
<1> HIDE DEF T
<1>6. /\ t \in Seq(T) /\ Len(t) = Len(s) + 1 /\ DOMAIN t = 1..Len(t)
      /\ \A i \in 1..Len(s) : t[i] = s[i]
      /\ t[Len(s) + 1] = m
  BY <1>5, AppendProperties, LenProperties
<1> HIDE DEF t
<1>7. ASSUME NEW i \in 1..Len(t), NEW j \in 1..Len(t), i < j
      PROVE  t[i] < t[j]
  <2>1. i \in 1..Len(s) /\ t[i] = s[i] /\ s[i] \in S
    BY <1>4, <1>6, <1>7, ElementOfSeq
  <2>2. CASE j \in 1..Len(s)
    BY <1>3, <1>4, <1>6, <1>7, <2>1, <2>2 DEF Ascending
  <2>3. CASE j = Len(s) + 1
    BY <1>6, <2>1, <2>3
  <2> QED BY <1>4, <1>6, <2>2, <2>3
<1>8. Ascending(t)
  BY <1>6, <1>7 DEF Ascending
<1>9. t \in SetToSeqs(T)
  <2> DEFINE D == 1..Cardinality(T)
  <2>1. D = 1..Len(t) /\ DOMAIN t = D
    BY <1>2, <1>4, <1>6
  <2>2. \A i \in D : t[i] \in T
    BY <1>6, <2>1, ElementOfSeq
  <2>3. t \in [D -> T]
    BY <1>6, <2>1, <2>2, LenProperties
  <2>4. \A i, j \in D : i # j => t[i] # t[j]
    <3> SUFFICES ASSUME NEW i \in D, NEW j \in D, i # j PROVE t[i] # t[j]
      OBVIOUS
    <3>1. i < j \/ j < i
      BY <1>2
    <3>2. t[i] \in Nat /\ t[j] \in Nat
      BY <1>1, <2>2
    <3>3. t[i] < t[j] \/ t[j] < t[i]
      <4> HIDE DEF D
      <4> QED BY <1>7, <2>1, <3>1
    <3> QED BY <3>2, <3>3
  <2> HIDE DEF D
  <2> QED BY <2>3, <2>4 DEF SetToSeqs, D
<1> QED BY <1>1, <1>8, <1>9, InPlaceIs DEF T, t, s

OthersLists == {"list_offers", "list_addresses", "get_forwarding_history"}
WalkOK == walk \in Walks /\ (walk.pc # "none" => walk.query \in Queries)

LEMMA QueryType ==
  ASSUME NEW q \in Queries
  PROVE  /\ q.list \in Lists /\ q.limit \in Nat \cup {None} /\ q.limit # 0
         /\ q.list \in PaymentLists \/ q.list \in OthersLists
<1>1. /\ q.list \in Lists /\ q.limit \in (Nat \ {0}) \cup {None}
  BY RecordsAssumption
<1> QED BY <1>1, RecordsAssumption DEF Lists, OthersLists

LEMMA PlacesOf ==
  ASSUME NEW S, NEW s \in Seq(S), NEW P \in SUBSET (DOMAIN s)
  PROVE  /\ P \in SUBSET Nat /\ IsFiniteSet(P)
         /\ InPlace(P) \in Seq(P) /\ InPlace(P) \in SetToSeqs(P)
         /\ Range(InPlace(P)) = P
<1>1. Len(s) \in Nat /\ DOMAIN s = 1..Len(s)
  BY LenProperties
<1>2. IsFiniteSet(1..Len(s))
  BY <1>1, FS_Interval
<1>3. P \in SUBSET Nat /\ IsFiniteSet(P)
  BY <1>1, <1>2, FS_Subset
<1> QED BY <1>3, InPlaceIs, OrdersOf

(* What the lists that are no payments hold.                                *)
LEMMA OffersAre ==
  ASSUME StoresOK, NEW q
  PROVE  LET P == {i \in DOMAIN offers : q.active_only => offers[i].active}
         IN /\ OffersListed(q) \in Seq(Offers) /\ IsInjective(OffersListed(q))
            /\ Range(OffersListed(q)) = {offers[i].offer : i \in P}
<1> DEFINE P == {i \in DOMAIN offers : q.active_only => offers[i].active}
           left == InPlace(P)
<1>1. /\ offers \in Seq(OfferRecords)
      /\ \A i \in DOMAIN offers : offers[i].offer \in Offers
      /\ \A i, j \in DOMAIN offers : offers[i].offer = offers[j].offer => i = j
  <2>1. offers \in Seq(OfferRecords)
    BY DEF StoresOK
  <2>2. \A i \in DOMAIN offers : offers[i] \in OfferRecords
    BY <2>1
  <2> QED BY <2>1, <2>2 DEF StoresOK, OfferRecords
<1>2. P \in SUBSET (DOMAIN offers)
  OBVIOUS
<1> SUFFICES /\ OffersListed(q) \in Seq(Offers) /\ IsInjective(OffersListed(q))
             /\ Range(OffersListed(q)) = {offers[i].offer : i \in P}
  OBVIOUS
<1>3. OffersListed(q) = [i \in DOMAIN left |-> offers[left[i]].offer]
  BY DEF OffersListed
<1> HIDE DEF P
<1>4. /\ IsFiniteSet(P) /\ left \in Seq(P) /\ left \in SetToSeqs(P)
  BY <1>1, <1>2, PlacesOf
<1> HIDE DEF left
<1>5. /\ DOMAIN left = 1..Len(left) /\ Len(left) \in Nat
      /\ \A i \in DOMAIN left : left[i] \in P
      /\ \A i, j \in DOMAIN left : left[i] = left[j] => i = j
      /\ \A x \in P : \E i \in DOMAIN left : left[i] = x
  BY <1>4, OrdersOf, ElementsOf, LenProperties
<1> DEFINE l == [i \in DOMAIN left |-> offers[left[i]].offer]
<1>6. \A i \in DOMAIN left : offers[left[i]].offer \in Offers
  BY <1>1, <1>2, <1>5
<1>7. l \in Seq(Offers)
  BY <1>5, <1>6, IsASeq
<1>8. IsInjective(l)
  BY <1>1, <1>2, <1>5 DEF IsInjective
<1>9. Range(l) = {offers[left[i]].offer : i \in DOMAIN left}
  BY DEF Range
<1>10. {offers[left[i]].offer : i \in DOMAIN left} = {offers[i].offer : i \in P}
  BY <1>5
<1> QED BY <1>3, <1>7, <1>8, <1>9, <1>10

LEMMA ForwardsAre ==
  ASSUME StoresOK, NEW q
  PROVE  /\ ForwardsListed(q) \in Seq(Nat)
         /\ Range(ForwardsListed(q))
              = {i \in DOMAIN forwards : Between(q, forwards[i])}
<1> DEFINE P == {i \in DOMAIN forwards : Between(q, forwards[i])}
<1>1. forwards \in Seq(Seconds) /\ P \in SUBSET (DOMAIN forwards)
  BY DEF StoresOK
<1>2. ForwardsListed(q) = InPlace(P)
  BY DEF ForwardsListed
<1> HIDE DEF P
<1>3. P \in SUBSET Nat /\ InPlace(P) \in Seq(P) /\ Range(InPlace(P)) = P
  BY <1>1, PlacesOf
<1>4. InPlace(P) \in Seq(Nat)
  BY <1>3, SeqMonotonic
<1> QED BY <1>2, <1>3, <1>4 DEF P

LEMMA WantedFinite ==
  ASSUME NEW q, NEW ps
  PROVE  Wanted(q, ps) \in SUBSET Payments /\ IsFiniteSet(Wanted(q, ps))
<1>1. Wanted(q, ps) \in SUBSET Payments
  BY DEF Wanted
<1> QED BY <1>1, RecordsAssumption, FS_Subset

LEMMA NamesAre ==
  ASSUME NEW q, NEW R, \A h \in Held(q) : h[1] \in R,
         \A x \in R : \E h \in Held(q) : h[1] = x
  PROVE  Names(q) = R
BY DEF Names

(* The one sequence of a list that is no payments.                          *)
OnlyOrder(q) ==
  CASE q.list = "list_offers" -> OffersListed(q)
    [] q.list = "list_addresses" -> addresses
    [] OTHER -> ForwardsListed(q)

LEMMA OtherOrders ==
  ASSUME StoresOK, NEW q \in Queries, q.list \in OthersLists
  PROVE  /\ Orders(q) = {OnlyOrder(q)} /\ OnlyOrder(q) \in Seq(Items)
         /\ Held(q) = {<<i, 0>> : i \in Range(OnlyOrder(q))}
         /\ Names(q) = Range(OnlyOrder(q))
         /\ Range(OnlyOrder(q)) \in SUBSET Items
<1>1. q.list \notin PaymentLists
  BY DEF OthersLists, PaymentLists
<1>2. Orders(q) = {OnlyOrder(q)}
  BY <1>1 DEF Orders, OnlyOrder, OthersLists
<1>3. OnlyOrder(q) \in Seq(Items)
  <2>1. OffersListed(q) \in Seq(Items)
    BY OffersAre, SeqMonotonic, Offers \subseteq Items DEF Items
  <2>2. addresses \in Seq(Items)
    BY SeqMonotonic, Addresses \subseteq Items DEF StoresOK, Items
  <2>3. ForwardsListed(q) \in Seq(Items)
    BY ForwardsAre, SeqMonotonic, Nat \subseteq Items DEF Items
  <2> QED BY <2>1, <2>2, <2>3 DEF OnlyOrder, OthersLists
<1>4. Held(q) = {<<i, 0>> : i \in Range(OnlyOrder(q))}
  <2>1. (CHOOSE s \in Orders(q) : TRUE) = OnlyOrder(q)
    BY <1>2
  <2>2. Held(q) = {<<i, 0>> : i \in Range(CHOOSE s \in Orders(q) : TRUE)}
    BY <1>1 DEF Held
  <2> QED BY <2>1, <2>2
<1>5. Names(q) = Range(OnlyOrder(q))
  <2>1. \A x \in Range(OnlyOrder(q)) : <<x, 0>> \in Held(q) /\ <<x, 0>>[1] = x
    BY <1>4
  <2>2. \A h \in Held(q) : h[1] \in Range(OnlyOrder(q))
    BY <1>4
  <2> QED BY <2>1, <2>2, NamesAre
<1>6. Range(OnlyOrder(q)) \in SUBSET Items
  BY <1>3, SeqRange
<1> QED BY <1>2, <1>3, <1>4, <1>5, <1>6

LEMMA PaymentOrders ==
  ASSUME NEW q \in Queries, q.list \in PaymentLists
  PROVE  /\ Orders(q) = {s \in SetToSeqs(Wanted(q, payments)) :
                            NewestFirst(s, payments)}
         /\ Held(q) = {<<p, payments[p].updated>> : p \in Wanted(q, payments)}
         /\ Names(q) = Wanted(q, payments)
<1>1. /\ Orders(q) = {s \in SetToSeqs(Wanted(q, payments)) :
                         NewestFirst(s, payments)}
      /\ Held(q) = {<<p, payments[p].updated>> : p \in Wanted(q, payments)}
  BY DEF Orders, Held, PaymentLists
<1>2. \A p \in Wanted(q, payments) :
        LET h == <<p, payments[p].updated>> IN h \in Held(q) /\ h[1] = p
  BY <1>1
<1>3. \A h \in Held(q) : h[1] \in Wanted(q, payments)
  BY <1>1
<1> QED BY <1>1, <1>2, <1>3, NamesAre

LEMMA OrdersType ==
  ASSUME StoresOK, NEW q \in Queries
  PROVE  /\ \A s \in Orders(q) : s \in Seq(Items)
         /\ Held(q) \in SUBSET (Items \X Nat)
<1>1. CASE q.list \in PaymentLists
  <2>1. \A p \in Wanted(q, payments) : p \in Payments /\ payments[p].updated \in Nat
    <3> TAKE p \in Wanted(q, payments)
    <3>1. p \in Payments /\ payments[p] # None
      BY DEF Wanted
    <3>2. payments[p] \in PaymentRecords
      BY <3>1 DEF StoresOK, Stores
    <3> QED BY <3>1, <3>2, RecordsAssumption DEF PaymentRecords, Seconds
  <2>2. Held(q) \in SUBSET (Items \X Nat)
    BY <1>1, <2>1, PaymentOrders DEF Items
  <2>3. ASSUME NEW s \in Orders(q) PROVE s \in Seq(Items)
    <3>1. s \in SetToSeqs(Wanted(q, payments))
      BY <1>1, <2>3, PaymentOrders
    <3>2. s \in Seq(Wanted(q, payments))
      BY <3>1, WantedFinite, OrdersOf
    <3>3. Wanted(q, payments) \subseteq Items
      BY WantedFinite DEF Items
    <3> QED BY <3>2, <3>3, SeqMonotonic
  <2> QED BY <2>2, <2>3
<1>2. CASE q.list \in OthersLists
  <2>1. /\ Orders(q) = {OnlyOrder(q)} /\ OnlyOrder(q) \in Seq(Items)
        /\ Held(q) = {<<i, 0>> : i \in Range(OnlyOrder(q))}
        /\ Range(OnlyOrder(q)) \in SUBSET Items
    BY <1>2, OtherOrders
  <2> QED BY <2>1
<1> QED BY <1>1, <1>2, QueryType

----------------------------------------------------------------------------
(* A page that is read is skip and take of an order of the list.            *)

LEMMA SkipTakeType ==
  ASSUME NEW S, NEW s \in Seq(S), NEW o \in Nat, NEW n \in Nat \cup {None}
  PROVE  SkipTake(s, o, n) \in Seq(S)
<1>1. Len(s) \in Nat
  OBVIOUS
<1>2. CASE o <= Len(s)
  <2>1. o \in 0..Len(s)
    BY <1>1, <1>2
  <2> QED BY <2>1, PagesCover
<1>3. CASE ~(o <= Len(s))
  <2>1. SubSeq(s, o + 1, Len(s)) = <<>>
    BY <1>1, <1>3, SubSeqNone
  <2>2. Take(<<>>, n) = <<>>
    BY EmptySeq DEF Take
  <2>3. <<>> \in Seq(S)
    BY EmptySeq
  <2> QED BY <2>1, <2>2, <2>3 DEF SkipTake
<1> QED BY <1>2, <1>3

Seen(w, page) == [[w EXCEPT !.seen = w.seen \o page]
                    EXCEPT !.pc = IF w.query.limit = None
                                     \/ Len(page) < w.query.limit
                                  THEN "ended" ELSE "reading"]

LEMMA ReadIs ==
  ASSUME StoresOK, NEW q \in Queries, NEW w \in Walks, w.query = q, Read(q, w)
  PROVE  \E s \in Orders(q) :
           /\ s \in Seq(Items)
           /\ SkipTake(s, Len(w.seen), q.limit) \in Seq(Items)
           /\ walk' = Seen(w, SkipTake(s, Len(w.seen), q.limit))
           /\ walk' \in Walks /\ walk'.query = q /\ walk'.start = w.start
           /\ walk'.touched = w.touched
           /\ walk'.grown = w.grown /\ walk'.shrunk = w.shrunk
           /\ walk'.seen = w.seen \o SkipTake(s, Len(w.seen), q.limit)
           /\ walk'.pc \in {"reading", "ended"}
           /\ walk'.pc = "ended" <=>
                \/ q.limit = None
                \/ Len(SkipTake(s, Len(w.seen), q.limit)) < q.limit
<1>1. w.seen \in Seq(Items) /\ Len(w.seen) \in Nat
  BY DEF Walks
<1>2. PICK page \in Page(q, w.seen) :
        walk' = [w EXCEPT !.seen = @ \o page,
                          !.pc = IF q.limit = None \/ Len(page) < q.limit
                                 THEN "ended" ELSE "reading"]
  BY DEF Read
<1>3. PICK s \in Orders(q) : page = PageOf(q, s, Len(w.seen))
  BY DEF Page
<1>4. s \in Seq(Items) /\ q.limit \in Nat \cup {None}
  BY OrdersType, QueryType
<1>5. page = SkipTake(s, Len(w.seen), q.limit)
  BY <1>1, <1>3, <1>4, PagesAgree DEF PageOf
<1>6. page \in Seq(Items)
  BY <1>1, <1>4, <1>5, SkipTakeType
<1>7. walk' = Seen(w, page)
  BY <1>2 DEF Seen, Walks
<1>8. w.seen \o page \in Seq(Items)
  BY <1>1, <1>6, ConcatProperties
<1>9. /\ walk' \in Walks /\ walk'.query = q /\ walk'.start = w.start
      /\ walk'.touched = w.touched
      /\ walk'.grown = w.grown /\ walk'.shrunk = w.shrunk
      /\ walk'.seen = w.seen \o page
      /\ walk'.pc \in {"reading", "ended"}
      /\ walk'.pc = "ended" <=> q.limit = None \/ Len(page) < q.limit
  BY <1>7, <1>8 DEF Seen, Walks
<1> QED BY <1>3, <1>4, <1>5, <1>6, <1>7, <1>9

LEMMA StartIs ==
  ASSUME StoresOK, NEW q \in Queries
  PROVE  LET w == [NotWalking EXCEPT !.query = q, !.start = Held(q)]
         IN /\ w \in Walks /\ w.query = q /\ w.start = Held(q)
            /\ w.seen = <<>> /\ w.touched = {} /\ w.grown = FALSE
            /\ w.shrunk = FALSE
<1> DEFINE w == [NotWalking EXCEPT !.query = q, !.start = Held(q)]
<1>1. <<>> \in Seq(Items) /\ Held(q) \in SUBSET (Items \X Nat)
  BY OrdersType, EmptySeq
<1>2. /\ NotWalking \in Walks /\ NotWalking.seen = <<>>
      /\ NotWalking.touched = {} /\ NotWalking.grown = FALSE
      /\ NotWalking.shrunk = FALSE
  BY <1>1 DEF NotWalking, Walks
<1>3. /\ w \in Walks /\ w.query = q /\ w.start = Held(q)
      /\ w.seen = NotWalking.seen /\ w.touched = NotWalking.touched
      /\ w.grown = NotWalking.grown /\ w.shrunk = NotWalking.shrunk
  BY <1>1, <1>2 DEF Walks
<1> QED BY <1>2, <1>3

LEMMA NoticedIs ==
  ASSUME WalkOK, NEW ids \in SUBSET Payments, Noticing(ids)
  PROVE  /\ WalkOK' /\ walk'.pc = walk.pc /\ walk'.query = walk.query
         /\ walk'.seen = walk.seen /\ walk'.start = walk.start
         /\ walk.pc # "reading" => walk' = walk
         /\ walk.pc = "reading" =>
              /\ walk'.touched = walk.touched \cup ids
              /\ walk'.grown = FALSE => walk.grown = FALSE
              /\ walk'.shrunk = FALSE => walk.shrunk = FALSE
              /\ \A q : q = walk.query =>
                   /\ walk'.grown = FALSE => Names(q)' \subseteq Names(q)
                   /\ walk'.shrunk = FALSE => Names(q) \subseteq Names(q)'
<1>1. CASE walk.pc # "reading"
  BY <1>1 DEF Noticing, WalkOK
<1>2. CASE walk.pc = "reading"
  <2>1. PICK q \in {walk.query} :
          walk' = [walk EXCEPT !.touched = @ \cup ids,
                         !.grown = @ \/ Names(q)' \ Names(q) # {},
                         !.shrunk = @ \/ Names(q) \ Names(q)' # {}]
    BY <1>2 DEF Noticing
  <2>2. /\ walk' \in Walks /\ walk'.pc = walk.pc /\ walk'.query = walk.query
        /\ walk'.seen = walk.seen /\ walk'.start = walk.start
        /\ walk'.touched = walk.touched \cup ids
        /\ walk'.grown = (walk.grown \/ Names(q)' \ Names(q) # {})
        /\ walk'.shrunk = (walk.shrunk \/ Names(q) \ Names(q)' # {})
    BY <2>1 DEF WalkOK, Walks
  <2>3. walk'.grown = FALSE => walk.grown = FALSE /\ Names(q)' \subseteq Names(q)
    BY <2>2 DEF WalkOK, Walks
  <2>4. walk'.shrunk = FALSE => walk.shrunk = FALSE /\ Names(q) \subseteq Names(q)'
    BY <2>2 DEF WalkOK, Walks
  <2> QED BY <1>2, <2>2, <2>3, <2>4 DEF WalkOK
<1> QED BY <1>1, <1>2

(* The times of the payments that are wanted.                               *)
ClockInv == \A p \in Payments :
              payments[p] # None => payments[p].updated <= clock
Newer(q, t) == {r \in Wanted(q, payments) : payments[r].updated > t}
Alone(q, h) == /\ h[1] \in Wanted(q, payments)
               /\ payments[h[1]].updated = h[2]
               /\ \A r \in Wanted(q, payments) :
                    payments[r].updated = h[2] => r = h[1]

(* What the next pages will reach.                                          *)
Ahead(h) ==
  /\ Alone(walk.query, h) /\ h[2] < clock
  /\ Cardinality(Newer(walk.query, h[2])) >= Len(walk.seen)
Safe(h) == \/ h[1] \in walk.touched
           \/ \E g \in walk.start : g # h /\ g[2] = h[2]
           \/ h[1] \in Range(walk.seen)
           \/ walk.pc = "reading" /\ Ahead(h)
SkipInv == Of(PaymentLists) /\ walk.shrunk = FALSE =>
             \A h \in walk.start : Safe(h)

LEMMA WantedTimes ==
  ASSUME StoresOK, ClockInv, NEW q, NEW r \in Wanted(q, payments)
  PROVE  /\ r \in Payments /\ payments[r] \in PaymentRecords
         /\ payments[r].updated \in Nat
         /\ payments[r].updated <= clock /\ clock \in Nat
<1>1. r \in Payments /\ payments[r] # None
  BY DEF Wanted
<1>2. payments[r] \in PaymentRecords
  BY <1>1 DEF StoresOK, Stores
<1>3. payments[r].updated \in Nat /\ clock \in Nat
  BY <1>2, RecordsAssumption DEF PaymentRecords, Seconds, StoresOK
<1> QED BY <1>1, <1>2, <1>3 DEF ClockInv

LEMMA PageReaches ==
  ASSUME StoresOK, ClockInv, NEW q \in Queries, q.list \in PaymentLists,
         NEW s \in Orders(q), NEW o \in Nat,
         NEW h, Alone(q, h), Cardinality(Newer(q, h[2])) >= o,
         NEW page, page = SkipTake(s, o, q.limit)
  PROVE  \/ h[1] \in Range(page)
         \/ /\ Cardinality(Newer(q, h[2])) >= o + Len(page)
            /\ q.limit # None /\ ~(Len(page) < q.limit)
<1> DEFINE W == Wanted(q, payments)
           N == Newer(q, h[2])
<1>1. /\ s \in SetToSeqs(W) /\ NewestFirst(s, payments)
      /\ IsFiniteSet(W) /\ q.limit \in Nat \cup {None}
  BY PaymentOrders, WantedFinite, QueryType
<1>2. /\ h[1] \in W /\ payments[h[1]].updated = h[2]
      /\ \A r \in W : payments[r].updated = h[2] => r = h[1]
      /\ h[2] \in Nat
      /\ \A r \in W : payments[r].updated \in Nat
  <2>1. /\ h[1] \in W /\ payments[h[1]].updated = h[2]
        /\ \A r \in W : payments[r].updated = h[2] => r = h[1]
    BY DEF Alone
  <2>2. \A r \in W : payments[r].updated \in Nat
    BY WantedTimes
  <2> QED BY <2>1, <2>2
<1>3. N \in SUBSET W /\ \A r \in W : r \in N <=> payments[r].updated > h[2]
  BY DEF Newer
<1> HIDE DEF W, N
<1>4. /\ s \in Seq(W) /\ Len(s) \in Nat /\ DOMAIN s = 1..Len(s)
      /\ \A i, j \in 1..Len(s) : s[i] = s[j] => i = j
  BY <1>1, OrdersOf, LenProperties
<1>5. PICK k \in 1..Len(s) : s[k] = h[1]
  BY <1>1, <1>2, ElementsOf
<1>6. \A i \in 1..Len(s) : s[i] \in N <=> i < k
  <2> TAKE i \in 1..Len(s)
  <2>1. s[i] \in W /\ payments[s[i]].updated \in Nat
    BY <1>2, <1>4, ElementOfSeq
  <2>2. i < k => payments[s[i]].updated >= h[2]
    BY <1>1, <1>2, <1>4, <1>5 DEF NewestFirst
  <2>3. k < i => h[2] >= payments[s[i]].updated
    BY <1>1, <1>2, <1>4, <1>5 DEF NewestFirst
  <2>4. i # k => payments[s[i]].updated # h[2]
    BY <1>2, <1>4, <1>5, <2>1
  <2>5. i = k => payments[s[i]].updated = h[2]
    BY <1>2, <1>5
  <2>6. i \in Nat /\ k \in Nat /\ (i < k \/ i = k \/ k < i)
    BY <1>4
  <2>7. i < k <=> payments[s[i]].updated > h[2]
    BY <1>2, <2>1, <2>2, <2>3, <2>4, <2>5, <2>6
  <2> QED BY <1>3, <2>1, <2>7
<1>7. Cardinality(N) = k - 1
  BY <1>1, <1>3, <1>6, Rank
<1>8. o < k /\ k \in Nat /\ k <= Len(s) /\ o \in 0..Len(s)
  <2>1. k - 1 >= o
    BY <1>7 DEF N
  <2> QED BY <1>4, <2>1
<1>9. /\ page \in Seq(W) /\ o + Len(page) <= Len(s)
      /\ q.limit = None \/ Len(page) < q.limit => o + Len(page) = Len(s)
      /\ \A i \in 1..Len(page) : page[i] = s[o + i]
  <2> DEFINE n == q.limit
             P == SkipTake(s, o, n)
  <2>1. n \in Nat \cup {None}
    BY <1>1
  <2> HIDE DEF n
  <2>2. /\ P \in Seq(W) /\ o + Len(P) <= Len(s)
        /\ n = None \/ Len(P) < n => o + Len(P) = Len(s)
        /\ \A i \in 1..Len(P) : P[i] = s[o + i]
    <3>1. s \in Seq(W) /\ o \in 0..Len(s)
      BY <1>4, <1>8
    <3>2. P \in Seq(W) /\ o + Len(P) <= Len(s)
      BY <2>1, <3>1, PagesCover
    <3>3. n = None \/ Len(P) < n => o + Len(P) = Len(s)
      BY <2>1, <3>1, PagesCover
    <3>4. \A i \in 1..Len(P) : P[i] = s[o + i]
      BY <2>1, <3>1, PagesCover
    <3> QED BY <3>2, <3>3, <3>4
  <2>3. page = P
    BY DEF n
  <2> HIDE DEF P
  <2> QED BY <2>2, <2>3 DEF n
<1>10. Len(page) \in Nat /\ DOMAIN page = 1..Len(page)
  BY <1>9, LenProperties
<1>11. CASE k <= o + Len(page)
  <2>1. k - o \in 1..Len(page) /\ o + (k - o) = k
    BY <1>8, <1>10, <1>11
  <2>2. page[k - o] = h[1]
    BY <1>5, <1>9, <2>1
  <2> QED BY <1>10, <2>1, <2>2 DEF Range
<1>12. CASE ~(k <= o + Len(page))
  <2>1. k - 1 >= o + Len(page)
    BY <1>8, <1>10, <1>12
  <2>2. o + Len(page) # Len(s)
    BY <1>8, <1>10, <1>12
  <2> QED BY <1>7, <1>9, <2>1, <2>2 DEF N
<1> QED BY <1>11, <1>12

----------------------------------------------------------------------------
(* What the steps do to a reader.                                           *)

(* A payment is stored or moves on.                                         *)
PaymentChanges(p) ==
  /\ \E d \in PaymentRecords :
       d.updated = clock /\ payments' = [payments EXCEPT ![p] = d]
  /\ UNCHANGED <<clock, offers, addresses, forwards>>
  /\ Noticing({p})
MemoryChanges ==
  \/ \E o \in Offers : /\ o \notin Stored(offers, "offer")
                       /\ offers' \in InsertOffer(o)
                       /\ UNCHANGED <<addresses, forwards>>
  \/ \E a \in Addresses : /\ a \notin Range(addresses)
                          /\ addresses' \in Inserted(addresses, a)
                          /\ UNCHANGED <<offers, forwards>>
  \/ \E i \in DOMAIN offers : /\ offers' = [offers EXCEPT ![i].active = FALSE]
                              /\ UNCHANGED <<addresses, forwards>>
  \/ forwards' = Append(forwards, clock) /\ UNCHANGED <<offers, addresses>>
Reads(q, w) == Read(q, w) /\ UNCHANGED <<clock, storeVars>>
Kinds ==
  \/ \E q \in Queries : Reads(q, [NotWalking EXCEPT !.query = q,
                                                    !.start = Held(q)])
  \/ walk.pc = "reading" /\ Reads(walk.query, walk)
  \/ walk' = NotWalking /\ UNCHANGED <<clock, payments>>
  \/ UNCHANGED <<storeVars, walk>> /\ clock' \in {clock, clock + 1}
  \/ \E p \in Payments : PaymentChanges(p)
  \/ MemoryChanges /\ UNCHANGED <<clock, payments>> /\ Noticing({})

LEMMA StepKinds ==
  ASSUME StoresOK, [RecordsNext]_vars
  PROVE  Kinds
<1> USE DEF Kinds
<1>1. ASSUME NEW q \in Queries, StartReading(q) PROVE Kinds
  BY <1>1 DEF StartReading, Reads
<1>2. CASE ReadNext
  BY <1>2 DEF ReadNext, Reads
<1>3. CASE StopReading \/ RestartRecords
  BY <1>3 DEF StopReading, RestartRecords, storeVars
<1>4. CASE \/ \E r \in Makes : StartMaking(r)
           \/ SkipPart \/ AnswerMake \/ Tick \/ UNCHANGED vars
  BY <1>4 DEF StartMaking, SkipPart, AnswerMake, Tick, vars
<1>5. ASSUME NEW p \in Payments, MakeInvoice(p) PROVE Kinds
  <2>1. [status |-> "Pending", direction |-> Inbound, kind |-> "Bolt11",
         updated |-> clock] \in PaymentRecords
    BY DEF PaymentRecords, Statuses, Inbound, StoresOK
  <2>2. PaymentChanges(p)
    BY <1>5, <2>1 DEF MakeInvoice, PaymentChanges
  <2> QED BY <2>2
<1>6. ASSUME NEW p \in Payments, NEW d \in Arrivals, NewPayment(p, d)
      PROVE  Kinds
  <2>1. [d EXCEPT !.updated = clock] \in PaymentRecords
        /\ [d EXCEPT !.updated = clock].updated = clock
    BY RecordsAssumption DEF PaymentRecords, StoresOK
  <2>2. PaymentChanges(p)
    BY <1>6, <2>1 DEF NewPayment, PaymentChanges
  <2> QED BY <2>2
<1>7. ASSUME NEW p \in Payments, NEW s \in Statuses, MovePayment(p, s)
      PROVE  Kinds
  <2> DEFINE d == [[payments[p] EXCEPT !.status = s] EXCEPT !.updated = clock]
  <2>1. payments[p] \in PaymentRecords
    BY <1>7 DEF MovePayment, StoresOK, Stores
  <2>2. d \in PaymentRecords /\ d.updated = clock
    BY <2>1 DEF PaymentRecords, StoresOK
  <2>3. payments' = [payments EXCEPT ![p] = d]
    BY <1>7, <2>1 DEF MovePayment, StoresOK, Stores, PaymentRecords
  <2> HIDE DEF d
  <2>4. PaymentChanges(p)
    BY <1>7, <2>2, <2>3 DEF MovePayment, PaymentChanges
  <2> QED BY <2>4
<1>8. ASSUME NEW o \in Offers, MakeOffer(o) PROVE Kinds
  BY <1>8 DEF MakeOffer, MemoryChanges
<1>9. ASSUME NEW a \in Addresses, MakeNewAddress(a) PROVE Kinds
  BY <1>9 DEF MakeNewAddress, MemoryChanges
<1>10. ASSUME NEW i \in DOMAIN offers, DisableOffer(i) PROVE Kinds
  BY <1>10 DEF DisableOffer, MemoryChanges
<1>11. CASE RecordForward
  BY <1>11 DEF RecordForward, MemoryChanges
<1> QED BY <1>1, <1>2, <1>3, <1>4, <1>5, <1>6, <1>7, <1>8, <1>9, <1>10, <1>11
        DEF RecordsNext

LEMMA WalkStep ==
  ASSUME StoresOK, WalkOK, Kinds
  PROVE  WalkOK'
<1>1. ASSUME NEW q \in Queries,
             Reads(q, [NotWalking EXCEPT !.query = q, !.start = Held(q)])
      PROVE  WalkOK'
  <2> DEFINE w == [NotWalking EXCEPT !.query = q, !.start = Held(q)]
  <2>1. w \in Walks /\ w.query = q /\ Read(q, w)
    BY <1>1, StartIs DEF Reads
  <2> HIDE DEF w
  <2>2. walk' \in Walks /\ walk'.query = q
    BY <2>1, ReadIs
  <2> QED BY <2>2 DEF WalkOK
<1>2. CASE walk.pc = "reading" /\ Reads(walk.query, walk)
  <2>1. walk.query \in Queries /\ walk \in Walks /\ Read(walk.query, walk)
    BY <1>2 DEF WalkOK, Reads
  <2>2. walk' \in Walks /\ walk'.query = walk.query
    BY <2>1, ReadIs
  <2> QED BY <2>1, <2>2 DEF WalkOK
<1>3. CASE walk' = NotWalking
  <2>1. NotWalking \in Walks /\ NotWalking.pc = "none"
    BY EmptySeq DEF NotWalking, Walks
  <2> QED BY <1>3, <2>1 DEF WalkOK
<1>4. CASE UNCHANGED walk
  BY <1>4 DEF WalkOK
<1>5. ASSUME NEW ids \in SUBSET Payments, Noticing(ids) PROVE WalkOK'
  BY <1>5, NoticedIs
<1> QED BY <1>1, <1>2, <1>3, <1>4, <1>5 DEF Kinds, PaymentChanges

LEMMA ClockStep ==
  ASSUME StoresOK, StoresOK', ClockInv, Kinds
  PROVE  ClockInv'
<1>1. /\ clock \in Nat
      /\ \A p \in Payments : payments[p] # None => payments[p].updated \in Nat
  BY RecordsAssumption DEF StoresOK, Stores, PaymentRecords, Seconds
<1>2. ASSUME UNCHANGED payments, clock' \in {clock, clock + 1} PROVE ClockInv'
  BY <1>1, <1>2 DEF ClockInv
<1>3. ASSUME NEW p \in Payments, PaymentChanges(p) PROVE ClockInv'
  <2>1. PICK d \in PaymentRecords :
          d.updated = clock /\ payments' = [payments EXCEPT ![p] = d]
    BY <1>3 DEF PaymentChanges
  <2>2. \A r \in Payments : payments'[r] = IF r = p THEN d ELSE payments[r]
    BY <2>1 DEF StoresOK, Stores
  <2> QED BY <1>1, <1>3, <2>1, <2>2 DEF ClockInv, PaymentChanges
<1> QED BY <1>2, <1>3 DEF Kinds, Reads, storeVars

WalkInv == StoresOK /\ WalkOK /\ ClockInv

(* A page read with an order of the list reaches those ahead.               *)
LEMMA SafeRead ==
  ASSUME WalkInv, NEW q \in Queries, q.list \in PaymentLists,
         NEW w \in Walks, w.query = q, Reads(q, w), walk'.shrunk = FALSE,
         NEW h \in w.start,
         \/ h[1] \in w.touched
         \/ \E g \in w.start : g # h /\ g[2] = h[2]
         \/ h[1] \in Range(w.seen)
         \/ /\ Alone(q, h) /\ Cardinality(Newer(q, h[2])) >= Len(w.seen)
            /\ h[2] < clock \/ Cardinality(Newer(q, h[2])) = 0
  PROVE  Safe(h)'
<1>1. PICK s \in Orders(q) :
        /\ s \in Seq(Items)
        /\ SkipTake(s, Len(w.seen), q.limit) \in Seq(Items)
        /\ walk' \in Walks /\ walk'.query = q /\ walk'.start = w.start
        /\ walk'.touched = w.touched
        /\ walk'.seen = w.seen \o SkipTake(s, Len(w.seen), q.limit)
        /\ walk'.pc \in {"reading", "ended"}
        /\ walk'.pc = "ended" <=>
             \/ q.limit = None
             \/ Len(SkipTake(s, Len(w.seen), q.limit)) < q.limit
  BY ReadIs DEF WalkInv, Reads
<1> DEFINE page == SkipTake(s, Len(w.seen), q.limit)
<1>2. /\ w.seen \in Seq(Items) /\ Len(w.seen) \in Nat
      /\ page \in Seq(Items) /\ Len(page) \in Nat
      /\ walk'.seen = w.seen \o page
  <2>1. w.seen \in Seq(Items)
    BY DEF Walks
  <2>2. page \in Seq(Items)
    BY <1>1
  <2> QED BY <1>1, <2>1, <2>2, LenProperties
<1>3. /\ walk'.pc = "ended" <=> q.limit = None \/ Len(page) < q.limit
      /\ page = SkipTake(s, Len(w.seen), q.limit)
  BY <1>1
<1> HIDE DEF page
<1>4. /\ Len(walk'.seen) = Len(w.seen) + Len(page)
      /\ \A x : x \in Range(w.seen) \/ x \in Range(page)
                  => x \in Range(walk'.seen)
  <2>1. /\ walk'.seen \in Seq(Items)
        /\ Len(walk'.seen) = Len(w.seen) + Len(page)
        /\ \A i \in 1..Len(w.seen) + Len(page) : walk'.seen[i] =
             IF i <= Len(w.seen) THEN w.seen[i] ELSE page[i - Len(w.seen)]
    BY <1>2, ConcatProperties
  <2>2. \A i \in 1..Len(w.seen) :
          i \in 1..Len(walk'.seen) /\ walk'.seen[i] = w.seen[i]
    BY <1>2, <2>1
  <2>3. \A i \in 1..Len(page) :
          Len(w.seen) + i \in 1..Len(walk'.seen)
          /\ walk'.seen[Len(w.seen) + i] = page[i]
    BY <1>2, <2>1
  <2>5. /\ Range(w.seen) = {w.seen[i] : i \in 1..Len(w.seen)}
        /\ Range(page) = {page[i] : i \in 1..Len(page)}
        /\ Range(walk'.seen) = {walk'.seen[i] : i \in 1..Len(walk'.seen)}
    <3>1. \A u \in Seq(Items) : Range(u) = {u[i] : i \in 1..Len(u)}
      BY SeqRange
    <3> QED BY <1>2, <2>1, <3>1
  <2> QED BY <2>1, <2>2, <2>3, <2>5
<1>5. CASE h[1] \in w.touched \/ h[1] \in Range(w.seen)
           \/ \E g \in w.start : g # h /\ g[2] = h[2]
  BY <1>1, <1>4, <1>5 DEF Safe
<1>6. CASE /\ Alone(q, h) /\ Cardinality(Newer(q, h[2])) >= Len(w.seen)
           /\ h[2] < clock \/ Cardinality(Newer(q, h[2])) = 0
  <2>1. \/ h[1] \in Range(page)
        \/ /\ Cardinality(Newer(q, h[2])) >= Len(w.seen) + Len(page)
           /\ q.limit # None /\ ~(Len(page) < q.limit)
    BY <1>2, <1>3, <1>6, PageReaches DEF WalkInv
  <2>2. CASE h[1] \in Range(page)
    BY <1>4, <2>2 DEF Safe
  <2>3. CASE /\ Cardinality(Newer(q, h[2])) >= Len(w.seen) + Len(page)
             /\ q.limit # None /\ ~(Len(page) < q.limit)
    <3>1. q.limit \in Nat /\ q.limit # 0
      BY <2>3, QueryType
    <3>2. ~(Cardinality(Newer(q, h[2])) = 0)
      BY <1>2, <2>3, <3>1
    <3>3. walk'.pc = "reading"
      BY <1>1, <1>3, <2>3
    <3>4. UNCHANGED <<payments, clock>>
      BY DEF Reads, storeVars
    <3>5. Alone(q, h)' /\ Newer(q, h[2])' = Newer(q, h[2])
      BY <1>6, <3>4 DEF Alone, Newer
    <3>6. Ahead(h)'
      BY <1>1, <1>4, <1>6, <2>3, <3>2, <3>4, <3>5 DEF Ahead
    <3> QED BY <3>3, <3>6 DEF Safe
  <2> QED BY <2>1, <2>2, <2>3
<1> QED BY <1>5, <1>6

LEMMA SkipReads ==
  ASSUME WalkInv, NEW q \in Queries,
         Reads(q, [NotWalking EXCEPT !.query = q, !.start = Held(q)])
  PROVE  SkipInv'
<1> DEFINE w == [NotWalking EXCEPT !.query = q, !.start = Held(q)]
<1>1. /\ w \in Walks /\ w.query = q /\ w.start = Held(q) /\ w.seen = <<>>
      /\ w.touched = {} /\ Reads(q, w)
  BY StartIs DEF WalkInv
<1> HIDE DEF w
<1>2. walk'.query = q /\ walk'.start = w.start
  BY <1>1, ReadIs DEF WalkInv, Reads
<1> SUFFICES ASSUME q.list \in PaymentLists, walk'.shrunk = FALSE,
                    NEW h \in w.start
             PROVE  Safe(h)'
  BY <1>2 DEF SkipInv, Of
<1>3. /\ h \in Held(q)
      /\ Held(q) = {<<p, payments[p].updated>> : p \in Wanted(q, payments)}
  BY <1>1, PaymentOrders
<1>4. PICK p \in Wanted(q, payments) : h = <<p, payments[p].updated>>
  BY <1>3
<1>5. CASE \E g \in w.start : g # h /\ g[2] = h[2]
  BY <1>1, <1>5, SafeRead
<1>6. CASE ~ \E g \in w.start : g # h /\ g[2] = h[2]
  <2>1. \A r \in Wanted(q, payments) :
          <<r, payments[r].updated>> \in w.start
    BY <1>1, <1>3
  <2>2. Alone(q, h)
    BY <1>4, <1>6, <2>1 DEF Alone
  <2>3. /\ IsFiniteSet(Newer(q, h[2])) /\ Cardinality(Newer(q, h[2])) \in Nat
    <3>1. Newer(q, h[2]) \in SUBSET Wanted(q, payments)
      BY DEF Newer
    <3> QED BY <3>1, WantedFinite, FS_Subset, FS_CardinalityType
  <2>4. Len(w.seen) = 0
    BY <1>1, EmptySeq
  <2>5. h[2] < clock \/ Cardinality(Newer(q, h[2])) = 0
    <3>1. \A r \in Wanted(q, payments) :
            payments[r].updated \in Nat /\ payments[r].updated <= clock
            /\ clock \in Nat
      BY WantedTimes DEF WalkInv
    <3>2. h[2] \in Nat /\ h[2] <= clock /\ clock \in Nat
      BY <1>4, <3>1
    <3>3. CASE h[2] = clock
      <4>1. Newer(q, h[2]) = {}
        BY <3>1, <3>3 DEF Newer
      <4> QED BY <4>1, FS_EmptySet
    <3> QED BY <3>2, <3>3
  <2>6. Cardinality(Newer(q, h[2])) >= Len(w.seen)
    BY <2>3, <2>4
  <2> QED BY <1>1, <2>2, <2>5, <2>6, SafeRead
<1> QED BY <1>5, <1>6

LEMMA SkipNext ==
  ASSUME WalkInv, SkipInv, walk.pc = "reading", Reads(walk.query, walk)
  PROVE  SkipInv'
<1> DEFINE q == walk.query
<1>1. q \in Queries /\ walk \in Walks /\ Reads(q, walk)
  BY DEF WalkInv, WalkOK
<1>2. /\ walk'.query = q /\ walk'.start = walk.start
      /\ walk'.shrunk = walk.shrunk
  BY <1>1, ReadIs DEF WalkInv, Reads
<1> SUFFICES ASSUME q.list \in PaymentLists, walk'.shrunk = FALSE,
                    NEW h \in walk.start
             PROVE  Safe(h)'
  BY <1>2 DEF SkipInv, Of
<1>3. Safe(h)
  BY <1>2 DEF SkipInv, Of
<1> QED BY <1>1, <1>3, SafeRead DEF Safe, Ahead

LEMMA PaymentNames ==
  \A r \in Queries : r.list \in PaymentLists => Names(r) = Wanted(r, payments)
BY PaymentOrders

(* A payment that changes is newer than those that stay.                    *)
LEMMA AheadStays ==
  ASSUME WalkInv, NEW p \in Payments, PaymentChanges(p),
         walk.pc = "reading", walk.query.list \in PaymentLists,
         walk'.shrunk = FALSE, NEW h, Ahead(h), h[1] # p
  PROVE  Ahead(h)'
<1>q. PICK q : q = walk.query
  OBVIOUS
<1> DEFINE W == Wanted(q, payments)
<1>1. q \in Queries /\ walk'.query = q /\ walk'.seen = walk.seen /\ clock' = clock
      /\ Names(q) \subseteq Names(q)'
  BY <1>q, NoticedIs DEF WalkInv, WalkOK, PaymentChanges
<1>2. PICK d \in PaymentRecords :
        d.updated = clock /\ payments' = [payments EXCEPT ![p] = d]
  BY DEF PaymentChanges
<1>3. \A r \in Payments : payments'[r] = IF r = p THEN d ELSE payments[r]
  BY <1>2 DEF WalkInv, StoresOK, Stores
<1>4. /\ Names(q) = W /\ Names(q)' = Wanted(q, payments')
      /\ W \in SUBSET Payments /\ Wanted(q, payments') \in SUBSET Payments
      /\ IsFiniteSet(Wanted(q, payments'))
  <2>1. Names(q) = W
    BY <1>q, <1>1, PaymentOrders
  <2>2. Names(q)' = Wanted(q, payments)'
    <3>1. (\A r \in Queries : r.list \in PaymentLists
                               => Names(r) = Wanted(r, payments))'
      BY PaymentNames, PTL
    <3> QED BY <1>q, <1>1, <3>1
  <2> QED BY <2>1, <2>2, WantedFinite
<1>5. /\ Alone(q, h) /\ h[2] < clock
      /\ Cardinality(Newer(q, h[2])) >= Len(walk.seen)
      /\ h[2] \in Nat /\ clock \in Nat
  BY <1>q, WantedTimes DEF Ahead, Alone, WalkInv
<1>6. \A r \in Wanted(q, payments') : r # p => r \in W
  BY <1>3 DEF Wanted
<1>7. Alone(q, h)'
  <2>1. h[1] \in W /\ payments[h[1]].updated = h[2]
        /\ \A r \in W : payments[r].updated = h[2] => r = h[1]
    BY <1>5 DEF Alone
  <2>2. h[1] \in Wanted(q, payments') /\ payments'[h[1]].updated = h[2]
    BY <1>1, <1>3, <1>4, <2>1
  <2>3. ASSUME NEW r \in Wanted(q, payments'), payments'[r].updated = h[2]
        PROVE  r = h[1]
    <3>1. r \in Payments
      BY <1>4
    <3>2. r # p
      BY <1>2, <1>3, <1>5, <2>3, <3>1
    <3> QED BY <1>3, <1>6, <2>1, <2>3, <3>1, <3>2
  <2> QED BY <2>2, <2>3 DEF Alone
<1>8. Newer(q, h[2]) \subseteq Newer(q, h[2])'
  <2> SUFFICES ASSUME NEW r \in Newer(q, h[2]) PROVE r \in Newer(q, h[2])'
    OBVIOUS
  <2>1. r \in W /\ payments[r].updated > h[2] /\ r \in Payments
    BY <1>4 DEF Newer
  <2>2. r \in Wanted(q, payments')
    BY <1>1, <1>4, <2>1
  <2>3. payments'[r].updated > h[2]
    BY <1>2, <1>3, <1>5, <2>1
  <2> QED BY <2>2, <2>3 DEF Newer
<1>9. Cardinality(Newer(q, h[2])') >= Cardinality(Newer(q, h[2]))
  <2>1. Newer(q, h[2])' \in SUBSET Wanted(q, payments')
    BY DEF Newer
  <2>2. IsFiniteSet(Newer(q, h[2])')
    BY <1>4, <2>1, FS_Subset
  <2>3. /\ Cardinality(Newer(q, h[2])) <= Cardinality(Newer(q, h[2])')
        /\ IsFiniteSet(Newer(q, h[2]))
    BY <1>8, <2>2, FS_Subset
  <2>4. /\ Cardinality(Newer(q, h[2])) \in Nat
        /\ Cardinality(Newer(q, h[2])') \in Nat
    BY <2>2, <2>3, FS_CardinalityType
  <2> QED BY <2>3, <2>4
<1>10. Len(walk.seen) \in Nat /\ Cardinality(Newer(q, h[2])) \in Nat
       /\ Cardinality(Newer(q, h[2])') \in Nat
  <2>1. walk.seen \in Seq(Items)
    BY DEF WalkInv, WalkOK, Walks
  <2>2. Newer(q, h[2])' \in SUBSET Wanted(q, payments')
        /\ Newer(q, h[2]) \in SUBSET W
    BY DEF Newer
  <2>3. IsFiniteSet(Newer(q, h[2])') /\ IsFiniteSet(Newer(q, h[2]))
    BY <1>4, <2>2, WantedFinite, FS_Subset
  <2> QED BY <2>1, <2>3, FS_CardinalityType, LenProperties
<1> QED BY <1>q, <1>1, <1>5, <1>7, <1>9, <1>10 DEF Ahead

LEMMA SkipStep ==
  ASSUME WalkInv, SkipInv, Kinds
  PROVE  SkipInv'
<1>1. CASE walk' = NotWalking
  BY <1>1 DEF SkipInv, Of, NotWalking
<1>2. CASE UNCHANGED <<storeVars, walk>> /\ clock' \in {clock, clock + 1}
  <2>1. UNCHANGED <<payments, walk>>
    BY <1>2 DEF storeVars
  <2>2. ASSUME NEW h, Ahead(h), walk.pc = "reading",
               walk.query.list \in PaymentLists
        PROVE  Ahead(h)'
    <3>1. h[2] \in Nat /\ clock \in Nat
      BY <2>2, WantedTimes DEF Ahead, Alone, WalkInv
    <3>2. h[2] < clock'
      BY <1>2, <2>2, <3>1 DEF Ahead
    <3> QED BY <2>1, <2>2, <3>2 DEF Ahead, Alone, Newer
  <2> QED BY <2>1, <2>2 DEF SkipInv, Of, Safe
<1>3. ASSUME NEW p \in Payments, PaymentChanges(p) PROVE SkipInv'
  <2>1. /\ walk'.pc = walk.pc /\ walk'.query = walk.query
        /\ walk'.seen = walk.seen /\ walk'.start = walk.start
        /\ walk.pc # "reading" => walk' = walk
        /\ walk.pc = "reading" =>
             /\ walk'.touched = walk.touched \cup {p}
             /\ walk'.shrunk = FALSE => walk.shrunk = FALSE
    BY <1>3, NoticedIs DEF WalkInv, PaymentChanges
  <2>2. CASE walk.pc # "reading"
    BY <2>1, <2>2 DEF SkipInv, Of, Safe
  <2>3. CASE walk.pc = "reading"
    <3> SUFFICES ASSUME walk.query.list \in PaymentLists,
                        walk'.shrunk = FALSE, NEW h \in walk.start
                 PROVE  Safe(h)'
      BY <2>1 DEF SkipInv, Of
    <3>1. Safe(h)
      BY <2>1, <2>3 DEF SkipInv, Of
    <3>2. CASE h[1] = p
      BY <2>1, <2>3, <3>2 DEF Safe
    <3>3. CASE h[1] # p /\ Ahead(h)
      <4>1. Ahead(h)'
        BY <1>3, <2>3, <3>3, AheadStays
      <4> QED BY <2>1, <2>3, <4>1 DEF Safe
    <3>4. CASE h[1] # p /\ ~Ahead(h)
      BY <2>1, <2>3, <3>1, <3>4 DEF Safe
    <3> QED BY <3>2, <3>3, <3>4
  <2> QED BY <2>2, <2>3
<1>4. CASE UNCHANGED <<clock, payments>> /\ Noticing({})
  <2>1. /\ walk'.pc = walk.pc /\ walk'.query = walk.query
        /\ walk'.seen = walk.seen /\ walk'.start = walk.start
        /\ walk.pc # "reading" => walk' = walk
        /\ walk.pc = "reading" =>
             /\ walk'.touched = walk.touched \cup {}
             /\ walk'.shrunk = FALSE => walk.shrunk = FALSE
    <3>1. {} \in SUBSET Payments
      OBVIOUS
    <3> QED BY <1>4, <3>1, NoticedIs DEF WalkInv
  <2>2. \A h : Ahead(h) => Ahead(h)'
    BY <1>4, <2>1 DEF Ahead, Alone, Newer
  <2>3. CASE walk.pc # "reading"
    BY <2>1, <2>3 DEF SkipInv, Of, Safe
  <2>4. CASE walk.pc = "reading"
    <3> SUFFICES ASSUME walk.query.list \in PaymentLists,
                        walk'.shrunk = FALSE, NEW h \in walk.start
                 PROVE  Safe(h)'
      BY <2>1 DEF SkipInv, Of
    <3>1. Safe(h)
      BY <2>1, <2>4 DEF SkipInv, Of
    <3> QED BY <2>1, <2>2, <2>4, <3>1 DEF Safe
  <2> QED BY <2>3, <2>4
<1> QED BY <1>1, <1>2, <1>3, <1>4, SkipReads, SkipNext DEF Kinds

Starts(s, t) == /\ Len(s) <= Len(t)
                /\ \A i \in 1..Len(s) : s[i] = t[i]
StartIds == {h[1] : h \in walk.start}

LEMMA StartsPrefix ==
  ASSUME NEW S, NEW s \in Seq(S), NEW t \in Seq(S), Starts(s, t)
  PROVE  IsPrefix(s, t)
<1>1. Len(s) \in Nat /\ Len(t) \in Nat /\ Len(s) <= Len(t)
  BY DEF Starts
<1>2. /\ SubSeq(t, 1, Len(s)) \in Seq(S) /\ Len(SubSeq(t, 1, Len(s))) = Len(s)
      /\ \A i \in 1..Len(s) : SubSeq(t, 1, Len(s))[i] = t[i]
  BY <1>1
<1>3. SubSeq(t, 1, Len(s)) = s
  BY <1>1, <1>2, SeqEqual DEF Starts
<1>4. SubSeq(s, 1, Len(s)) = s
  BY SubSeqFull
<1> QED BY <1>1, <1>3, <1>4 DEF IsPrefix

LEMMA StartsInjective ==
  ASSUME NEW S, NEW s \in Seq(S), NEW t \in Seq(S), Starts(s, t), IsInjective(t)
  PROVE  IsInjective(s)
<1>1. /\ DOMAIN s = 1..Len(s) /\ DOMAIN t = 1..Len(t) /\ Len(s) \in Nat
      /\ Len(t) \in Nat
  BY LenProperties
<1>2. \A i \in 1..Len(s) : i \in 1..Len(t) /\ s[i] = t[i]
  BY <1>1 DEF Starts
<1> QED BY <1>1, <1>2 DEF IsInjective

(* A reader of a list whose order does not change reads it from end to end. *)
LEMMA ReadsOn ==
  ASSUME WalkInv, NEW q \in Queries, q.list \in OthersLists,
         NEW w \in Walks, w.query = q, Reads(q, w),
         Starts(w.seen, OnlyOrder(q))
  PROVE  /\ OnlyOrder(q)' = OnlyOrder(q)
         /\ Starts(walk'.seen, OnlyOrder(q))
         /\ walk'.pc = "ended" => walk'.seen = OnlyOrder(q)
         /\ walk'.query = q /\ walk'.start = w.start /\ walk'.grown = w.grown
         /\ walk'.shrunk = w.shrunk /\ walk' \in Walks
<1> DEFINE t == OnlyOrder(q)
           page == SkipTake(t, Len(w.seen), q.limit)
           n == q.limit
<1>1. t' = t
  BY DEF OnlyOrder, Reads, storeVars, OffersListed, ForwardsListed
<1>2. Orders(q) = {t} /\ t \in Seq(Items)
  BY OtherOrders DEF WalkInv
<1>3. /\ walk'.query = q /\ walk'.start = w.start /\ walk'.grown = w.grown
      /\ walk'.shrunk = w.shrunk /\ walk' \in Walks
      /\ walk'.seen = w.seen \o page
      /\ walk'.pc = "ended" <=> n = None \/ Len(page) < n
  <2>1. PICK s \in Orders(q) :
           /\ walk' \in Walks /\ walk'.query = q /\ walk'.start = w.start
           /\ walk'.grown = w.grown /\ walk'.shrunk = w.shrunk
           /\ walk'.seen = w.seen \o SkipTake(s, Len(w.seen), q.limit)
           /\ walk'.pc = "ended" <=>
                \/ q.limit = None
                \/ Len(SkipTake(s, Len(w.seen), q.limit)) < q.limit
    BY ReadIs DEF WalkInv, Reads
  <2>2. s = t
    BY <1>2, <2>1
  <2> HIDE DEF t
  <2> QED BY <2>1, <2>2
<1>4. n \in Nat \cup {None}
  BY QueryType
<1>5. /\ w.seen \in Seq(Items) /\ Len(w.seen) \in Nat /\ Len(t) \in Nat
      /\ Len(w.seen) <= Len(t) /\ \A i \in 1..Len(w.seen) : w.seen[i] = t[i]
  <2>1. w.seen \in Seq(Items)
    BY DEF Walks
  <2> QED BY <1>2, <2>1, LenProperties DEF Starts
<1> DEFINE o == Len(w.seen)
<1> HIDE DEF t, n
<1>6. /\ page \in Seq(Items) /\ o + Len(page) <= Len(t)
      /\ n = None \/ Len(page) < n => o + Len(page) = Len(t)
      /\ \A i \in 1..Len(page) : page[i] = t[o + i]
  <2> DEFINE P == SkipTake(t, o, n)
  <2>0. t \in Seq(Items) /\ o \in 0..Len(t)
    BY <1>2, <1>5
  <2>1. P \in Seq(Items) /\ o + Len(P) <= Len(t)
    BY <1>4, <2>0, PagesCover
  <2>2. n = None \/ Len(P) < n => o + Len(P) = Len(t)
    BY <1>4, <2>0, PagesCover
  <2>3. \A i \in 1..Len(P) : P[i] = t[o + i]
    BY <1>4, <2>0, PagesCover
  <2>4. P = page
    BY DEF n
  <2> HIDE DEF P, page, o
  <2> QED BY <2>1, <2>2, <2>3, <2>4
<1> HIDE DEF page
<1>7. Len(page) \in Nat
  BY <1>6, LenProperties
<1>8. /\ walk'.seen \in Seq(Items) /\ Len(walk'.seen) = o + Len(page)
      /\ \A i \in 1..o + Len(page) : walk'.seen[i] =
           IF i <= o THEN w.seen[i] ELSE page[i - o]
  BY <1>3, <1>5, <1>6, ConcatProperties
<1>9. ASSUME NEW i \in 1..Len(walk'.seen) PROVE walk'.seen[i] = t[i]
  <2>1. CASE i <= o
    BY <1>5, <1>7, <1>8, <2>1
  <2>2. CASE ~(i <= o)
    <3>1. i - o \in 1..Len(page) /\ o + (i - o) = i
      BY <1>5, <1>7, <1>8, <2>2
    <3> QED BY <1>6, <1>8, <2>2, <3>1
  <2> QED BY <2>1, <2>2
<1>10. Starts(walk'.seen, t)
  BY <1>6, <1>8, <1>9 DEF Starts
<1>11. ASSUME walk'.pc = "ended" PROVE walk'.seen = t
  <2>1. Len(walk'.seen) = Len(t)
    BY <1>3, <1>6, <1>8, <1>11
  <2> QED BY <1>2, <1>8, <1>9, <2>1, SeqEqual
<1> QED BY <1>1, <1>3, <1>10, <1>11 DEF t

----------------------------------------------------------------------------
(* What a step does to the order of a list.                                 *)

OtherNamed == \A q \in Queries :
  q.list \in OthersLists => Names(q) = Range(OnlyOrder(q))
OffersNamed == \A q \in Queries :
  Range(OffersListed(q))
    = {offers[i].offer : i \in {j \in DOMAIN offers :
                                  q.active_only => offers[j].active}}

LEMMA ListNames == StoresOK => OtherNamed /\ OffersNamed
<1> SUFFICES ASSUME StoresOK, NEW q \in Queries
             PROVE  /\ q.list \in OthersLists => Names(q) = Range(OnlyOrder(q))
                    /\ Range(OffersListed(q))
                         = {offers[i].offer : i \in {j \in DOMAIN offers :
                                  q.active_only => offers[j].active}}
  BY DEF OtherNamed, OffersNamed
<1> QED BY OtherOrders, OffersAre

(* Recorded forwards come after the others.                                 *)
LEMMA ForwardsGrow ==
  ASSUME StoresOK, NEW q, forwards' = Append(forwards, clock)
  PROVE  /\ Starts(ForwardsListed(q), ForwardsListed(q)')
         /\ Range(ForwardsListed(q)) \subseteq Range(ForwardsListed(q)')
<1> DEFINE n == Len(forwards)
           P == {i \in DOMAIN forwards : Between(q, forwards[i])}
           Q == {i \in DOMAIN forwards' : Between(q, forwards'[i])}
<1>1. /\ forwards \in Seq(Seconds) /\ n \in Nat /\ DOMAIN forwards = 1..n
      /\ DOMAIN forwards' = 1..(n + 1) /\ forwards'[n + 1] = clock
      /\ \A i \in 1..n : forwards'[i] = forwards[i]
  <2>1. forwards \in Seq(Seconds) /\ clock \in Seconds
    BY DEF StoresOK
  <2>2. /\ forwards' \in Seq(Seconds) /\ Len(forwards') = n + 1
        /\ \A i \in 1..n : forwards'[i] = forwards[i]
        /\ forwards'[n + 1] = clock
    BY <2>1, AppendProperties
  <2> QED BY <2>1, <2>2, LenProperties
<1>2. ForwardsListed(q) = InPlace(P) /\ ForwardsListed(q)' = InPlace(Q)
  BY DEF ForwardsListed
<1>3. /\ P \in SUBSET Nat /\ IsFiniteSet(P) /\ InPlace(P) \in Seq(P)
      /\ P \in SUBSET (1..n)
  <2>1. P \in SUBSET (DOMAIN forwards)
    OBVIOUS
  <2> HIDE DEF P
  <2> QED BY <1>1, <2>1, PlacesOf
<1>4. Q = P \/ Q = P \cup {n + 1}
  <2>1. \A i : i \in 1..(n + 1) <=> i \in 1..n \/ i = n + 1
    BY <1>1
  <2>2. \A i : i # n + 1 => (i \in Q <=> i \in P)
    BY <1>1, <2>1
  <2>3. n + 1 \notin P
    BY <1>1
  <2> HIDE DEF P, Q
  <2> QED BY <2>2, <2>3
<1> HIDE DEF P, Q
<1>5. CASE Q = P
  BY <1>2, <1>3, <1>5, LenProperties DEF Starts
<1>6. CASE Q = P \cup {n + 1}
  <2> DEFINE s == InPlace(P)
             t == Append(s, n + 1)
  <2>1. ForwardsListed(q)' = t
    <3>1. n + 1 \in Nat /\ \A x \in P : x < n + 1
      BY <1>1, <1>3
    <3> QED BY <1>2, <1>3, <1>6, <3>1, InPlaceAppend
  <2>2. s \in Seq(Nat) /\ n + 1 \in Nat
    <3>1. s \in Seq(P) /\ P \subseteq Nat
      BY <1>3
    <3> HIDE DEF s
    <3>2. s \in Seq(Nat)
      BY <3>1, SeqMonotonic, Zenon
    <3>3. n + 1 \in Nat
      BY <1>1
    <3> QED BY <3>2, <3>3
  <2> HIDE DEF s
  <2>3. /\ t \in Seq(Nat) /\ Len(t) = Len(s) + 1 /\ Len(s) \in Nat
        /\ \A i \in 1..Len(s) : t[i] = s[i]
    BY <2>2, AppendProperties, LenProperties
  <2> HIDE DEF t
  <2>4. Starts(s, t)
    BY <2>3 DEF Starts
  <2>5. \A u \in Seq(Nat) : Range(u) = {u[i] : i \in 1..Len(u)}
    BY SeqRange
  <2>6. \A i \in 1..Len(s) : i \in 1..Len(t)
    BY <2>3
  <2>7. Range(s) \subseteq Range(t)
    <3>1. /\ Range(s) = {s[i] : i \in 1..Len(s)}
          /\ Range(t) = {t[i] : i \in 1..Len(t)}
      BY <2>2, <2>3, <2>5
    <3>2. \A i \in 1..Len(s) : s[i] \in {t[j] : j \in 1..Len(t)}
      BY <2>3, <2>6
    <3> QED BY <3>1, <3>2
  <2> QED BY <1>2, <2>1, <2>4, <2>7 DEF s
<1> QED BY <1>4, <1>5, <1>6

(* Unless it brings a name or takes one away, a step leaves the order of a  *)
(* list of offers or addresses.                                             *)
LEMMA OrderStays ==
  ASSUME StoresOK, StoresOK', MemoryChanges, NEW q \in Queries,
         q.list \in {"list_offers", "list_addresses"},
         Names(q)' \subseteq Names(q), Names(q) \subseteq Names(q)'
  PROVE  OnlyOrder(q)' = OnlyOrder(q)
<1>n. OtherNamed /\ OtherNamed' /\ OffersNamed /\ OffersNamed'
  BY ListNames, PTL
<1>1. /\ Names(q) = Range(OnlyOrder(q))
      /\ Names(q)' = Range(OnlyOrder(q)')
  <2>1. q.list \in OthersLists
    BY DEF OthersLists
  <2> QED BY <1>n, <2>1 DEF OtherNamed
<1>2. Range(OnlyOrder(q)') = Range(OnlyOrder(q))
  <2>1. Names(q)' = Names(q)
    OBVIOUS
  <2> QED BY <1>1, <2>1
<1>o. /\ q.list = "list_offers" =>
           OnlyOrder(q) = OffersListed(q) /\ OnlyOrder(q)' = OffersListed(q)'
      /\ q.list = "list_addresses" =>
           OnlyOrder(q) = addresses /\ OnlyOrder(q)' = addresses'
  BY DEF OnlyOrder
<1>3. ASSUME NEW o \in Offers, o \notin Stored(offers, "offer"),
             offers' \in InsertOffer(o), UNCHANGED addresses
      PROVE  OnlyOrder(q)' = OnlyOrder(q)
  <2>1. CASE q.list = "list_addresses"
    BY <1>3, <1>o, <2>1
  <2>2. CASE q.list = "list_offers"
    <3> DEFINE r == [offer |-> o, active |-> TRUE]
               S == Range(offers) \cup {r}
    <3>1. /\ IsFiniteSet(Range(offers)) /\ offers' \in SetToSeqs(S)
      BY <1>3, SeqRange DEF InsertOffer, Inserted, StoresOK
    <3>2. IsFiniteSet(S) /\ r \in S
      BY <3>1, FS_AddElement
    <3>3. PICK i \in 1..Len(offers') : offers'[i] = r
      BY <3>1, <3>2, ElementsOf
    <3>4. i \in DOMAIN offers'
      BY LenProperties DEF StoresOK
    <3>6. offers'[i].offer \in Range(OffersListed(q)')
      BY <1>n, <3>3, <3>4 DEF OffersNamed
    <3>7. o \in Range(OffersListed(q))
      BY <1>2, <1>o, <2>2, <3>3, <3>6
    <3>8. \A x \in Range(OffersListed(q)) : x \in Stored(offers, "offer")
      BY <1>n DEF Stored, OffersNamed
    <3> QED BY <1>3, <3>7, <3>8
  <2> QED BY <2>1, <2>2
<1>4. ASSUME NEW a \in Addresses, a \notin Range(addresses),
             addresses' \in Inserted(addresses, a), UNCHANGED offers
      PROVE  OnlyOrder(q)' = OnlyOrder(q)
  <2>1. CASE q.list = "list_offers"
    BY <1>4, <1>o, <2>1 DEF OffersListed
  <2>2. CASE q.list = "list_addresses"
    <3>1. Range(addresses') = Range(addresses) \cup {a}
      BY <1>4, InsertAddressType
    <3> QED BY <1>2, <1>4, <1>o, <2>2, <3>1
  <2> QED BY <2>1, <2>2
<1>5. ASSUME NEW i \in DOMAIN offers,
             offers' = [offers EXCEPT ![i].active = FALSE], UNCHANGED addresses
      PROVE  OnlyOrder(q)' = OnlyOrder(q)
  <2>1. CASE q.list = "list_addresses"
    BY <1>5, <1>o, <2>1
  <2>2. CASE q.list = "list_offers"
    <3> DEFINE P == {j \in DOMAIN offers : q.active_only => offers[j].active}
               Q == {j \in DOMAIN offers' : q.active_only => offers'[j].active}
    <3>1. /\ offers \in Seq(OfferRecords) /\ DOMAIN offers' = DOMAIN offers
          /\ \A j \in DOMAIN offers : offers'[j].offer = offers[j].offer
          /\ \A j \in DOMAIN offers : j # i => offers'[j] = offers[j]
          /\ offers'[i].active = FALSE
      <4> DEFINE r == [offers[i] EXCEPT !.active = FALSE]
      <4>1. offers \in Seq(OfferRecords) /\ offers[i] \in OfferRecords
        BY DEF StoresOK
      <4>2. r.active = FALSE /\ r.offer = offers[i].offer
        BY <4>1 DEF OfferRecords
      <4>3. offers' = [offers EXCEPT ![i] = r]
        BY <1>5
      <4> HIDE DEF r
      <4> QED BY <4>1, <4>2, <4>3
    <3>3. /\ Range(OffersListed(q)') = {offers'[k].offer : k \in Q}
          /\ Range(OffersListed(q)) = {offers[k].offer : k \in P}
      BY <1>n DEF OffersNamed
    <3>4. q.active_only => i \notin P
      <4> SUFFICES ASSUME q.active_only, i \in P PROVE FALSE
        OBVIOUS
      <4>1. offers[i].offer \in {offers'[k].offer : k \in Q}
        BY <1>2, <1>o, <2>2, <3>3
      <4>2. PICK k \in Q : offers'[k].offer = offers[i].offer
        BY <4>1
      <4>3. k \in DOMAIN offers /\ offers[k].offer = offers[i].offer
        BY <3>1, <4>2
      <4>4. k = i
        BY <4>3 DEF StoresOK
      <4> QED BY <3>1, <4>2, <4>4
    <3>5. Q = P
      BY <3>1, <3>4
    <3> DEFINE left == InPlace(P)
    <3>6. OffersListed(q) = [j \in DOMAIN left |-> offers[left[j]].offer]
      BY DEF OffersListed
    <3>7. OffersListed(q)' = [j \in DOMAIN left |-> offers'[left[j]].offer]
      <4>1. OffersListed(q)' = [j \in DOMAIN InPlace(Q) |->
                                  offers'[InPlace(Q)[j]].offer]
        BY DEF OffersListed
      <4> HIDE DEF P, Q
      <4> QED BY <3>5, <4>1
    <3>8. \A j \in DOMAIN left : left[j] \in DOMAIN offers
      <4>1. P \in SUBSET (DOMAIN offers)
        OBVIOUS
      <4> HIDE DEF P
      <4>2. left \in Seq(P)
        BY <3>1, <4>1, PlacesOf
      <4> HIDE DEF left
      <4> QED BY <4>1, <4>2, ElementOfSeq, LenProperties
    <3> HIDE DEF left, P, Q
    <3>9. OffersListed(q)' = OffersListed(q)
      BY <3>1, <3>6, <3>7, <3>8
    <3> QED BY <1>o, <2>2, <3>9
  <2> QED BY <2>1, <2>2
<1>6. CASE forwards' = Append(forwards, clock) /\ UNCHANGED <<offers, addresses>>
  BY <1>6, <1>o DEF OffersListed
<1> QED BY <1>3, <1>4, <1>5, <1>6 DEF MemoryChanges

(* The history grows behind a reader.                                       *)
HistoryInv ==
  Of({"get_forwarding_history"}) =>
    /\ Starts(walk.seen, ForwardsListed(walk.query))
    /\ StartIds \subseteq Range(ForwardsListed(walk.query))
    /\ walk.pc = "ended" => StartIds \subseteq Range(walk.seen)

(* The order of the others is the reader's until a name comes or goes.      *)
OnceInv ==
  /\ Of({"list_offers", "list_addresses"})
  /\ walk.grown = FALSE /\ walk.shrunk = FALSE
  => /\ IsInjective(walk.seen)
     /\ walk.pc = "ended" => Range(walk.seen) = StartIds
     /\ walk.pc = "reading" =>
          /\ Starts(walk.seen, OnlyOrder(walk.query))
          /\ StartIds = Range(OnlyOrder(walk.query))

LEMMA OrdersInjective ==
  ASSUME StoresOK, NEW q, q.list \in {"list_offers", "list_addresses"}
  PROVE  IsInjective(OnlyOrder(q))
<1>1. IsInjective(OffersListed(q)) /\ IsInjective(addresses)
  BY OffersAre DEF StoresOK
<1> QED BY <1>1 DEF OnlyOrder

LEMMA HistoryOrder ==
  ASSUME NEW q, q.list = "get_forwarding_history"
  PROVE  OnlyOrder(q) = ForwardsListed(q)
BY DEF OnlyOrder

HistoryTyped == \A q : ForwardsListed(q) \in Seq(Nat)
LEMMA HistoryType == StoresOK => HistoryTyped
BY ForwardsAre DEF HistoryTyped

(* A page of a list that is no payments.                                    *)
LEMMA ListReads ==
  ASSUME WalkInv, NEW q \in Queries, NEW w \in Walks, w.query = q, Reads(q, w),
         q.list \in OthersLists => Starts(w.seen, OnlyOrder(q)),
         NEW ids, ids = {h[1] : h \in w.start},
         q.list = "get_forwarding_history" => ids \subseteq Range(OnlyOrder(q)),
         q.list \in {"list_offers", "list_addresses"}
           => ids = Range(OnlyOrder(q))
  PROVE  HistoryInv' /\ OnceInv'
<1>1. q.list \in OthersLists =>
        /\ OnlyOrder(q)' = OnlyOrder(q)
        /\ Starts(walk'.seen, OnlyOrder(q))
        /\ walk'.pc = "ended" => walk'.seen = OnlyOrder(q)
        /\ walk'.query = q /\ walk'.start = w.start /\ walk' \in Walks
  BY ReadsOn
<1>2. walk'.query = q /\ walk'.start = w.start
  BY ReadIs DEF WalkInv, Reads
<1>3. StartIds' = ids
  BY <1>2 DEF StartIds
<1>4. CASE q.list = "get_forwarding_history"
  <2>1. q.list \in OthersLists /\ q.list \notin {"list_offers", "list_addresses"}
    BY <1>4 DEF OthersLists
  <2>2. OnlyOrder(q) = ForwardsListed(q) /\ OnlyOrder(q)' = ForwardsListed(q)'
    BY <1>4 DEF OnlyOrder
  <2>3. HistoryInv'
    BY <1>1, <1>2, <1>3, <1>4, <2>1, <2>2 DEF HistoryInv
  <2>4. OnceInv'
    BY <1>2, <2>1 DEF OnceInv, Of
  <2> QED BY <2>3, <2>4
<1>5. CASE q.list \in {"list_offers", "list_addresses"}
  <2>1. q.list \in OthersLists /\ q.list # "get_forwarding_history"
    BY <1>5 DEF OthersLists
  <2>2. HistoryInv'
    BY <1>2, <2>1 DEF HistoryInv, Of
  <2>3. IsInjective(walk'.seen)
    <3>1. OnlyOrder(q) \in Seq(Items)
      BY <2>1, OtherOrders DEF WalkInv
    <3>2. walk'.seen \in Seq(Items)
      BY <1>1, <2>1 DEF Walks
    <3>3. IsInjective(OnlyOrder(q))
      BY <1>5, OrdersInjective DEF WalkInv
    <3> QED BY <1>1, <2>1, <3>1, <3>2, <3>3, StartsInjective
  <2>4. OnceInv'
    BY <1>1, <1>2, <1>3, <1>5, <2>1, <2>3 DEF OnceInv
  <2> QED BY <2>2, <2>4
<1>6. CASE q.list \in PaymentLists
  <2>1. /\ q.list # "get_forwarding_history"
        /\ q.list \notin {"list_offers", "list_addresses"}
    BY <1>6 DEF PaymentLists
  <2> QED BY <1>2, <2>1 DEF HistoryInv, OnceInv, Of
<1> QED BY <1>4, <1>5, <1>6, QueryType DEF OthersLists

LEMMA ListStart ==
  ASSUME WalkInv, NEW q \in Queries,
         Reads(q, [NotWalking EXCEPT !.query = q, !.start = Held(q)])
  PROVE  HistoryInv' /\ OnceInv'
<1> DEFINE w == [NotWalking EXCEPT !.query = q, !.start = Held(q)]
           ids == {h[1] : h \in w.start}
<1>1. /\ w \in Walks /\ w.query = q /\ w.start = Held(q) /\ w.seen = <<>>
      /\ Reads(q, w)
  BY StartIs DEF WalkInv
<1> HIDE DEF w
<1>2. ids = Names(q)
  BY <1>1 DEF Names
<1>3. q.list \in OthersLists => Names(q) = Range(OnlyOrder(q))
  BY OtherOrders DEF WalkInv
<1>4. q.list \in OthersLists => Starts(w.seen, OnlyOrder(q))
  <2> SUFFICES ASSUME q.list \in OthersLists PROVE Starts(w.seen, OnlyOrder(q))
    OBVIOUS
  <2>1. OnlyOrder(q) \in Seq(Items)
    BY OtherOrders DEF WalkInv
  <2>2. Len(OnlyOrder(q)) \in Nat /\ Len(w.seen) = 0
    BY <1>1, <2>1, LenProperties, EmptySeq
  <2> QED BY <2>2 DEF Starts
<1> QED BY <1>1, <1>2, <1>3, <1>4, ListReads DEF OthersLists

LEMMA ListNext ==
  ASSUME WalkInv, HistoryInv, OnceInv, walk.pc = "reading",
         Reads(walk.query, walk)
  PROVE  HistoryInv' /\ OnceInv'
<1>q. PICK q : q = walk.query
  OBVIOUS
<1>1. q \in Queries /\ walk \in Walks /\ Reads(q, walk)
  BY <1>q DEF WalkInv, WalkOK
<1>2. /\ walk'.query = q /\ walk'.start = walk.start
      /\ walk'.grown = walk.grown /\ walk'.shrunk = walk.shrunk
  BY <1>1, <1>q, ReadIs DEF WalkInv, Reads
<1>3. CASE q.list \in {"list_offers", "list_addresses"}
           /\ ~(walk.grown = FALSE /\ walk.shrunk = FALSE)
  BY <1>2, <1>3 DEF HistoryInv, OnceInv, Of
<1>4. CASE ~(q.list \in {"list_offers", "list_addresses"}
             /\ ~(walk.grown = FALSE /\ walk.shrunk = FALSE))
  <2>1. q.list = "get_forwarding_history" =>
          /\ Starts(walk.seen, OnlyOrder(q))
          /\ StartIds \subseteq Range(OnlyOrder(q))
    BY <1>q, HistoryOrder DEF HistoryInv, Of
  <2>2. q.list \in {"list_offers", "list_addresses"} =>
          /\ Starts(walk.seen, OnlyOrder(q))
          /\ StartIds = Range(OnlyOrder(q))
    BY <1>q, <1>4 DEF OnceInv, Of
  <2>3. q.list \in OthersLists => Starts(walk.seen, OnlyOrder(q))
    BY <2>1, <2>2 DEF OthersLists
  <2>4. StartIds = {h[1] : h \in walk.start}
    BY DEF StartIds
  <2> QED BY <1>1, <1>q, <2>1, <2>2, <2>3, <2>4, ListReads
<1> QED BY <1>3, <1>4

(* A step that leaves a reader's place.                                     *)
LEMMA ListNoticed ==
  ASSUME WalkInv, StoresOK', HistoryInv, OnceInv, Kinds,
         NEW ids \in SUBSET Payments, Noticing(ids),
         \/ UNCHANGED <<offers, addresses, forwards>>
         \/ MemoryChanges
  PROVE  HistoryInv' /\ OnceInv'
<1>q. PICK q : q = walk.query
  OBVIOUS
<1>1. /\ walk'.pc = walk.pc /\ walk'.query = q
      /\ walk'.seen = walk.seen /\ walk'.start = walk.start
      /\ walk.pc # "reading" => walk' = walk
      /\ walk.pc = "reading" =>
           /\ walk'.grown = FALSE =>
                walk.grown = FALSE /\ Names(q)' \subseteq Names(q)
           /\ walk'.shrunk = FALSE =>
                walk.shrunk = FALSE /\ Names(q) \subseteq Names(q)'
      /\ walk.pc # "none" => q \in Queries
  BY <1>q, NoticedIs DEF WalkInv, WalkOK
<1>2. StartIds' = StartIds
  BY <1>1 DEF StartIds
<1>3. HistoryInv'
  <2> SUFFICES ASSUME walk.pc # "none", q.list = "get_forwarding_history"
               PROVE  /\ Starts(walk.seen, ForwardsListed(q)')
                      /\ StartIds \subseteq Range(ForwardsListed(q)')
                      /\ walk.pc = "ended" => StartIds \subseteq Range(walk.seen)
    BY <1>1, <1>2 DEF HistoryInv, Of
  <2>1. /\ Starts(walk.seen, ForwardsListed(q))
        /\ StartIds \subseteq Range(ForwardsListed(q))
        /\ walk.pc = "ended" => StartIds \subseteq Range(walk.seen)
    BY <1>q DEF HistoryInv, Of
  <2>2. CASE UNCHANGED forwards
    BY <2>1, <2>2 DEF ForwardsListed
  <2>3. CASE forwards' = Append(forwards, clock)
    <3>1. /\ Starts(ForwardsListed(q), ForwardsListed(q)')
          /\ Range(ForwardsListed(q)) \subseteq Range(ForwardsListed(q)')
      BY <2>3, ForwardsGrow DEF WalkInv
    <3>2. ForwardsListed(q)' \in Seq(Nat)
      <4>1. HistoryTyped'
        BY HistoryType, PTL
      <4> QED BY <4>1 DEF HistoryTyped
    <3>3. /\ walk.seen \in Seq(Items) /\ ForwardsListed(q) \in Seq(Nat)
      BY ForwardsAre DEF WalkInv, WalkOK, Walks
    <3>4. /\ Len(walk.seen) \in Nat /\ Len(ForwardsListed(q)) \in Nat
          /\ Len(ForwardsListed(q)') \in Nat
      BY <3>2, <3>3, LenProperties
    <3>5. Starts(walk.seen, ForwardsListed(q)')
      BY <2>1, <3>1, <3>4 DEF Starts
    <3> QED BY <2>1, <3>1, <3>5
  <2> QED BY <2>2, <2>3 DEF MemoryChanges
<1>4. OnceInv'
  <2> SUFFICES ASSUME walk.pc # "none",
                      q.list \in {"list_offers", "list_addresses"},
                      walk'.grown = FALSE, walk'.shrunk = FALSE
               PROVE  /\ IsInjective(walk.seen)
                      /\ walk.pc = "ended" => Range(walk.seen) = StartIds
                      /\ walk.pc = "reading" =>
                           /\ Starts(walk.seen, OnlyOrder(q)')
                           /\ StartIds = Range(OnlyOrder(q)')
    BY <1>1, <1>2 DEF OnceInv, Of
  <2>1. walk.grown = FALSE /\ walk.shrunk = FALSE
    BY <1>1
  <2>2. /\ IsInjective(walk.seen)
        /\ walk.pc = "ended" => Range(walk.seen) = StartIds
        /\ walk.pc = "reading" => /\ Starts(walk.seen, OnlyOrder(q))
                                  /\ StartIds = Range(OnlyOrder(q))
    BY <1>q, <2>1 DEF OnceInv, Of
  <2>3. CASE walk.pc = "reading"
    <3>1. CASE UNCHANGED <<offers, addresses, forwards>>
      <4>1. OnlyOrder(q)' = OnlyOrder(q)
        BY <3>1 DEF OnlyOrder, OffersListed, ForwardsListed
      <4> QED BY <2>2, <2>3, <4>1
    <3>2. CASE MemoryChanges
      <4>1. OnlyOrder(q)' = OnlyOrder(q)
        BY <1>1, <2>3, <3>2, OrderStays DEF WalkInv
      <4> QED BY <2>2, <2>3, <4>1
    <3> QED BY <3>1, <3>2
  <2> QED BY <2>2, <2>3
<1> QED BY <1>3, <1>4

LEMMA ListStep ==
  ASSUME WalkInv, StoresOK', HistoryInv, OnceInv, Kinds
  PROVE  HistoryInv' /\ OnceInv'
<1>1. CASE walk' = NotWalking
  BY <1>1 DEF HistoryInv, OnceInv, Of, NotWalking
<1>2. CASE UNCHANGED <<storeVars, walk>>
  BY <1>2 DEF storeVars, HistoryInv, OnceInv, Of, StartIds, OnlyOrder,
              OffersListed, ForwardsListed
<1>3. ASSUME NEW p \in Payments, PaymentChanges(p)
      PROVE  HistoryInv' /\ OnceInv'
  BY <1>3, ListNoticed DEF PaymentChanges
<1>4. CASE MemoryChanges /\ Noticing({})
  <2>1. {} \in SUBSET Payments
    OBVIOUS
  <2> QED BY <1>4, <2>1, ListNoticed
<1> QED BY <1>1, <1>2, <1>3, <1>4, ListStart, ListNext DEF Kinds

----------------------------------------------------------------------------
RecordsInv == StoresInv /\ WalkOK /\ ClockInv /\ SkipInv /\ HistoryInv /\ OnceInv

LEMMA RecordsStart == RecordsInit => RecordsInv
<1> SUFFICES ASSUME RecordsInit PROVE RecordsInv
  OBVIOUS
<1>1. walk = NotWalking /\ ClockInv
  BY DEF RecordsInit, ClockInv
<1>2. NotWalking \in Walks /\ NotWalking.pc = "none"
  BY EmptySeq DEF NotWalking, Walks
<1>3. WalkOK /\ SkipInv /\ HistoryInv /\ OnceInv
  BY <1>1, <1>2 DEF WalkOK, SkipInv, HistoryInv, OnceInv, Of
<1> QED BY <1>1, <1>3, StoresStart DEF RecordsInv

LEMMA RecordsStep == RecordsInv /\ [RecordsNext]_vars => RecordsInv'
<1> SUFFICES ASSUME RecordsInv, [RecordsNext]_vars PROVE RecordsInv'
  OBVIOUS
<1>1. StoresInv' /\ StoresOK' /\ StoresOK
  BY StoresStep DEF RecordsInv, StoresInv
<1>2. Kinds
  BY <1>1, StepKinds
<1>3. WalkOK' /\ ClockInv'
  BY <1>1, <1>2, WalkStep, ClockStep DEF RecordsInv
<1>4. WalkInv
  BY <1>1 DEF RecordsInv, WalkInv
<1>5. SkipInv'
  BY <1>2, <1>4, SkipStep DEF RecordsInv
<1>6. HistoryInv' /\ OnceInv'
  BY <1>1, <1>2, <1>4, ListStep DEF RecordsInv
<1> QED BY <1>1, <1>3, <1>5, <1>6 DEF RecordsInv

LEMMA AlwaysRecords == RecordsSpec => []RecordsInv
BY RecordsStart, RecordsStep, PTL DEF RecordsSpec

(* The stores, the request and the reader have their types.                 *)
THEOREM RecordsTypeCorrect == RecordsSpec => []RecordsTypeOK
<1>1. RecordsInv => RecordsTypeOK
  BY DEF RecordsInv, StoresInv, StoresOK, WalkOK, Walks, RecordsTypeOK
<1> QED BY <1>1, AlwaysRecords, PTL

(* For any payments, arrivals and filters, and pages of any size, a client  *)
(* that reads on from where it stopped is shown every payment that was      *)
(* there, has kept its time and has no other of the same second             *)
(* (ldk_service.rs:823-839, lib.rs:1854-1862).                              *)
THEOREM NothingIsSkipped == RecordsSpec => []NothingSkipped
<1>1. RecordsInv => NothingSkipped
  <2> SUFFICES ASSUME RecordsInv, Of(PaymentLists), walk.pc = "ended",
                      ~walk.shrunk, NEW h \in walk.start
               PROVE  \/ h[1] \in walk.touched
                      \/ \E g \in walk.start : g # h /\ g[2] = h[2]
                      \/ h[1] \in Range(walk.seen)
    BY DEF NothingSkipped
  <2>1. walk.shrunk = FALSE
    BY DEF RecordsInv, WalkOK, Walks
  <2> QED BY <2>1 DEF RecordsInv, SkipInv, Safe
<1> QED BY <1>1, AlwaysRecords, PTL

(* The pages of the forwarding history are a prefix of it, whatever is      *)
(* recorded between them (forwarding_store.rs:22-48).                       *)
THEOREM ForwardsReadInOrder == RecordsSpec => []ForwardsInOrder
<1>1. RecordsInv => ForwardsInOrder
  <2> SUFFICES ASSUME RecordsInv, Of({"get_forwarding_history"})
               PROVE  /\ IsPrefix(walk.seen, ForwardsListed(walk.query))
                      /\ walk.pc = "ended" =>
                           {h[1] : h \in walk.start} \subseteq Range(walk.seen)
    BY DEF ForwardsInOrder
  <2>1. /\ Starts(walk.seen, ForwardsListed(walk.query))
        /\ walk.pc = "ended" => StartIds \subseteq Range(walk.seen)
    BY DEF RecordsInv, HistoryInv
  <2>2. walk.seen \in Seq(Items) /\ ForwardsListed(walk.query) \in Seq(Items)
    <3>1. ForwardsListed(walk.query) \in Seq(Nat)
      BY ForwardsAre DEF RecordsInv, StoresInv
    <3>2. Nat \subseteq Items
      BY DEF Items
    <3> QED BY <3>1, <3>2, SeqMonotonic DEF RecordsInv, WalkOK, Walks
  <2> QED BY <2>1, <2>2, StartsPrefix DEF StartIds
<1> QED BY <1>1, AlwaysRecords, PTL

(* Until an offer or address comes or goes, the pages have each of them     *)
(* once, in whatever order the HashMap keeps them (lib.rs:1913-1922,        *)
(* 2009-2018).                                                              *)
THEOREM EachIsListedOnce == RecordsSpec => []EachListedOnce
<1>1. RecordsInv => EachListedOnce
  <2> SUFFICES ASSUME RecordsInv, Of({"list_offers", "list_addresses"}),
                      ~walk.grown, ~walk.shrunk
               PROVE  /\ IsInjective(walk.seen)
                      /\ walk.pc = "ended" =>
                           Range(walk.seen) = {h[1] : h \in walk.start}
    BY DEF EachListedOnce
  <2>1. walk.grown = FALSE /\ walk.shrunk = FALSE
    BY DEF RecordsInv, WalkOK, Walks
  <2> QED BY <2>1 DEF RecordsInv, OnceInv, StartIds
<1> QED BY <1>1, AlwaysRecords, PTL
=============================================================================
