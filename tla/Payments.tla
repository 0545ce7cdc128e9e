------------------------------- MODULE Payments -------------------------------
(****************************************************************************)
(* Requests that spend: what "execute" of AccessControl does when the       *)
(* handler pays (lib.rs PayInvoice, PayKeysend, PayOnchain, PayOffer and    *)
(* PayBip321; ldk_service.rs).  A lightning payment is handed to the node   *)
(* and then polled until it has an outcome or 60 seconds have passed; the   *)
(* node goes on with it whatever the service decides, and keeps it across   *)
(* restarts.  Every step of this module is a step of AccessControl or       *)
(* leaves that module's variables alone.                                    *)
(****************************************************************************)
EXTENDS AccessControl, Functions

CONSTANTS Orders,      \* per request, what it pays, or None
          MsatPerSat,  \* 1000
          Patience     \* bound: how often an outcome is looked for in 60 s

Rails == {"bolt11", "bolt12", "onchain", "keysend"}
PayMethods == {"pay_invoice", "pay_keysend", "pay_onchain", "pay_offer",
               "pay_bip321"}

(* An order: the method, its amount parameter (in satoshi for pay_onchain   *)
(* and pay_bip321), the destinations it names (several only in a BIP-321    *)
(* URI), and the amount the invoice or the offer itself asks for, if any.   *)
IsOrder(o) ==
  /\ o \in [via: PayMethods, given: Nat \cup {None}, rails: SUBSET Rails,
            asks: [{"bolt11", "bolt12"} -> Nat \cup {None}]]
  /\ o.via = "pay_bip321" => "keysend" \notin o.rails
  /\ o.via = "pay_invoice" => o.rails = {"bolt11"}
  /\ o.via = "pay_offer" => o.rails = {"bolt12"}
  /\ o.via = "pay_onchain" => o.rails = {"onchain"} /\ o.given # None
  /\ o.via = "pay_keysend" => o.rails = {"keysend"} /\ o.given # None

(* a.to_sat() * 1000, which wraps, for a URI; saturating_mul for pay_onchain. *)
GivenMsat(o) ==
  IF o.given = None THEN None
  ELSE CASE o.via = "pay_onchain" -> Lesser(o.given * MsatPerSat, MaxU64)
         [] o.via = "pay_bip321" -> (o.given * MsatPerSat) % (MaxU64 + 1)
         [] OTHER -> o.given

(* request_spend_msat(..).unwrap_or(0): what the quota is asked for.        *)
SpendMsat(o) == IF GivenMsat(o) = None THEN 0 ELSE GivenMsat(o)

ASSUME OrdersAssumption ==
  /\ MsatPerSat \in Nat /\ Patience \in Nat
  /\ DOMAIN Orders = Requests
  /\ \A r \in Requests :
       Orders[r] # None => /\ IsOrder(Orders[r])
                           /\ r.amount = SpendMsat(Orders[r])
                           /\ r.method \in Supported

(* The rail pay_bip321 takes: lightning, then lno, then the address.  It    *)
(* does not try the next one when this one fails.                           *)
Preferred(a, b) == \/ a = b \/ a = "bolt11" \/ b = "onchain"
Rail(o) == CHOOSE x \in o.rails : \A y \in o.rails : Preferred(x, y)

(* What the destination is sent, None if the node refuses for want of an    *)
(* amount: an invoice's own amount stands in for a missing one (send        *)
(* against send_using_amount), an offer's own amount is always the one.     *)
(* The routing fee (fee_paid_msat) or the fee of the chain transaction,     *)
(* which no quota is asked for, leaves the wallet besides.                  *)
NodeMsat(o) ==
  IF o.rails = {} THEN None
  ELSE CASE Rail(o) = "bolt12" -> o.asks["bolt12"]
         [] Rail(o) = "bolt11" /\ o.given = None -> o.asks["bolt11"]
         [] Rail(o) = "onchain" /\ o.given # None -> o.given * MsatPerSat
         [] OTHER -> GivenMsat(o)

VARIABLES
  payment,    \* the node's store: per request, the status of its payment
  waiting,    \* per loop, wait_for_outbound_payment: looks so far, and the
              \* step of its loop
  sent,       \* for the properties: requests this process has paid for ...
  disowned    \* ... and those of them answered as failed, and refunded,
              \* while the payment was pending, or made but without a proof
payVars == <<payment, waiting, sent, disowned>>
allPayVars == <<vars, payVars>>

(* The node's PaymentStatus; "unproven" is Succeeded without a preimage.    *)
Made == {"succeeded", "unproven"}
Statuses == {"none", "pending", "failed"} \cup Made
NotWaiting == [l \in Loops |-> [looks |-> 0, seen |-> FALSE]]

PayTypeOK ==
  /\ AccessTypeOK
  /\ payment \in [Requests -> Statuses]
  /\ waiting \in [Loops -> [looks: 0..Patience, seen: BOOLEAN]]
  /\ sent \in SUBSET Requests /\ disowned \in SUBSET sent

PayInit == /\ Init
           /\ payment = [r \in Requests |-> "none"]
           /\ waiting = NotWaiting
           /\ sent = {} /\ disowned = {}

----------------------------------------------------------------------------
(* The handlers, on the blocking thread that the loop awaits.               *)

Paying(l) == job[l].pc = "execute" /\ Orders[job[l].request] # None
Order(l) == Orders[job[l].request]
Status(l) == payment[job[l].request]
Stop(l) == waiting' = [waiting EXCEPT ![l] = [looks |-> 0, seen |-> FALSE]]

(* The destination does not parse, the rail is missing or has no amount, or *)
(* the node refuses the payment.                                            *)
Reject(l) ==
  /\ Paying(l) /\ Status(l) = "none"
  /\ Fail(l)
  /\ UNCHANGED payVars

(* bolt11_payment, bolt12_payment or spontaneous_payment: send().           *)
SendLightning(l) ==
  /\ Paying(l) /\ Status(l) = "none"
  /\ NodeMsat(Order(l)) # None /\ Rail(Order(l)) # "onchain"
  /\ payment' = [payment EXCEPT ![job[l].request] = "pending"]
  /\ sent' = sent \cup {job[l].request}
  /\ UNCHANGED <<vars, waiting, disowned>>

(* send_to_address broadcasts; nothing is awaited.                          *)
SendOnchain(l) ==
  /\ Paying(l) /\ Status(l) = "none"
  /\ NodeMsat(Order(l)) # None /\ Rail(Order(l)) = "onchain"
  /\ payment' = [payment EXCEPT ![job[l].request] = "succeeded"]
  /\ sent' = sent \cup {job[l].request}
  /\ Succeed(l)
  /\ UNCHANGED <<waiting, disowned>>

(* wait_for_outbound_payment: list_payments, and match on the status.       *)
LookPaid(l) ==
  /\ Paying(l) /\ ~waiting[l].seen /\ Status(l) = "succeeded"
  /\ Stop(l)
  /\ Succeed(l)
  /\ UNCHANGED <<payment, sent, disowned>>

(* Succeeded, but its record has no preimage: an error like any other.      *)
UnprovenIsPaid(l) ==                           \* mutant: an empty preimage
  /\ Paying(l) /\ ~waiting[l].seen /\ Status(l) = "unproven"
  /\ Stop(l)
  /\ Succeed(l)
  /\ UNCHANGED <<payment, sent, disowned>>
LookUnproven(l) ==
  /\ Paying(l) /\ ~waiting[l].seen /\ Status(l) = "unproven"
  /\ disowned' = disowned \cup {job[l].request}
  /\ Stop(l)
  /\ Fail(l)
  /\ UNCHANGED <<payment, sent>>

LookNotSucceeded(l) ==                      \* mutant: whatever is not Succeeded
  /\ Paying(l) /\ ~waiting[l].seen /\ Status(l) \in {"pending", "failed"}
  /\ Stop(l)
  /\ Fail(l)
  /\ UNCHANGED <<payment, sent, disowned>>
LookFailed(l) ==
  /\ Paying(l) /\ ~waiting[l].seen /\ Status(l) = "failed"
  /\ Stop(l)
  /\ Fail(l)
  /\ UNCHANGED <<payment, sent, disowned>>

LookPending(l) ==
  /\ Paying(l) /\ ~waiting[l].seen /\ Status(l) = "pending"
  /\ waiting' = [waiting EXCEPT ![l].seen = TRUE]
  /\ UNCHANGED <<vars, payment, sent, disowned>>

(* It was pending when looked at, and 60 seconds have passed: an error like *)
(* any other, whatever the status is by now.                                *)
GiveUp(l) ==
  /\ Paying(l) /\ waiting[l].seen /\ waiting[l].looks = Patience
  /\ disowned' = disowned \cup {job[l].request}
  /\ Stop(l)
  /\ Fail(l)
  /\ UNCHANGED <<payment, sent>>

SleepOnceMore(l) ==                                    \* mutant: `>` for `>=`
  /\ Paying(l) /\ waiting[l].seen /\ waiting[l].looks <= Patience
  /\ waiting' = [waiting EXCEPT ![l] = [looks |-> @.looks + 1, seen |-> FALSE]]
  /\ UNCHANGED <<vars, payment, sent, disowned>>
SleepFromNow(l) ==                         \* mutant: start is taken in the loop
  /\ Paying(l) /\ waiting[l].seen /\ waiting[l].looks < Patience
  /\ Stop(l)
  /\ UNCHANGED <<vars, payment, sent, disowned>>
Sleep(l) ==
  /\ Paying(l) /\ waiting[l].seen /\ waiting[l].looks < Patience
  /\ waiting' = [waiting EXCEPT ![l] = [looks |-> @.looks + 1, seen |-> FALSE]]
  /\ UNCHANGED <<vars, payment, sent, disowned>>

Pay(l) == \/ Reject(l) \/ SendLightning(l) \/ SendOnchain(l)
          \/ LookPaid(l) \/ LookUnproven(l) \/ LookFailed(l) \/ LookPending(l)
          \/ GiveUp(l) \/ Sleep(l)

(* Any other request, and every other step of a loop.                       *)
HandleOther(l) == /\ ~Paying(l)
                  /\ Handle(l)
                  /\ UNCHANGED payVars

(* The network settles or fails a payment, or leaves it pending for good;   *)
(* the node records a preimage with what is settled, or none.               *)
Settle(r) ==
  /\ payment[r] = "pending"
  /\ \E s \in Made \cup {"failed"} : payment' = [payment EXCEPT ![r] = s]
  /\ UNCHANGED <<vars, waiting, sent, disowned>>

(* The node's store survives a restart; the wait does not.                  *)
RestartNode == /\ RestartService
               /\ waiting' = NotWaiting /\ sent' = {} /\ disowned' = {}
               /\ UNCHANGED payment

Serve(l) == Pay(l) \/ HandleOther(l)

PayNext ==
  \/ Environment /\ UNCHANGED payVars
  \/ \E t \in Tasks : ApplyGrant(t) /\ UNCHANGED payVars
  \/ \E l \in Loops : \/ Serve(l)
                      \/ \E r \in pending : Receive(l, r) /\ UNCHANGED payVars
  \/ \E r \in Requests : Settle(r)
  \/ RestartNode

PaySpec == PayInit /\ [][PayNext]_allPayVars

(* As in AccessControl; the network owes nobody an outcome.                 *)
PayFairSpec == PaySpec /\ \A l \in Loops : WF_allPayVars(Serve(l))

----------------------------------------------------------------------------
(* Properties.                                                              *)

Alive == {"pending"} \cup Made
Live(R) == {r \in R : payment[r] \in Alive}
Outflow(R) ==
  SumFunctionOnSet([r \in Live(R) |-> NodeMsat(Orders[r])], Live(R))

(* The requests whose amount parameter covers what the node sends.          *)
Metered == {r \in Requests : /\ Orders[r] # None
                             /\ NodeMsat(Orders[r]) # None
                             /\ SpendMsat(Orders[r]) >= NodeMsat(Orders[r])}

Bounded(R) ==
  \A c \in Clients : quota[c] # None =>
    cells[quota[c]].state.balance + Outflow({r \in R : r.client = c})
      <= CapacityOf(quota[c])

(* What destinations have been or may still be sent for a client's          *)
(* requests, and what is left of its quota, never exceed the quota: through *)
(* concurrent admissions, refunds of failed payments, and answers that come *)
(* while the status changes (lib.rs:335-393, 2476-2486;                     *)
(* ldk_service.rs:895-945).  It is said of amounts, fees apart; of payments *)
(* whose amount is stated; of one process; and not of the payments that     *)
(* are refunded although they go out.                                       *)
SpendingWithinQuota == Bounded((sent \ disowned) \cap Metered)

(* A payment is refunded, and its client told of a failure, only if it was  *)
(* never sent or has failed for good, unless it was pending when its wait   *)
(* ended or the node had no preimage of it; and a client that reads OK has  *)
(* paid, with a proof: whatever the status does between a look and the step *)
(* that follows it (ldk_service.rs:895-945; lib.rs:2476-2486).              *)
AnswersAreTrue ==
  \A l \in Loops : LET j == job[l] IN
    j.pc # "idle" /\ Orders[j.request] # None =>
      /\ j.pc = "refund" \/ j.outcome = "FAILED" =>
           payment[j.request] \in {"none", "failed"} \/ j.request \in disowned
      /\ j.outcome = "OK" => payment[j.request] = "succeeded"

(* "Controller-wide spend quota" (nip document, :104): it bounds what is    *)
(* spent, also when the amount is in the invoice or the offer and not in    *)
(* the request (request_spend_msat, lib.rs:519-533).                        *)
EverySpendingMetered == Bounded(sent \ disowned)
=============================================================================
