--------------------------- MODULE Handlers_proofs ---------------------------
(****************************************************************************)
(* The two kinds of requests that loops handle beyond AccessControl.        *)
(* Payments implements AccessControl, so what is proved there holds of      *)
(* requests that pay; refunds and answers agree with the node, and what it  *)
(* pays stays within the quotas.  Control implements it as well; commands   *)
(* act under a grant, and merge fees without loss as long as one loop       *)
(* handles them.                                                            *)
(****************************************************************************)
EXTENDS Payments, Control, AccessControl_proofs

----------------------------------------------------------------------------
(* Payments.                                                                *)

(* A step of a loop that does not pay is one of AccessControl's, and so is  *)
(* the verdict a payment ends with; the rest of a payment is invisible.     *)
LEMMA PayStepIsStep == [PayNext]_allPayVars => [Next]_vars
<1>1. ASSUME NEW l \in Loops, Pay(l) PROVE Handle(l) \/ UNCHANGED vars
  BY <1>1 DEF Pay, Reject, SendLightning, SendOnchain, LookPaid,
     LookUnproven, LookFailed, LookPending, GiveUp, Sleep, Handle
<1>2. ASSUME NEW l \in Loops, HandleOther(l) PROVE Handle(l)
  BY <1>2 DEF HandleOther
<1>3. ASSUME NEW r \in Requests, Settle(r) PROVE UNCHANGED vars
  BY <1>3 DEF Settle
<1>4. CASE UNCHANGED allPayVars
  BY <1>4 DEF allPayVars
<1> QED
  BY <1>1, <1>2, <1>3, <1>4 DEF PayNext, Serve, RestartNode, Next

(* The requests that pay behave as AccessControl says requests do: the      *)
(* payment handlers add nothing to it but a reason to succeed or fail       *)
(* (lib.rs:2454-2488).                                                      *)
THEOREM PaymentsImplementAccess == PaySpec => Spec
<1>1. PayInit => Init
  BY DEF PayInit
<1> QED
  BY <1>1, PayStepIsStep, PTL DEF PaySpec, Spec

(* So a plain limit bounds what is charged for payments, whatever the       *)
(* network does with them.                                                  *)
THEOREM PaymentLimitsHold == PlainLimits => (PaySpec => []NeverOverspent)
BY PaymentsImplementAccess, PlainLimitsHold

----------------------------------------------------------------------------
(* Refunds and answers agree with the node.                                 *)

PayInv == /\ pending \subseteq Requests
          /\ DOMAIN job = Loops
          /\ DOMAIN payment = Requests
          /\ Single /\ Concluded /\ AnswersAreTrue

(* The statement of AnswersAreTrue about one job.                           *)
TrueOf(j, pays, gone) ==
  j.pc # "idle" /\ Orders[j.request] # None =>
    /\ j.pc = "refund" \/ j.outcome = "FAILED" =>
         pays[j.request] \in {"none", "failed"} \/ j.request \in gone
    /\ j.outcome = "OK" => pays[j.request] = "succeeded"

LEMMA TurnInv ==
  ASSUME PayInv, NEW l \in Loops, NEW k, Turns(job[l], k),
         job' = [job EXCEPT ![l] = k], pending' = pending,
         DOMAIN payment' = Requests,
         \A r \in Requests : r # job[l].request => payment'[r] = payment[r],
         disowned \subseteq disowned',
         TrueOf(k, payment', disowned')
  PROVE  PayInv'
<1>1. job'[l] = k /\ \A o \in Loops : o # l => job'[o] = job[o]
  BY DEF PayInv
<1>2. DOMAIN job' = Loops
  BY DEF PayInv
<1>3. Single'
  BY <1>1 DEF PayInv, Single, Turns
<1>4. Concluded'
  BY <1>1 DEF PayInv, Concluded, Turns
<1>5. ASSUME NEW o \in Loops PROVE TrueOf(job'[o], payment', disowned')
  <2>1. CASE o = l
    BY <1>1, <2>1
  <2>2. CASE o # l /\ job[o].pc # "idle"
    <3>1. job[o].request \in Requests /\ job[o].request # job[l].request
      BY <2>2 DEF PayInv, Single, Turns
    <3>2. payment'[job[o].request] = payment[job[o].request]
      BY <3>1
    <3>3. TrueOf(job[o], payment, disowned)
      BY DEF PayInv, AnswersAreTrue, TrueOf
    <3> QED
      BY <1>1, <2>2, <3>2, <3>3 DEF TrueOf
  <2>3. CASE o # l /\ job[o].pc = "idle"
    BY <1>1, <2>3 DEF TrueOf
  <2> QED
    BY <2>1, <2>2, <2>3
<1> QED
  BY <1>2, <1>3, <1>4, <1>5 DEF PayInv, AnswersAreTrue, TrueOf

(* A status that changes under no conclusion of its request.                *)
LEMMA StatusInv ==
  ASSUME PayInv, UNCHANGED <<job, pending>>, DOMAIN payment' = Requests,
         disowned \subseteq disowned',
         \A o \in Loops : TrueOf(job[o], payment', disowned')
  PROVE  PayInv'
BY DEF PayInv, Single, Concluded, AnswersAreTrue, TrueOf

LEMMA FailInv ==
  ASSUME AccessInv, PayInv, NEW l \in Loops, Fail(l), payment' = payment,
         disowned \subseteq disowned',
         \/ payment[job[l].request] \in {"none", "failed"}
         \/ job[l].request \in disowned'
  PROVE  PayInv'
<1> DEFINE k == [job[l] EXCEPT !.pc = "refund"]
<1>1. job[l] \in Jobs /\ job[l].pc = "execute"
  BY DEF AccessInv, Fail
<1>2. k.pc = "refund" /\ k.request = job[l].request /\ k.outcome = job[l].outcome
  BY <1>1 DEF Jobs
<1>3. k.outcome = "NONE"
  BY <1>1, <1>2 DEF PayInv, Concluded
<1>4. Turns(job[l], k)
  BY <1>1, <1>2, <1>3 DEF Turns
<1>5. TrueOf(k, payment', disowned')
  BY <1>2, <1>3 DEF TrueOf
<1>6. job' = [job EXCEPT ![l] = k] /\ pending' = pending
  BY DEF Fail, Becomes
<1>7. DOMAIN payment' = Requests
  BY DEF PayInv
<1> HIDE DEF k
<1> QED
  BY <1>4, <1>5, <1>6, <1>7, TurnInv

LEMMA SucceedInv ==
  ASSUME AccessInv, PayInv, NEW l \in Loops, Succeed(l),
         DOMAIN payment' = Requests,
         \A r \in Requests : r # job[l].request => payment'[r] = payment[r],
         disowned' = disowned, payment'[job[l].request] = "succeeded"
  PROVE  PayInv'
<1> DEFINE k == Answered(job[l], "OK")
<1>1. job[l] \in Jobs /\ job[l].pc = "execute"
  BY DEF AccessInv, Succeed
<1>2. k.pc = "respond" /\ k.request = job[l].request /\ k.outcome = "OK"
  BY <1>1 DEF Jobs, Answered
<1>3. Turns(job[l], k)
  BY <1>1, <1>2 DEF Turns
<1>4. TrueOf(k, payment', disowned')
  BY <1>2 DEF TrueOf
<1>5. job' = [job EXCEPT ![l] = k] /\ pending' = pending
  BY DEF Succeed, Answer, Becomes
<1> HIDE DEF k
<1> QED
  BY <1>3, <1>4, <1>5, TurnInv

LEMMA PayActionInv ==
  ASSUME AccessInv, PayInv, NEW l \in Loops, Pay(l)
  PROVE  PayInv'
<1>1. /\ job[l].pc = "execute" /\ job[l].outcome = "NONE"
      /\ job[l].request \in Requests
  BY DEF Pay, Reject, SendLightning, SendOnchain, LookPaid,
     LookUnproven, LookFailed, LookPending, GiveUp, Sleep, Paying, PayInv, Concluded, Single
<1>2. CASE Reject(l)
  BY <1>2, FailInv DEF Reject, Status, payVars
<1>3. CASE SendLightning(l)
  <2>1. /\ UNCHANGED <<job, pending, disowned>>
        /\ payment' = [payment EXCEPT ![job[l].request] = "pending"]
    BY <1>3 DEF SendLightning, vars
  <2>2. ASSUME NEW o \in Loops PROVE TrueOf(job[o], payment', disowned')
    <3>1. TrueOf(job[o], payment, disowned)
      BY DEF PayInv, AnswersAreTrue, TrueOf
    <3>2. CASE o = l
      BY <1>1, <3>2 DEF TrueOf
    <3>3. CASE o # l /\ job[o].pc # "idle"
      <4>1. job[o].request \in Requests /\ job[o].request # job[l].request
        BY <1>1, <3>3 DEF PayInv, Single
      <4> QED
        BY <2>1, <3>1, <4>1 DEF TrueOf, PayInv
    <3>4. CASE job[o].pc = "idle"
      BY <3>4 DEF TrueOf
    <3> QED
      BY <3>2, <3>3, <3>4
  <2>3. DOMAIN payment' = Requests
    BY <2>1 DEF PayInv
  <2> QED
    BY <2>1, <2>2, <2>3, StatusInv
<1>4. CASE SendOnchain(l)
  BY <1>1, <1>4, SucceedInv DEF SendOnchain, PayInv
<1>5. CASE LookPaid(l)
  BY <1>5, SucceedInv DEF LookPaid, Status, PayInv
<1>6. CASE LookFailed(l)
  BY <1>6, FailInv DEF LookFailed, Status
<1>a. CASE LookUnproven(l)
  BY <1>a, FailInv DEF LookUnproven
<1>7. CASE LookPending(l)
  BY <1>7, StatusInv DEF LookPending, vars, PayInv, AnswersAreTrue, TrueOf
<1>8. CASE GiveUp(l)
  BY <1>8, FailInv DEF GiveUp
<1>9. CASE Sleep(l)
  BY <1>9, StatusInv DEF Sleep, vars, PayInv, AnswersAreTrue, TrueOf
<1> QED
  BY <1>2, <1>3, <1>4, <1>5, <1>6, <1>a, <1>7, <1>8, <1>9 DEF Pay

LEMMA HandleOtherInv ==
  ASSUME AccessInv, PayInv, NEW l \in Loops, HandleOther(l)
  PROVE  PayInv'
<1>1. PICK k : /\ Turns(job[l], k)
               /\ job' = [job EXCEPT ![l] = k] /\ pending' = pending
  BY HandleTurns DEF HandleOther, PayInv
<1>2. UNCHANGED payVars /\ ~Paying(l)
  BY DEF HandleOther
<1>3. job[l].pc # "idle" /\ job[l].request \in Requests
  BY <1>1 DEF Turns, PayInv, Single
<1>4. TrueOf(job[l], payment, disowned)
  BY DEF PayInv, AnswersAreTrue, TrueOf
<1>5. Orders[job[l].request] # None =>
        job[l].pc # "execute" /\ job[l].request.method # Subscribe
  BY <1>2, <1>3, OrdersAssumption, RequestsAssumption DEF Paying
<1>6. TrueOf(k, payment, disowned)
  BY <1>1, <1>3, <1>4, <1>5 DEF TrueOf, Turns
<1>7. DOMAIN payment' = Requests
  BY <1>2 DEF PayInv, payVars
<1> QED
  BY <1>1, <1>2, <1>6, <1>7, TurnInv DEF payVars

LEMMA PayInvStep ==
  ASSUME AccessInv, PayInv, [PayNext]_allPayVars
  PROVE  PayInv'
<1>1. CASE UNCHANGED allPayVars
  BY <1>1, StatusInv DEF allPayVars, vars, payVars, PayInv, AnswersAreTrue, TrueOf
<1>2. CASE Environment /\ UNCHANGED payVars
  BY <1>2, StatusInv DEF Environment, payVars, PayInv, AnswersAreTrue, TrueOf
<1>3. ASSUME NEW t \in Tasks, ApplyGrant(t), UNCHANGED payVars PROVE PayInv'
  BY <1>3, StatusInv DEF ApplyGrant, payVars, PayInv, AnswersAreTrue, TrueOf
<1>4. ASSUME NEW l \in Loops, Serve(l) PROVE PayInv'
  BY <1>4, PayActionInv, HandleOtherInv DEF Serve
<1>5. ASSUME NEW l \in Loops, NEW r \in pending, Receive(l, r), UNCHANGED payVars
      PROVE  PayInv'
  <2> DEFINE k == [NoJob EXCEPT !.pc = "profile", !.request = r]
  <2>1. /\ k.pc = "profile" /\ k.request = r /\ k.outcome = "NONE"
        /\ job[l].pc = "idle" /\ pending' = pending \ {r}
        /\ job' = [job EXCEPT ![l] = k] /\ DOMAIN job = Loops
    BY <1>5 DEF Receive, Becomes, NoJob, PayInv
  <2> HIDE DEF k
  <2>2. job'[l] = k /\ \A o \in Loops : o # l => job'[o] = job[o]
    BY <2>1
  <2>3. Single' /\ Concluded'
    BY <2>1, <2>2 DEF PayInv, Single, Concluded
  <2>4. AnswersAreTrue'
    BY <1>5, <2>1, <2>2 DEF PayInv, AnswersAreTrue, payVars
  <2> QED
    BY <1>5, <2>1, <2>3, <2>4 DEF PayInv, payVars
<1>6. ASSUME NEW r \in Requests, Settle(r) PROVE PayInv'
  <2>1. PICK s \in Made \cup {"failed"} : payment' = [payment EXCEPT ![r] = s]
    BY <1>6 DEF Settle
  <2>2. payment[r] = "pending" /\ UNCHANGED <<job, pending, disowned>>
    BY <1>6 DEF Settle, vars
  <2>3. ASSUME NEW o \in Loops PROVE TrueOf(job[o], payment', disowned')
    <3>1. TrueOf(job[o], payment, disowned)
      BY DEF PayInv, AnswersAreTrue, TrueOf
    <3>2. job[o].pc # "idle" => job[o].request \in Requests
      BY DEF PayInv, Single
    <3> QED
      BY <2>1, <2>2, <3>1, <3>2 DEF TrueOf, PayInv
  <2>4. DOMAIN payment' = Requests
    BY <2>1 DEF PayInv
  <2> QED
    BY <2>2, <2>3, <2>4, StatusInv
<1>7. CASE RestartNode
  BY <1>7 DEF RestartNode, RestartService, PayInv, Single, Concluded,
     AnswersAreTrue, NoJob
<1> QED
  BY <1>1, <1>2, <1>3, <1>4, <1>5, <1>6, <1>7 DEF PayNext

(* For any number of loops, any orders and any behaviour of the network and *)
(* of the clock: a refund and a failure reported to a client mean that the  *)
(* payment has not gone out, unless its wait timed out or it was made       *)
(* without a proof, and OK means that it has, with one                      *)
(* (ldk_service.rs:895-945; lib.rs:2476-2486).                              *)
THEOREM AnswersTrue == PaySpec => []AnswersAreTrue
<1>1. PayInit => Init /\ PayInv
  BY DEF PayInit, Init, PayInv, Single, Concluded, AnswersAreTrue, NoJob
<1>2. PayInv => AnswersAreTrue
  BY DEF PayInv
<1> QED
  BY <1>1, <1>2, PayStepIsStep, AccessInitInv, AccessStep, PayInvStep, PTL
  DEF PaySpec

----------------------------------------------------------------------------
(* What the process remembers of payments.                                 *)

(* What the process remembers of payments agrees with the node: a request   *)
(* not delivered is not paid, one that is handled and has a status was      *)
(* handed over by this process, and an outcome is awaited only of those.    *)
MemoryInv ==
  /\ payment \in [Requests -> Statuses]
  /\ waiting \in [Loops -> [looks: 0..Patience, seen: BOOLEAN]]
  /\ sent \in SUBSET Requests /\ disowned \in SUBSET sent
  /\ \A r \in pending : payment[r] = "none"
  /\ \A l \in Loops :
       job[l].pc # "idle" /\ payment[job[l].request] # "none" => job[l].request \in sent
  /\ \A l \in Loops : waiting[l].seen => Paying(l) /\ Status(l) # "none"

(* The loops keep their requests.                                           *)
LEMMA ServeTurns ==
  ASSUME AccessInv, OneHandled, NEW l \in Loops, Serve(l)
  PROVE  /\ pending' = pending /\ job[l].pc # "idle" /\ job[l].request \in Requests
         /\ \A o \in Loops : job'[o].pc # "idle" =>
              job[o].pc # "idle" /\ job'[o].request = job[o].request
         /\ \A o \in Loops : o # l => job'[o] = job[o]
<1>1. job \in [Loops -> Jobs] /\ Concluded
  BY DEF AccessInv, OneHandled
<1>2. CASE Handle(l)
  <2>1. PICK k : /\ Turns(job[l], k)
                 /\ job' = [job EXCEPT ![l] = k] /\ pending' = pending
    BY <1>1, <1>2, HandleTurns
  <2>2. job'[l] = k /\ \A o \in Loops : o # l => job'[o] = job[o]
    BY <1>1, <2>1
  <2> QED
    BY <2>1, <2>2 DEF Turns, OneHandled, Single
<1>3. CASE UNCHANGED vars /\ job[l].pc # "idle"
  BY <1>3 DEF vars, OneHandled, Single
<1>4. Handle(l) \/ (UNCHANGED vars /\ job[l].pc # "idle")
  BY DEF Serve, HandleOther, Pay, Reject, SendLightning, SendOnchain, LookPaid,
     LookUnproven, LookFailed, LookPending, GiveUp, Sleep, Handle, Paying
<1> QED
  BY <1>2, <1>3, <1>4

LEMMA ServeMemory ==
  ASSUME AccessInv, OneHandled, MemoryInv, NEW l \in Loops, Serve(l)
  PROVE  MemoryInv'
<1> DEFINE r == job[l].request
<1>1. /\ pending' = pending /\ job[l].pc # "idle" /\ r \in Requests
      /\ \A o \in Loops : job'[o].pc # "idle" =>
           job[o].pc # "idle" /\ job'[o].request = job[o].request
      /\ \A o \in Loops : o # l => job'[o] = job[o]
  BY ServeTurns
<1>2. r \notin pending /\ \A o \in Loops : o # l /\ job[o].pc # "idle" => job[o].request # r
  BY <1>1 DEF OneHandled, Single
<1>3. Patience \in Nat
  BY OrdersAssumption
<1>4. CASE HandleOther(l)
  <2>1. ~waiting[l].seen /\ UNCHANGED <<payment, waiting, sent, disowned>>
    BY <1>4 DEF HandleOther, MemoryInv, payVars
  <2>2. \A o \in Loops : waiting[o].seen => Paying(o)' /\ Status(o)' # "none"
    BY <1>1, <2>1 DEF MemoryInv, Paying, Status
  <2> QED
    BY <1>1, <2>1, <2>2 DEF MemoryInv
<1>5. CASE Reject(l)
  <2>1. ~waiting[l].seen /\ UNCHANGED <<payment, waiting, sent, disowned>>
    BY <1>5 DEF Reject, MemoryInv, payVars
  <2>2. \A o \in Loops : waiting[o].seen => Paying(o)' /\ Status(o)' # "none"
    BY <1>1, <2>1 DEF MemoryInv, Paying, Status
  <2> QED
    BY <1>1, <2>1, <2>2 DEF MemoryInv
<1>6. CASE SendLightning(l) \/ SendOnchain(l)
  <2>1. PICK s \in {"pending", "succeeded"} :
          /\ payment' = [payment EXCEPT ![r] = s] /\ sent' = sent \cup {r}
          /\ UNCHANGED <<waiting, disowned>> /\ ~waiting[l].seen
    BY <1>6 DEF SendLightning, SendOnchain, MemoryInv
  <2>2. /\ payment'[r] = s /\ payment' \in [Requests -> Statuses]
        /\ \A q \in Requests : q # r => payment'[q] = payment[q]
    BY <1>1, <2>1 DEF MemoryInv, Statuses, Made
  <2>3. \A o \in Loops : o # l /\ job[o].pc # "idle" => job[o].request \in Requests \ {r}
    BY <1>2 DEF OneHandled, Single
  <2>4. \A o \in Loops :
          job'[o].pc # "idle" /\ payment'[job'[o].request] # "none"
            => job'[o].request \in sent'
    BY <1>1, <2>1, <2>2, <2>3 DEF MemoryInv
  <2>5. \A o \in Loops : waiting[o].seen => Paying(o)' /\ Status(o)' # "none"
    BY <1>1, <2>1, <2>2, <2>3 DEF MemoryInv, Paying, Status
  <2>6. \A q \in pending : payment'[q] = "none"
    BY <1>2, <2>2 DEF MemoryInv, OneHandled
  <2> QED
    BY <1>1, <2>1, <2>2, <2>4, <2>5, <2>6 DEF MemoryInv
<1>7. ASSUME UNCHANGED <<payment, sent>>, disowned' \in SUBSET sent,
             waiting' \in [Loops -> [looks: 0..Patience, seen: BOOLEAN]],
             \A o \in Loops : o # l => waiting'[o] = waiting[o],
             waiting'[l].seen => Paying(l)' /\ Status(l)' # "none"
      PROVE  MemoryInv'
  <2>1. \A o \in Loops : waiting'[o].seen => Paying(o)' /\ Status(o)' # "none"
    BY <1>1, <1>7 DEF MemoryInv, Paying, Status
  <2> QED
    BY <1>1, <1>7, <2>1 DEF MemoryInv
<1>8. waiting \in [Loops -> [looks: 0..Patience, seen: BOOLEAN]]
  BY DEF MemoryInv
<1>9. CASE LookPaid(l) \/ LookFailed(l)
  <2>1. UNCHANGED <<payment, sent, disowned>> /\ Stop(l)
    BY <1>9 DEF LookPaid, LookFailed
  <2> QED
    BY <1>3, <1>7, <1>8, <2>1 DEF Stop, MemoryInv
<1>10. CASE LookPending(l)
  <2>1. UNCHANGED <<payment, sent, disowned, job>> /\ Paying(l) /\ Status(l) = "pending"
        /\ waiting' = [waiting EXCEPT ![l].seen = TRUE]
    BY <1>10 DEF LookPending, vars
  <2> QED
    BY <1>7, <1>8, <2>1 DEF MemoryInv, Paying, Status
<1>11. CASE GiveUp(l)
  <2>1. /\ UNCHANGED <<payment, sent>> /\ Stop(l) /\ disowned' = disowned \cup {r}
        /\ waiting[l].seen
    BY <1>11 DEF GiveUp
  <2>2. r \in sent
    BY <1>1, <2>1 DEF MemoryInv, Status
  <2> QED
    BY <1>3, <1>7, <1>8, <2>1, <2>2 DEF Stop, MemoryInv
<1>b. CASE LookUnproven(l)
  <2>1. /\ UNCHANGED <<payment, sent>> /\ Stop(l) /\ disowned' = disowned \cup {r}
        /\ Status(l) # "none"
    BY <1>b DEF LookUnproven
  <2>2. r \in sent
    BY <1>1, <2>1 DEF MemoryInv, Status
  <2> QED
    BY <1>3, <1>7, <1>8, <2>1, <2>2 DEF Stop, MemoryInv
<1>12. CASE Sleep(l)
  <2>1. UNCHANGED <<payment, sent, disowned>> /\ waiting[l].looks < Patience
        /\ waiting' = [waiting EXCEPT ![l] = [looks |-> @.looks + 1, seen |-> FALSE]]
    BY <1>12 DEF Sleep
  <2>2. waiting[l].looks \in 0..Patience
    BY <1>8
  <2>3. waiting[l].looks + 1 \in 0..Patience
    BY <1>3, <2>1, <2>2
  <2> QED
    BY <1>7, <1>8, <2>1, <2>3 DEF MemoryInv
<1> QED
  BY <1>4, <1>5, <1>6, <1>9, <1>10, <1>11, <1>b, <1>12 DEF Serve, Pay

LEMMA MemoryStep ==
  ASSUME AccessInv, OneHandled, MemoryInv, [PayNext]_allPayVars
  PROVE  MemoryInv'
<1>1. ASSUME UNCHANGED payVars, UNCHANGED <<pending, job>> PROVE MemoryInv'
  BY <1>1 DEF payVars, MemoryInv, Paying, Status
<1>2. CASE UNCHANGED allPayVars \/ (Environment /\ UNCHANGED payVars)
  BY <1>1, <1>2 DEF allPayVars, vars, Environment
<1>a. ASSUME NEW t \in Tasks, ApplyGrant(t), UNCHANGED payVars PROVE MemoryInv'
  BY <1>1, <1>a DEF ApplyGrant
<1>3. ASSUME NEW l \in Loops, NEW r \in pending, Receive(l, r), UNCHANGED payVars
      PROVE  MemoryInv'
  <2>1. /\ r \in Requests /\ payment[r] = "none" /\ pending' = pending \ {r}
        /\ job[l].pc = "idle" /\ job'[l].pc = "profile" /\ job'[l].request = r
        /\ \A o \in Loops : o # l => job'[o] = job[o]
    BY <1>3 DEF Receive, Becomes, NoJob, AccessInv, MemoryInv
  <2>2. ~waiting[l].seen
    BY <2>1 DEF MemoryInv, Paying
  <2>3. \A o \in Loops : waiting[o].seen => Paying(o)' /\ Status(o)' # "none"
    BY <1>3, <2>1, <2>2 DEF MemoryInv, Paying, Status, payVars
  <2> QED
    BY <1>3, <2>1, <2>3 DEF payVars, MemoryInv
<1>4. ASSUME NEW r \in Requests, Settle(r) PROVE MemoryInv'
  <2>1. PICK s \in Made \cup {"failed"} : payment' = [payment EXCEPT ![r] = s]
    BY <1>4 DEF Settle
  <2>2. payment[r] = "pending" /\ UNCHANGED <<job, pending, waiting, sent, disowned>>
    BY <1>4 DEF Settle, vars
  <2>3. /\ payment' \in [Requests -> Statuses]
        /\ \A q \in Requests : payment'[q] = "none" <=> payment[q] = "none"
    BY <2>1, <2>2 DEF MemoryInv, Statuses, Made
  <2>4. \A l \in Loops : job[l].pc # "idle" => job[l].request \in Requests
    BY DEF OneHandled, Single
  <2>5. \A o \in Loops : waiting[o].seen => Paying(o)' /\ Status(o)' # "none"
    BY <2>2, <2>3, <2>4 DEF MemoryInv, Paying, Status
  <2> QED
    BY <2>2, <2>3, <2>4, <2>5 DEF MemoryInv, OneHandled
<1>5. CASE RestartNode
  <2>1. /\ pending' = pending /\ payment' = payment /\ sent' = {} /\ disowned' = {}
        /\ \A l \in Loops : job'[l].pc = "idle" /\ ~waiting'[l].seen
        /\ waiting' \in [Loops -> [looks: 0..Patience, seen: BOOLEAN]]
    BY <1>5, OrdersAssumption DEF RestartNode, RestartService, NotWaiting, NoJob
  <2> QED
    BY <2>1 DEF MemoryInv
<1>6. ASSUME NEW l \in Loops, Serve(l) PROVE MemoryInv'
  BY <1>6, ServeMemory
<1> QED
  BY <1>2, <1>a, <1>3, <1>4, <1>5, <1>6 DEF PayNext

(* The state of the service, its payments and its waits stays within its    *)
(* types, and a wait is given up only for a payment that was sent, for any  *)
(* orders and any behaviour of the network (ldk_service.rs:895-945).        *)
THEOREM PayTypeCorrect == PaySpec => []PayTypeOK
<1>1. PayInit => Init /\ MemoryInv
  BY OrdersAssumption DEF PayInit, Init, MemoryInv, NotWaiting, Statuses, NoJob
<1>2. AccessInv => AccessTypeOK
  BY DEF AccessInv, GrantsInv, AccessTypeOK
<1>3. MemoryInv /\ AccessTypeOK => PayTypeOK
  BY DEF MemoryInv, PayTypeOK
<1> QED
  BY <1>1, <1>2, <1>3, PayStepIsStep, AccessInitInv, AccessStep, OneHandledInit,
     OneHandledStep, MemoryStep, PTL DEF PaySpec

----------------------------------------------------------------------------
(* What is paid for a client is covered by its quota.                      *)

(* The payments that are to stay charged to counter i: sent, not given up,  *)
(* and not failed so far.                                                   *)
Due(i) ==
  {r \in (sent \ disowned) \cap Metered :
     /\ payment[r] \in Alive /\ r.amount # 0
     /\ cells[i].name = None /\ cells[i].client = r.client}
Final == [i \in DOMAIN cells |-> Due(i)]

QuotaOwned == \A c \in Clients : quota[c] # None => cells[quota[c]].client = c

SpendInv == /\ Backed(job, cells, Final) /\ QuotaOwned
            /\ \A r \in sent : usage_profiles[r.client] # None

LEMMA NodeMsatType ==
  ASSUME NEW o, IsOrder(o)
  PROVE  NodeMsat(o) \in Nat \cup {None} /\ SpendMsat(o) \in Nat
<1>1. /\ o.given \in Nat \cup {None}
      /\ o.asks["bolt11"] \in Nat \cup {None} /\ o.asks["bolt12"] \in Nat \cup {None}
  BY DEF IsOrder
<1>2. MsatPerSat \in Nat /\ MaxU64 \in Nat
  BY OrdersAssumption, WidthAssumption
<1>3. o.given # None => o.given * MsatPerSat \in Nat
  BY <1>1, <1>2
<1>4. o.given # None => /\ Lesser(o.given * MsatPerSat, MaxU64) \in Nat
                        /\ (o.given * MsatPerSat) % (MaxU64 + 1) \in Nat
  <2>1. ASSUME NEW n \in Nat PROVE Lesser(n, MaxU64) \in Nat /\ n % (MaxU64 + 1) \in Nat
    BY <1>2, <2>1 DEF Lesser
  <2> QED
    BY <1>3, <2>1
<1>5. GivenMsat(o) \in Nat \cup {None}
  <2>1. CASE o.given = None
    BY <2>1 DEF GivenMsat
  <2>2. CASE o.given # None /\ o.via = "pay_onchain"
    BY <1>4, <2>2 DEF GivenMsat
  <2>3. CASE o.given # None /\ o.via = "pay_bip321"
    BY <1>4, <2>3 DEF GivenMsat
  <2>4. CASE o.given # None /\ o.via \notin {"pay_onchain", "pay_bip321"}
    BY <1>1, <2>4 DEF GivenMsat
  <2> QED
    BY <2>1, <2>2, <2>3, <2>4
<1> QED
  <2>1. CASE o.rails = {} \/ Rail(o) \in {"bolt11", "bolt12", "onchain"}
    BY <1>1, <1>3, <1>5, <2>1 DEF NodeMsat, SpendMsat
  <2>2. CASE o.rails # {} /\ Rail(o) \notin {"bolt11", "bolt12", "onchain"}
    BY <1>5, <2>2 DEF NodeMsat, SpendMsat
  <2> QED
    BY <2>1, <2>2

LEMMA MeteredAmount ==
  ASSUME NEW r \in Metered
  PROVE  /\ r \in Requests /\ Orders[r] # None
         /\ NodeMsat(Orders[r]) \in Nat /\ r.amount \in Nat
         /\ NodeMsat(Orders[r]) <= r.amount
<1>1. /\ r \in Requests /\ Orders[r] # None /\ IsOrder(Orders[r])
      /\ r.amount = SpendMsat(Orders[r]) /\ NodeMsat(Orders[r]) # None
      /\ SpendMsat(Orders[r]) >= NodeMsat(Orders[r])
  BY OrdersAssumption DEF Metered
<1>2. NodeMsat(Orders[r]) \in Nat /\ SpendMsat(Orders[r]) \in Nat
  BY <1>1, NodeMsatType
<1> QED
  BY <1>1, <1>2

(* A client has one quota counter.                                          *)
LEMMA OneQuota ==
  ASSUME OneGrantEach, AccessInv, OnlyGrantInv, NEW i \in DOMAIN cells,
         NEW h \in DOMAIN cells, cells[i].name = None, cells[h].name = None,
         cells[i].client = cells[h].client
  PROVE  i = h
<1>1. cells[i] \in Cells /\ cells[h] \in Cells
  BY DEF AccessInv, GrantsInv, TypeOK
<1>2. /\ cells[i].event \in GrantEvents /\ cells[h].event \in GrantEvents
      /\ cells[i].client \in Clients
  BY <1>1 DEF Cells
<1>3. /\ cells[i].client = cells[i].event.target
      /\ cells[h].client = cells[h].event.target
  BY DEF OnlyGrantInv, OnceInv
<1>4. cells[i].event = cells[h].event
  BY <1>2, <1>3, NoneAssumption DEF OneGrantEach
<1> QED
  BY <1>4 DEF OnlyGrantInv, OnceInv, CountersOncePerGrant

(* A payment that is being executed is charged to its client's quota.       *)
LEMMA PaidIsCharged ==
  ASSUME OneGrantEach, AccessInv, OnlyGrantInv, NEW l \in Loops,
         job[l].pc = "execute", job[l].request.amount # 0,
         NEW i \in DOMAIN cells, cells[i].name = None,
         cells[i].client = job[l].request.client
  PROVE  job[l].request \in ChargedTo(i, job)
<1> DEFINE j == job[l]
           c == j.request.client
           e == usage_profiles[c]
<1>1. /\ JobOK(j, cells) /\ Fits(j, usage_profiles, cells) /\ cells[i] \in Cells
  BY DEF AccessInv, JobInv, OnlyGrantInv, FitsInv, GrantsInv, TypeOK
<1>2. /\ j.request \in Requests /\ c \in Clients /\ e # None
      /\ j.charged = DOMAIN j.updates
  BY <1>1, RequestsAssumption DEF JobOK, Fits, Decided
<1>3. e = cells[i].event
  <2>1. e \in GrantEvents /\ e.target = c
    BY <1>2, InForce
  <2>2. cells[i].event \in GrantEvents /\ cells[i].event.target = c
    BY <1>1 DEF Cells, OnlyGrantInv, OnceInv
  <2> QED
    BY <1>2, <2>1, <2>2, NoneAssumption DEF OneGrantEach
<1>4. e.content.quota # None
  <2>1. RuleOf(cells[i]) \in Rules
    BY DEF AccessInv, GrantsInv, CellInv
  <2> QED
    BY <1>3, <2>1, NoneAssumption DEF RuleOf
<1>5. "Quota" \in j.charged
  BY <1>1, <1>2, <1>4 DEF Fits, Decided
<1>6. /\ j.updates["Quota"].cell \in DOMAIN cells
      /\ cells[j.updates["Quota"].cell].name = None
      /\ cells[j.updates["Quota"].cell].client = c
  BY <1>1, <1>2, <1>5 DEF JobOK, Fits
<1>7. j.updates["Quota"].cell = i
  BY <1>6, OneQuota
<1> QED
  BY <1>2, <1>5, <1>7 DEF ChargedTo

LEMMA OwnedKept ==
  ASSUME AccessInv, QuotaOwned,
         \/ GrantsFixed
         \/ \E t \in Tasks : Apply(t)
  PROVE  QuotaOwned'
<1>1. \A c \in Clients : quota[c] # None => quota[c] \in DOMAIN cells
  BY DEF AccessInv, GrantsInv, MapInv
<1>2. CASE GrantsFixed
  BY <1>1, <1>2 DEF GrantsFixed, SameFor, QuotaOwned
<1>3. ASSUME NEW t \in Tasks, Apply(t) PROVE QuotaOwned'
  <2>1. /\ \A i \in DOMAIN cells : cells'[i] = cells[i]
        /\ cells \in Seq(Cells) /\ quota \in [Clients -> Nat \cup {None}]
    BY <1>3, NewCells DEF AccessInv, GrantsInv, TypeOK
  <2>2. CASE quota' = quota
    BY <1>1, <2>1, <2>2 DEF QuotaOwned
  <2>3. CASE ClearQuota(t)
    BY <1>1, <2>1, <2>3 DEF ClearQuota, QuotaOwned
  <2>4. CASE InitQuota(t) /\ quota' # quota
    <3> DEFINE d == task[t].event.target
               n == NewCell(t, None, task[t].event.content.quota)
    <3>1. /\ cells' = Append(cells, n)
          /\ quota' = [quota EXCEPT ![d] = Len(cells) + 1]
      BY <2>4 DEF InitQuota
    <3>2. n.client = d
      BY DEF NewCell
    <3>3. cells'[Len(cells) + 1] = n
      BY <2>1, <3>1
    <3> HIDE DEF n
    <3> QED
      BY <1>1, <2>1, <3>1, <3>2, <3>3 DEF QuotaOwned
  <2>5. ClearQuota(t) \/ InitQuota(t) \/ quota' = quota
    BY <1>3 DEF Apply, StartGrant, Skip, AcceptUnparseable, Accept, Upsert,
       ClearAccess, StampCounters, InitMethod, UpsertProfile, storeVars
  <2> QED
    BY <2>2, <2>3, <2>4, <2>5
<1> QED
  BY <1>2, <1>3

(* A payment that is sent is charged until it is concluded, then it is due; *)
(* what is refunded is not due.                                             *)
LEMMA ServeSpend ==
  ASSUME OneGrantEach, AccessInv, OnlyGrantInv, OneHandled, PayInv, MemoryInv,
         SpendInv, NEW l \in Loops, Serve(l)
  PROVE  SpendInv'
<1> DEFINE r == job[l].request
<1>1. /\ r \in Requests /\ r.client \in Clients /\ cells \in Seq(Cells)
      /\ job[l].pc # "idle"
  BY ServeTurns, RequestsAssumption DEF AccessInv, GrantsInv, TypeOK
<1>2. Handle(l) \/ UNCHANGED vars
  BY DEF Serve, HandleOther, Pay, Reject, SendLightning, SendOnchain, LookPaid,
     LookUnproven, LookFailed, LookPending, GiveUp, Sleep, Handle
<1>3. GrantsFixed
  <2>1. UNCHANGED vars => GrantsFixed
    BY DEF vars, grantVars, GrantsFixed, SameFor
  <2> QED
    BY <1>2, <2>1, HandleFixed
<1>4. DOMAIN cells' = DOMAIN cells
  BY <1>3 DEF GrantsFixed, SameFor
<1>5. \/ UNCHANGED <<payment, sent>>
      \/ /\ job[l].pc = "execute" /\ sent' = sent \cup {r}
         /\ \E s \in Statuses : payment' = [payment EXCEPT ![r] = s]
  BY DEF Serve, HandleOther, Pay, Reject, SendLightning, SendOnchain, LookPaid,
     LookUnproven, LookFailed, LookPending, GiveUp, Sleep, Paying, payVars, Statuses, Made
<1>6. disowned \subseteq disowned'
  BY DEF Serve, HandleOther, Pay, Reject, SendLightning, SendOnchain, LookPaid,
     LookUnproven, LookFailed, LookPending, GiveUp, Sleep, payVars
<1>7. ASSUME NEW i \in DOMAIN cells
      PROVE  /\ Due(i) \subseteq Requests
             /\ Due(i)' \subseteq ChargedTo(i, job) \cup Due(i)
             /\ job[l].pc = "refund" => r \notin Due(i)'
  <2>1. cells'[i].name = cells[i].name /\ cells'[i].client = cells[i].client
    BY <1>3 DEF GrantsFixed, SameFor
  <2>2. Metered' = Metered
    BY DEF Metered
  <2>3. CASE UNCHANGED <<payment, sent>>
    <3>1. Due(i)' \subseteq Due(i)
      BY <1>6, <2>1, <2>2, <2>3 DEF Due
    <3>2. job[l].pc = "refund" => r \notin Due(i)
      BY MeteredAmount DEF PayInv, AnswersAreTrue, Due, Alive, Made
    <3> QED
      BY <3>1, <3>2 DEF Due, Metered
  <2>4. CASE /\ job[l].pc = "execute" /\ sent' = sent \cup {r}
             /\ \E s \in Statuses : payment' = [payment EXCEPT ![r] = s]
    <3>1. \A q \in Requests : q # r => payment'[q] = payment[q]
      BY <2>4 DEF MemoryInv
    <3>2. \A q \in Due(i)' : q # r => q \in Due(i)
      BY <1>6, <2>1, <2>2, <2>4, <3>1, MeteredAmount DEF Due
    <3>3. r \in Due(i)' => r \in ChargedTo(i, job)
      <4>1. r \in Due(i)' => r.amount # 0 /\ cells[i].name = None
                             /\ cells[i].client = r.client
        BY <2>1 DEF Due
      <4> QED
        BY <2>4, <4>1, PaidIsCharged
    <3> QED
      BY <2>4, <3>2, <3>3 DEF Due, Metered
  <2> QED
    BY <1>5, <2>3, <2>4
<1>8. \A i \in DOMAIN cells : Final[i] = Due(i) /\ Final'[i] = Due(i)'
  BY <1>4 DEF Final
<1>9. Backed(job', cells', Final')
  <2>1. CASE Handle(l)
    BY <1>7, <1>8, <2>1, HandleBacked DEF SpendInv
  <2>2. CASE UNCHANGED vars
    <3>1. job' = job /\ cells' = cells
      BY <2>2 DEF vars, grantVars
    <3>2. \A i \in DOMAIN cells : cells[i].spent \in Int
      <4>1. \A i \in DOMAIN cells : cells[i] \in Cells
        BY <1>1
      <4> QED
        BY <4>1 DEF Cells
    <3> QED
      BY <1>7, <1>8, <3>1, <3>2, BackedFewer DEF SpendInv
  <2> QED
    BY <1>2, <2>1, <2>2
<1>10. QuotaOwned'
  BY <1>3, OwnedKept DEF SpendInv
<1>11. \A q \in sent' : usage_profiles'[q.client] # None
  <2>1. job[l].pc = "execute" => usage_profiles[r.client] # None
    BY <1>1 DEF OnlyGrantInv, FitsInv, Fits, Decided
  <2> QED
    BY <1>3, <1>5, <2>1 DEF SpendInv, GrantsFixed
<1> QED
  BY <1>9, <1>10, <1>11 DEF SpendInv

(* A step that leaves the grants and the counters alone and sends nothing.  *)
LEMMA SpendKept ==
  ASSUME AccessInv, MemoryInv, SpendInv, cells' = cells, quota' = quota,
         usage_profiles' = usage_profiles, sent' = sent, disowned' = disowned,
         \A i : ChargedTo(i, job') \subseteq ChargedTo(i, job),
         \A r \in Requests : payment'[r] \in Alive => payment[r] \in Alive
  PROVE  SpendInv'
<1>1. \A i \in DOMAIN cells : cells[i].spent \in Int
  <2>1. \A i \in DOMAIN cells : cells[i] \in Cells
    BY DEF AccessInv, GrantsInv, TypeOK
  <2> QED
    BY <2>1 DEF Cells
<1>2. \A i \in DOMAIN cells : Due(i)' \subseteq Due(i) /\ Due(i) \subseteq Requests
  BY DEF Due, Metered
<1>3. \A i \in DOMAIN cells : Final[i] = Due(i) /\ Final'[i] = Due(i)'
  BY DEF Final
<1>4. \A i \in DOMAIN cells :
        ChargedTo(i, job') \cup Final'[i] \subseteq ChargedTo(i, job) \cup Final[i]
  BY <1>2, <1>3
<1>5. Backed(job', cells', Final')
  BY <1>1, <1>2, <1>3, <1>4, BackedFewer DEF SpendInv
<1> QED
  BY <1>5 DEF SpendInv, QuotaOwned

LEMMA ApplySpend ==
  ASSUME OneGrantEach, AccessInv, OnlyGrantInv, MemoryInv, SpendInv,
         NEW t \in Tasks, ApplyGrant(t), UNCHANGED payVars
  PROVE  SpendInv'
<1>1. /\ Apply(t) /\ job' = job /\ payment' = payment /\ sent' = sent
      /\ disowned' = disowned /\ GrantsInv
  BY DEF ApplyGrant, payVars, AccessInv
<1>2. \A i \in DOMAIN cells : i \in DOMAIN cells' /\ cells'[i] = cells[i]
  BY <1>1, NewCells
<1>3. \A r \in sent : r \in Requests /\ r.client \in Clients
  BY RequestsAssumption DEF MemoryInv
<1>4. \A i \in DOMAIN cells : Due(i)' = Due(i) /\ Due(i) \subseteq Requests
  BY <1>1, <1>2 DEF Due, Metered
<1>5. ASSUME NEW i \in DOMAIN cells' \ DOMAIN cells PROVE Due(i)' = {}
  <2>1. task[t].pc # "idle" /\ cells'[i].client = task[t].event.target
    BY <1>1, NewCells
  <2>2. usage_profiles[task[t].event.target] = None
    BY <2>1 DEF OnlyGrantInv, OnlyInv, Busy
  <2> QED
    BY <1>1, <2>1, <2>2 DEF SpendInv, Due
<1>6. /\ \A i \in DOMAIN cells : Final[i] = Due(i) /\ Final'[i] = Due(i)
      /\ \A i \in DOMAIN cells' \ DOMAIN cells : Final'[i] = {}
  BY <1>2, <1>4, <1>5 DEF Final
<1>7. Backed(job', cells', Final')
  BY <1>1, <1>4, <1>6, ApplyBacked DEF SpendInv
<1>8. QuotaOwned'
  BY <1>1, OwnedKept DEF SpendInv
<1>9. \A r \in sent' : usage_profiles'[r.client] # None
  BY <1>1, <1>3, ApplyOnly DEF SpendInv, OnlyGrantInv, AccessInv
<1> QED
  BY <1>7, <1>8, <1>9 DEF SpendInv

LEMMA SpendStep ==
  ASSUME OneGrantEach, AccessInv, OnlyGrantInv, OneHandled, PayInv, MemoryInv,
         SpendInv, [PayNext]_allPayVars
  PROVE  SpendInv'
<1>1. CASE UNCHANGED allPayVars \/ (Environment /\ UNCHANGED payVars)
  <2>1. UNCHANGED <<cells, quota, usage_profiles, job, payment, sent, disowned>>
    BY <1>1 DEF allPayVars, vars, payVars, grantVars, Environment, Tick, Relay,
       Publish, Deliver, Poll, storeVars
  <2> QED
    BY <2>1, SpendKept
<1>2. ASSUME NEW t \in Tasks, ApplyGrant(t), UNCHANGED payVars PROVE SpendInv'
  BY <1>2, ApplySpend
<1>3. ASSUME NEW l \in Loops, NEW r \in pending, Receive(l, r), UNCHANGED payVars
      PROVE  SpendInv'
  <2> DEFINE n == [NoJob EXCEPT !.pc = "profile", !.request = r]
  <2>1. /\ UNCHANGED <<cells, quota, usage_profiles, payment, sent, disowned>>
        /\ Becomes(l, n)
    BY <1>3 DEF Receive, grantVars, payVars
  <2>2. Quiet(job[l], n)
    BY DEF Quiet, NoJob
  <2>3. \A i : ChargedTo(i, job') \subseteq ChargedTo(i, job)
    BY <2>1, <2>2, QuietCharges DEF AccessInv
  <2> QED
    BY <2>1, <2>3, SpendKept
<1>4. ASSUME NEW r \in Requests, Settle(r) PROVE SpendInv'
  <2>1. PICK s \in Made \cup {"failed"} : payment' = [payment EXCEPT ![r] = s]
    BY <1>4 DEF Settle
  <2>2. /\ payment[r] = "pending"
        /\ UNCHANGED <<cells, quota, usage_profiles, job, sent, disowned>>
    BY <1>4 DEF Settle, vars, grantVars
  <2>3. \A q \in Requests : payment'[q] \in Alive => payment[q] \in Alive
    BY <2>1, <2>2 DEF MemoryInv, Alive
  <2> QED
    BY <2>2, <2>3, SpendKept
<1>5. CASE RestartNode
  <2>1. /\ cells' = <<>> /\ sent' = {}
        /\ \A c \in Clients : quota'[c] = None
    BY <1>5 DEF RestartNode, RestartService, Restart, NoQuota, NoCounters
  <2> QED
    BY <2>1 DEF SpendInv, Backed, QuotaOwned
<1>6. ASSUME NEW l \in Loops, Serve(l) PROVE SpendInv'
  BY <1>6, ServeSpend
<1> QED
  BY <1>1, <1>2, <1>3, <1>4, <1>5, <1>6 DEF PayNext

(* What is due is not more than the counter gave out.                       *)
LEMMA OutflowCovered ==
  ASSUME AccessInv, MemoryInv, SpendInv, NEW c \in Clients, quota[c] # None
  PROVE  LET R == {r \in (sent \ disowned) \cap Metered : r.client = c} IN
           Outflow(R) \in Nat /\ Outflow(R) <= cells[quota[c]].spent
<1> DEFINE R == {r \in (sent \ disowned) \cap Metered : r.client = c}
           T == Live(R)
           F == [r \in T |-> NodeMsat(Orders[r])]
           i == quota[c]
           G == Price(cells[i])
           S == ChargedTo(i, job) \cup Due(i)
<1>1. /\ i \in DOMAIN cells /\ cells[i].name = None /\ cells[i].client = c
      /\ cells[i].spent \in Int
  <2>1. i \in DOMAIN cells /\ cells[i].name = None /\ cells[i] \in Cells
    BY DEF AccessInv, GrantsInv, MapInv, TypeOK
  <2> QED
    BY <2>1 DEF SpendInv, QuotaOwned, Cells
<1>2. S \in SUBSET Requests /\ T \in SUBSET Requests /\ T \subseteq Metered
  BY DEF ChargedTo, Due, Live, Metered
<1>3. IsFiniteSet(S) /\ IsFiniteSet(T) /\ \A x \in S : G[x] \in Nat
  <2>1. IsFiniteSet(T)
    BY <1>2, FiniteAssumption, FS_Subset
  <2> HIDE DEF S, T
  <2> QED
    BY <1>2, <2>1, PriceType
<1>4. \A x \in T : /\ F[x] \in Nat /\ F[x] <= x.amount
                   /\ x.amount \in Nat /\ x \in Requests
  BY <1>2, MeteredAmount
<1>5. ASSUME NEW x \in T PROVE IF x \in S THEN F[x] <= G[x] ELSE F[x] = 0
  <2>1. x.amount # 0 => x \in Due(i)
    BY <1>1 DEF Live, Due
  <2>2. G[x] = x.amount
    BY <1>1, <1>4 DEF Price
  <2>3. F[x] \in Nat /\ F[x] <= x.amount /\ x.amount \in Nat
    BY <1>4
  <2>4. x \notin S => x.amount = 0
    BY <2>1
  <2> HIDE DEF F, G, S, T
  <2>5. x \notin S => F[x] = 0
    BY <2>3, <2>4
  <2> QED
    BY <2>2, <2>3, <2>5
<1>6. Outflow(R) = SumFunctionOnSet(F, T)
  BY DEF Outflow
<1>7. SumFunctionOnSet(G, S) <= cells[i].spent
  BY <1>1 DEF SpendInv, Backed, Final
<1> HIDE DEF F, G, S, T, R
<1>8. \A x \in T : F[x] \in Nat
  BY <1>4
<1>9. /\ SumFunctionOnSet(F, T) <= SumFunctionOnSet(G, S)
      /\ SumFunctionOnSet(F, T) \in Nat /\ SumFunctionOnSet(G, S) \in Nat
  BY <1>3, <1>5, <1>8, SumAtMost, SumType
<1>10. Outflow(R) \in Nat /\ Outflow(R) <= cells[i].spent
  BY <1>1, <1>6, <1>7, <1>9
<1> QED
  BY <1>10 DEF R

LEMMA SpendIsBounded ==
  ASSUME AccessInv, MemoryInv, SpendInv, NeverOverspent
  PROVE  SpendingWithinQuota
<1> SUFFICES ASSUME NEW c \in Clients, quota[c] # None
             PROVE  cells[quota[c]].state.balance
                      + Outflow({r \in (sent \ disowned) \cap Metered : r.client = c})
                      <= CapacityOf(quota[c])
  BY DEF SpendingWithinQuota, Bounded
<1> DEFINE i == quota[c]
           x == Outflow({r \in (sent \ disowned) \cap Metered : r.client = c})
<1>1. x \in Nat /\ x <= cells[i].spent
  BY OutflowCovered
<1>2. i \in DOMAIN cells
  BY DEF AccessInv, GrantsInv, MapInv
<1>3. /\ cells[i].spent \in Int /\ cells[i].state.balance \in Int
      /\ CapacityOf(i) \in Nat
  <2>1. cells[i] \in Cells
    BY <1>2 DEF AccessInv, GrantsInv, TypeOK
  <2> QED
    BY <1>2, <2>1, CapacityIs, WidthAssumption DEF Cells, Counters, AccessInv
<1>4. cells[i].state.balance + cells[i].spent <= CapacityOf(i)
  BY <1>2 DEF NeverOverspent
<1> HIDE DEF i, x
<1>5. cells[i].state.balance + x <= CapacityOf(i)
  BY <1>1, <1>3, <1>4
<1> QED
  BY <1>5 DEF i, x

(* Clients with one grant each and quotas that do not refill: the amounts   *)
(* that destinations have got or may still get for a client's requests,     *)
(* fees apart, and what is left of the quota, are never more than the       *)
(* quota.  It is said of the requests of one process whose amount parameter *)
(* covers the payment, and not of those that were refunded when their wait  *)
(* timed out or their proof was missing.  Of the others a quota is not      *)
(* spent twice, whatever the network does and however many loops pay at     *)
(* once: neither by refunding a payment that is under way nor by two        *)
(* payments that count on the same tokens (lib.rs:335-393, 2476-2486;       *)
(* ldk_service.rs:895-945).                                                 *)
THEOREM SpendingBounded ==
  PlainLimits /\ OneGrantEach => (PaySpec => []SpendingWithinQuota)
<1> SUFFICES ASSUME PlainLimits, OneGrantEach
             PROVE  PaySpec => []SpendingWithinQuota
  OBVIOUS
<1>1. PayInit => Init /\ PayInv /\ MemoryInv /\ SpendInv
  BY OrdersAssumption DEF PayInit, Init, GrantsInit, PayInv, Single, Concluded,
     AnswersAreTrue, NoJob, MemoryInv, NotWaiting, Statuses, SpendInv, Backed,
     QuotaOwned, NoQuota, NoCounters
<1>2. /\ AccessInv /\ PayInv /\ [PayNext]_allPayVars => PayInv'
      /\ AccessInv /\ OneHandled /\ MemoryInv /\ [PayNext]_allPayVars => MemoryInv'
      /\ AccessInv /\ OnlyGrantInv /\ OneHandled /\ PayInv /\ MemoryInv /\ SpendInv
         /\ [PayNext]_allPayVars => SpendInv'
  BY PayInvStep, MemoryStep, SpendStep
<1>3. AccessInv /\ OnlyGrantInv /\ [Next]_vars => OnlyGrantInv'
  BY OnlyGrantStep
<1>4. AccessInv /\ MemoryInv /\ SpendInv /\ NeverOverspent => SpendingWithinQuota
  BY SpendIsBounded
<1>5. PaySpec => []NeverOverspent
  BY PaymentLimitsHold
<1> QED
  BY <1>1, <1>2, <1>3, <1>4, <1>5, PayStepIsStep, AccessInitInv, AccessStep,
     OnlyGrantInit, OneHandledInit, OneHandledStep, PTL DEF PaySpec

(* ... and a failed payment gives back what it took, no less: no token of a *)
(* quota is lost to a payment that did not go out (lib.rs:372-393).         *)
THEOREM PaymentsLoseNothing == OneGrantEach => (PaySpec => []NothingLost)
BY PaymentsImplementAccess, NoTokenLost

----------------------------------------------------------------------------
(* Commands to the node.                                                   *)

(* A command changes nothing of grants and wallet requests.                 *)
LEMMA ControlStepIsStep == [ControlNext]_allControlVars => [Next]_vars
<1>1. ASSUME NEW l \in Loops, Command(l) PROVE UNCHANGED vars
  BY <1>1 DEF Command, RefuseUnread, RefuseCommand, PermitCommand,
     AnswerAtOnce, LookUpPeer, OpenChannel, FailToOpen, ConnectPeer, DisconnectPeer, FindChannel,
     CloseChannel, SetChannelFees, FailToApply, RespondCommand
<1>2. ASSUME NEW l \in Loops, NEW r \in Commands, ReceiveCommand(l, r)
      PROVE  UNCHANGED vars
  BY <1>2 DEF ReceiveCommand
<1>3. NodeMoves => UNCHANGED vars
  BY DEF NodeMoves, PeerMoves, ChannelGone
<1>4. UNCHANGED allControlVars => UNCHANGED vars
  BY DEF allControlVars
<1> QED
  BY <1>1, <1>2, <1>3, <1>4
  DEF ControlNext, GrantStep, WalletStep, RestartControl, Next

(* Grants and wallet requests behave as AccessControl says they do: control *)
(* requests, handled by the same loops, read the profiles and touch neither *)
(* them nor a counter (lib.rs:2617-2638).                                   *)
THEOREM ControlImplementsAccess == ControlSpec => Spec
<1>1. ControlInit => Init
  BY DEF ControlInit
<1> QED
  BY <1>1, ControlStepIsStep, PTL DEF ControlSpec, Spec

----------------------------------------------------------------------------
(* The inductive invariant.                                                 *)

(* Of a command: a grant that permits it was stored since it was received.  *)
Under(c) == \E e \in c.grants \ {None} :
              e.content.control # None
                /\ \E m \in e.content.control : m = "ALL" \/ m = c.request.method

CommandOK(c, profiles) ==
  /\ c \in CommandRecords
  /\ c.pc # "idle" => /\ c.request \in Commands
                      /\ profiles[c.request.client] \in c.grants
  /\ c.pc = "apply" => c.details \in ChannelRecords
  /\ c.pc \in {"dispatch", "open", "apply"} \/ c.acted => Under(c)

NodeOK == /\ peers \in [Peers -> PeerStates]
          /\ channels \in [Channels -> ChannelRecords]
          /\ feesSet \in [Channels -> FeePairs]

ControlInv == /\ AccessInv
              /\ received \in 0..MaxCommands
              /\ NodeOK
              /\ command \in [Loops -> CommandRecords]
              /\ \A l \in Loops : CommandOK(command[l], usage_profiles)

LEMMA CommandFields ==
  ASSUME NEW r \in Commands
  PROVE  /\ r.client \in Clients /\ r.peer \in Peers /\ r.channel \in Channels
         /\ r.base \in Fees \cup {None} /\ r.rate \in Fees \cup {None}
BY CommandsAssumption

LEMMA MergedType ==
  ASSUME NEW fees \in FeePairs, NEW r \in Commands
  PROVE  MergedWith(fees, r) \in FeePairs
BY CommandFields DEF MergedWith, Or, FeePairs

LEMMA Stored ==
  ASSUME AccessInv, NEW c \in Clients
  PROVE  usage_profiles[c] \in GrantEvents \cup {None}
BY DEF AccessInv, GrantsInv, TypeOK

LEMMA NoCommandOK == ASSUME NEW profiles PROVE CommandOK(NoCommand, profiles)
BY DEF CommandOK, NoCommand, CommandRecords, CommandSteps, CommandOutcomes

(* A loop that advances its command, whatever that does to the node.        *)
LEMMA AdvanceInv ==
  ASSUME ControlInv, NEW l \in Loops, NEW c, Advance(l, c), UNCHANGED vars,
         received' \in 0..MaxCommands, NodeOK', CommandOK(c, usage_profiles)
  PROVE  ControlInv'
<1>1. AccessInv'
  BY AccessStep DEF ControlInv
<1>2. UNCHANGED usage_profiles
  BY DEF vars, grantVars
<1> QED
  BY <1>1, <1>2 DEF ControlInv, Advance, CommandOK

LEMMA ReplyInv ==
  ASSUME ControlInv, NEW l \in Loops, NEW code \in CommandOutcomes,
         command[l].pc # "idle", Reply(l, code), UNCHANGED <<vars, received>>,
         NodeOK'
  PROVE  ControlInv'
<1> DEFINE c == [command[l] EXCEPT !.pc = "respond", !.outcome = code]
<1>1. CommandOK(command[l], usage_profiles)
  BY DEF ControlInv
<1>2. /\ c.pc = "respond" /\ c.request = command[l].request
      /\ c.grants = command[l].grants /\ c.acted = command[l].acted
      /\ c \in CommandRecords
  BY <1>1 DEF CommandOK, CommandRecords, CommandSteps
<1>3. CommandOK(c, usage_profiles)
  BY <1>1, <1>2 DEF CommandOK, Under
<1>4. Advance(l, c) /\ received' \in 0..MaxCommands
  BY DEF Reply, ControlInv
<1> HIDE DEF c
<1> QED
  BY <1>3, <1>4, AdvanceInv

LEMMA DidInv ==
  ASSUME ControlInv, NEW l \in Loops,
         command[l].pc \in {"dispatch", "open", "apply"}, Did(l),
         UNCHANGED <<vars, received>>, NodeOK'
  PROVE  ControlInv'
<1> DEFINE c == [command[l] EXCEPT !.pc = "respond", !.outcome = "OK",
                                   !.acted = TRUE]
<1>1. CommandOK(command[l], usage_profiles)
  BY DEF ControlInv
<1>2. /\ c.pc = "respond" /\ c.request = command[l].request
      /\ c.grants = command[l].grants /\ c \in CommandRecords
  BY <1>1 DEF CommandOK, CommandRecords, CommandSteps, CommandOutcomes
<1>3. CommandOK(c, usage_profiles)
  BY <1>1, <1>2 DEF CommandOK, Under
<1>4. Advance(l, c) /\ received' \in 0..MaxCommands
  BY DEF Did, ControlInv
<1> HIDE DEF c
<1> QED
  BY <1>3, <1>4, AdvanceInv

----------------------------------------------------------------------------
(* Each step of a command.                                                  *)

LEMMA ReceiveCommandInv ==
  ASSUME ControlInv, NEW l \in Loops, NEW r \in Commands, ReceiveCommand(l, r)
  PROVE  ControlInv'
<1> DEFINE c == [NoCommand EXCEPT !.pc = "authorize", !.request = r,
                                  !.grants = {usage_profiles[r.client]}]
<1>1. /\ c.pc = "authorize" /\ c.request = r /\ ~c.acted
      /\ c.grants = {usage_profiles[r.client]} /\ c.details = None
      /\ c.outcome = "NONE"
      /\ c \in CommandRecords <=>
           c.grants \in SUBSET (GrantEvents \cup {None})
  BY DEF NoCommand, CommandRecords, CommandSteps, CommandOutcomes
<1>2. usage_profiles[r.client] \in GrantEvents \cup {None}
  BY CommandFields, Stored DEF ControlInv
<1>3. CommandOK(c, usage_profiles)
  BY <1>1, <1>2 DEF CommandOK
<1>4. received' \in 0..MaxCommands
  BY CommandsAssumption DEF ReceiveCommand, ControlInv
<1>5. Advance(l, c) /\ UNCHANGED <<vars, nodeVars>> /\ NodeOK'
  BY DEF ReceiveCommand, ControlInv, NodeOK, nodeVars
<1> HIDE DEF c
<1> QED
  BY <1>3, <1>4, <1>5, AdvanceInv

LEMMA PermitCommandInv ==
  ASSUME ControlInv, NEW l \in Loops, PermitCommand(l)
  PROVE  ControlInv'
<1> DEFINE c == [command[l] EXCEPT !.pc = "dispatch"]
           e == StoredGrant(l)
<1>1. CommandOK(command[l], usage_profiles) /\ command[l].pc = "authorize"
  BY DEF ControlInv, PermitCommand, Authorizing
<1>2. /\ c.pc = "dispatch" /\ c.request = command[l].request
      /\ c.grants = command[l].grants /\ c \in CommandRecords
  BY <1>1 DEF CommandOK, CommandRecords, CommandSteps
<1>3. e \in c.grants \ {None} /\ PermitsControl(e.content, c.request.method)
  BY <1>1, <1>2 DEF PermitCommand, Authorized, StoredGrant, CommandOK
<1>4. Under(c)
  BY <1>3 DEF Under, PermitsControl
<1>5. CommandOK(c, usage_profiles)
  BY <1>1, <1>2, <1>4 DEF CommandOK
<1>6. Advance(l, c) /\ UNCHANGED <<vars, received>> /\ NodeOK'
  BY DEF PermitCommand, ControlInv, NodeOK, nodeVars
<1> HIDE DEF c
<1> QED
  BY <1>5, <1>6, AdvanceInv DEF ControlInv

LEMMA LookUpPeerInv ==
  ASSUME ControlInv, NEW l \in Loops, LookUpPeer(l)
  PROVE  ControlInv'
<1> DEFINE c == [command[l] EXCEPT !.pc = "open"]
<1>1. CommandOK(command[l], usage_profiles) /\ command[l].pc = "dispatch"
  BY DEF ControlInv, LookUpPeer, Dispatching
<1>2. UNCHANGED <<vars, received>> /\ NodeOK'
  BY DEF LookUpPeer, ControlInv, NodeOK, nodeVars
<1>3. CASE Reply(l, "OTHER")
  BY <1>1, <1>2, <1>3, ReplyInv DEF CommandOutcomes
<1>4. CASE Advance(l, c)
  <2>1. CommandOK(c, usage_profiles)
    BY <1>1 DEF CommandOK, CommandRecords, CommandSteps, Under
  <2> HIDE DEF c
  <2> QED
    BY <1>2, <1>4, <2>1, AdvanceInv DEF ControlInv
<1> QED
  BY <1>3, <1>4 DEF LookUpPeer

LEMMA FindChannelInv ==
  ASSUME ControlInv, NEW l \in Loops, FindChannel(l)
  PROVE  ControlInv'
<1> DEFINE d == channels[command[l].request.channel]
           c == [command[l] EXCEPT !.pc = "apply", !.details = d]
<1>1. CommandOK(command[l], usage_profiles) /\ command[l].pc = "dispatch"
  BY DEF ControlInv, FindChannel, Dispatching
<1>2. UNCHANGED <<vars, received>> /\ NodeOK'
  BY DEF FindChannel, ControlInv, NodeOK, nodeVars
<1>3. CASE Reply(l, "OTHER")
  BY <1>1, <1>2, <1>3, ReplyInv DEF CommandOutcomes
<1>4. CASE Advance(l, c)
  <2>1. d \in ChannelRecords
    BY <1>1, CommandFields DEF CommandOK, ControlInv, NodeOK
  <2> HIDE DEF d
  <2>2. CommandOK(c, usage_profiles)
    BY <1>1, <2>1 DEF CommandOK, CommandRecords, CommandSteps, Under
  <2> HIDE DEF c
  <2> QED
    BY <1>2, <1>4, <2>2, AdvanceInv DEF ControlInv
<1> QED
  BY <1>3, <1>4 DEF FindChannel

LEMMA CommandInv ==
  ASSUME ControlInv, NEW l \in Loops, Command(l)
  PROVE  ControlInv'
<1>1. CommandOK(command[l], usage_profiles) /\ NodeOK
  BY DEF ControlInv
<1>2. command[l].pc # "idle" =>
        /\ command[l].request \in Commands
        /\ command[l].request.peer \in Peers
        /\ command[l].request.channel \in Channels
  BY <1>1, CommandFields DEF CommandOK
<1>3. CASE RefuseCommand(l)
  <2>1. \E code \in CommandOutcomes : Reply(l, code)
    BY <1>3 DEF RefuseCommand, CommandOutcomes
  <2> QED
    BY <1>1, <1>3, <2>1, ReplyInv
    DEF RefuseCommand, Authorizing, nodeVars, NodeOK
<1>4. CASE AnswerAtOnce(l)
  <2>1. CodesAtOnce(command[l].request) \subseteq CommandOutcomes
    BY DEF CodesAtOnce, CommandOutcomes
  <2>2. \E code \in CommandOutcomes : Reply(l, code)
    BY <1>4, <2>1 DEF AnswerAtOnce
  <2>3. /\ command[l].pc # "idle" /\ NodeOK'
        /\ UNCHANGED <<vars, received>>
    BY <1>1, <1>4 DEF AnswerAtOnce, nodeVars, NodeOK
  <2> QED
    BY <2>2, <2>3, ReplyInv
<1>5. CASE OpenChannel(l)
  <2>1. NodeOK'
    BY <1>1, <1>2, <1>5, CommandsAssumption
    DEF OpenChannel, NodeOK, PeerStates, ChannelRecords, ChannelStates
  <2> QED
    BY <1>5, <2>1, DidInv DEF OpenChannel
<1>6. CASE FailToOpen(l)
  <2>1. NodeOK'
    BY <1>1, <1>2, <1>6 DEF FailToOpen, NodeOK, PeerStates
  <2> QED
    BY <1>6, <2>1, ReplyInv DEF FailToOpen, CommandOutcomes
<1>7. CASE ConnectPeer(l)
  <2>1. NodeOK'
    BY <1>1, <1>2, <1>7 DEF ConnectPeer, NodeOK, PeerStates
  <2> QED
    BY <1>7, <2>1, ReplyInv, DidInv DEF ConnectPeer, Dispatching, CommandOutcomes
<1>8. CASE DisconnectPeer(l)
  <2>1. NodeOK'
    BY <1>1, <1>2, <1>8 DEF DisconnectPeer, NodeOK, PeerStates
  <2> QED
    BY <1>8, <2>1, ReplyInv, DidInv
    DEF DisconnectPeer, Dispatching, CommandOutcomes
<1>9. CASE CloseChannel(l)
  <2> DEFINE r == command[l].request
             s == IF r.force THEN "gone" ELSE "closing"
  <2>1. s \in ChannelStates /\ r.channel \in Channels
    BY <1>2, <1>9 DEF CloseChannel, Acting, ChannelStates
  <2>2. /\ channels' = [channels EXCEPT ![r.channel].status = s]
        /\ UNCHANGED <<peers, feesSet>>
    BY <1>9 DEF CloseChannel
  <2> HIDE DEF r, s
  <2>3. NodeOK'
    BY <1>1, <2>1, <2>2 DEF NodeOK, ChannelRecords
  <2> QED
    BY <1>9, <2>3, DidInv DEF CloseChannel, Acting
<1>10. CASE SetChannelFees(l)
  <2> DEFINE r == command[l].request
  <2>1. /\ r \in Commands /\ r.channel \in Channels
        /\ command[l].details \in ChannelRecords
    BY <1>1, <1>2, <1>10 DEF SetChannelFees, Acting, CommandOK
  <2>2. NewFees(l) \in FeePairs
    BY <2>1, MergedType DEF NewFees, ChannelRecords
  <2>3. MergedWith(feesSet[r.channel], r) \in FeePairs
    BY <1>1, <2>1, MergedType DEF NodeOK
  <2>4. /\ channels' = [channels EXCEPT ![r.channel].fees = NewFees(l)]
        /\ feesSet' = [feesSet EXCEPT ![r.channel] =
                         MergedWith(feesSet[r.channel], r)]
        /\ UNCHANGED peers
    BY <1>10 DEF SetChannelFees
  <2> HIDE DEF r
  <2>5. NodeOK'
    BY <1>1, <2>1, <2>2, <2>3, <2>4 DEF NodeOK, ChannelRecords
  <2> QED
    BY <1>10, <2>5, DidInv DEF SetChannelFees, Acting
<1>11. CASE FailToApply(l)
  BY <1>1, <1>11, ReplyInv DEF FailToApply, CommandOutcomes, nodeVars, NodeOK
<1>12. CASE RespondCommand(l)
  BY <1>1, <1>12, NoCommandOK, AdvanceInv
  DEF RespondCommand, nodeVars, NodeOK, ControlInv
<1>13. CASE RefuseUnread(l)
  <2>1. \E code \in CommandOutcomes : Reply(l, code)
    BY <1>13 DEF RefuseUnread, CommandOutcomes
  <2> QED
    BY <1>1, <1>13, <2>1, ReplyInv DEF RefuseUnread, nodeVars, NodeOK
<1> QED
  BY <1>3, <1>4, <1>5, <1>6, <1>7, <1>8, <1>9, <1>10, <1>11, <1>12, <1>13,
     PermitCommandInv, LookUpPeerInv, FindChannelInv DEF Command

----------------------------------------------------------------------------
(* The other steps.                                                         *)

LEMMA NodeMovesInv ==
  ASSUME ControlInv, NodeMoves
  PROVE  ControlInv'
<1>1. NodeOK /\ UNCHANGED <<vars, received, command>>
  BY DEF ControlInv, NodeMoves, PeerMoves, ChannelGone
<1>2. NodeOK'
  <2>1. ASSUME NEW p \in Peers, PeerMoves(p) PROVE NodeOK'
    BY <1>1, <2>1 DEF PeerMoves, NodeOK, PeerStates
  <2>2. ASSUME NEW c \in Channels, ChannelGone(c) PROVE NodeOK'
    BY <1>1, <2>2 DEF ChannelGone, NodeOK, ChannelRecords, ChannelStates
  <2> QED
    BY <2>1, <2>2 DEF NodeMoves
<1>3. AccessInv' /\ UNCHANGED usage_profiles
  BY <1>1, AccessStep DEF ControlInv, vars, grantVars
<1> QED
  BY <1>1, <1>2, <1>3 DEF ControlInv

LEMMA GrantStepInv ==
  ASSUME ControlInv, NEW t \in Tasks, GrantStep(t)
  PROVE  ControlInv'
<1>1. AccessInv'
  BY AccessStep DEF ControlInv, GrantStep, Next
<1>2. /\ UNCHANGED <<received, nodeVars>> /\ command' = Remembering
      /\ NodeOK' /\ received' \in 0..MaxCommands
  BY DEF GrantStep, ControlInv, NodeOK, nodeVars
<1>3. ASSUME NEW l \in Loops PROVE CommandOK(command'[l], usage_profiles')
  <2>1. CommandOK(command[l], usage_profiles)
    BY DEF ControlInv
  <2>2. CASE command[l].pc = "idle"
    BY <1>2, <2>1, <2>2 DEF Remembering, CommandOK
  <2>3. CASE command[l].pc # "idle"
    <3> DEFINE c == command[l]
               e == usage_profiles'[c.request.client]
    <3>1. command'[l] = [c EXCEPT !.grants = c.grants \cup {e}]
      BY <1>2, <2>3 DEF Remembering
    <3>2. e \in GrantEvents \cup {None}
      BY <1>1, <2>1, <2>3, CommandFields
      DEF AccessInv, GrantsInv, TypeOK, CommandOK
    <3> HIDE DEF e
    <3>3. /\ command'[l].pc = c.pc /\ command'[l].request = c.request
          /\ command'[l].details = c.details /\ command'[l].acted = c.acted
          /\ command'[l].grants = c.grants \cup {e}
          /\ command'[l] \in CommandRecords
      BY <2>1, <3>1, <3>2 DEF CommandOK, CommandRecords
    <3>4. Under(c) => Under(command'[l])
      BY <3>3 DEF Under
    <3> QED
      BY <2>1, <2>3, <3>3, <3>4 DEF CommandOK, e
  <2> QED
    BY <2>2, <2>3
<1>4. command' \in [Loops -> CommandRecords]
  BY <1>2, <1>3 DEF Remembering, CommandOK
<1> QED
  BY <1>1, <1>2, <1>3, <1>4 DEF ControlInv

LEMMA ControlStep == ControlInv /\ [ControlNext]_allControlVars => ControlInv'
<1> SUFFICES ASSUME ControlInv, [ControlNext]_allControlVars PROVE ControlInv'
  OBVIOUS
<1>1. AccessInv'
  BY AccessStep, ControlStepIsStep DEF ControlInv
<1>2. ASSUME UNCHANGED <<usage_profiles, received, command, peers, channels,
                         feesSet>>
      PROVE  ControlInv'
  BY <1>1, <1>2 DEF ControlInv, NodeOK
<1>3. CASE UNCHANGED allControlVars
  BY <1>2, <1>3 DEF allControlVars, vars, grantVars, controlVars, nodeVars
<1>4. CASE Environment /\ UNCHANGED controlVars
  <2>1. UNCHANGED usage_profiles
    <3>1. Tick => UNCHANGED usage_profiles
      BY DEF Tick, storeVars
    <3>2. Relay => UNCHANGED usage_profiles
      BY DEF Relay, Publish, Deliver, Poll, storeVars
    <3> QED
      BY <1>4, <3>1, <3>2 DEF Environment
  <2>2. UNCHANGED <<received, command, peers, channels, feesSet>>
    BY <1>4 DEF controlVars, nodeVars
  <2> QED
    BY <1>2, <2>1, <2>2
<1>5. ASSUME NEW l \in Loops, WalletStep(l) PROVE ControlInv'
  <2>1. UNCHANGED usage_profiles
    <3>1. ASSUME NEW r \in pending, Receive(l, r) PROVE UNCHANGED usage_profiles
      BY <3>1 DEF Receive, grantVars
    <3>2. Handle(l) => UNCHANGED usage_profiles
      BY DEF Handle, Unauthorized, Restricted, Authorize, ReadClock,
         FetchAccess, FetchQuota, Lock, Debit, RefundUpdate, Verify, Admit,
         AnswerUnexecuted, Start, Succeed, Fail, Refunded, Respond, grantVars
    <3> QED
      BY <1>5, <3>1, <3>2 DEF WalletStep
  <2> QED
    BY <1>2, <1>5, <2>1 DEF WalletStep, controlVars, nodeVars
<1>6. CASE RestartControl
  <2>1. NodeOK' /\ UNCHANGED received
    BY <1>6 DEF RestartControl, ControlInv, NodeOK, PeerStates
  <2>2. /\ command' \in [Loops -> CommandRecords]
        /\ \A l \in Loops : command'[l] = NoCommand
    BY <1>6, NoCommandOK DEF RestartControl, CommandOK
  <2> QED
    BY <1>1, <2>1, <2>2, NoCommandOK DEF ControlInv
<1> QED
  BY <1>3, <1>4, <1>5, <1>6, GrantStepInv, CommandInv, ReceiveCommandInv,
     NodeMovesInv DEF ControlNext

LEMMA ControlInitInv == ControlInit => ControlInv
<1> SUFFICES ASSUME ControlInit PROVE ControlInv
  OBVIOUS
<1>1. AccessInv
  BY AccessInitInv DEF ControlInit
<1>2. PICK n \in OldNodes : peers = n.peers /\ channels = n.channels
  BY DEF ControlInit
<1>3. NodeOK
  BY <1>2, CommandsAssumption DEF ControlInit, NodeOK, ChannelRecords
<1>4. received \in 0..MaxCommands
  BY CommandsAssumption DEF ControlInit
<1>5. /\ command \in [Loops -> CommandRecords]
      /\ \A l \in Loops : command[l] = NoCommand
  BY NoCommandOK DEF ControlInit, CommandOK
<1> QED
  BY <1>1, <1>3, <1>4, <1>5, NoCommandOK DEF ControlInv

(* Every variable of Control has its type, for any clients, grants, nodes   *)
(* and commands (lib.rs:3344-3400).                                         *)
THEOREM ControlTypeCorrect == ControlSpec => []ControlTypeOK
<1>1. ControlInv => ControlTypeOK
  BY DEF ControlInv, AccessInv, GrantsInv, AccessTypeOK, ControlTypeOK, NodeOK,
     CommandOK
<1> QED
  BY <1>1, ControlInitInv, ControlStep, PTL DEF ControlSpec

(* However grants change while a command waits between its steps, with any  *)
(* number of loops, the node is told to act only under a grant stored since *)
(* receipt whose control section has the method (lib.rs:2617-2638).         *)
THEOREM CommandsUnderGrant == ControlSpec => []ActsUnderGrant
<1>1. ControlInv => ActsUnderGrant
  BY DEF ControlInv, CommandOK, Under, ActsUnderGrant
<1> QED
  BY <1>1, ControlInitInv, ControlStep, PTL DEF ControlSpec

----------------------------------------------------------------------------
(* Fees, while one loop handles commands: the service main.rs starts.       *)

SingleLoop == \A a, b \in Loops : a = b

(* What set_channel_fees found of a listed channel is still so.             *)
Current(l) == command[l].pc = "apply" /\ Listed(command[l].request.channel) =>
                command[l].details.fees = channels[command[l].request.channel].fees

FeesInv == FeesAsSet /\ \A l \in Loops : Current(l)

(* A step that leaves the fees alone and takes no channel into the list.    *)
LEMMA FeesKept ==
  ASSUME ControlInv, FeesInv, UNCHANGED feesSet,
         \A c \in Channels : Listed(c)' => /\ Listed(c)
                                           /\ channels'[c].fees = channels[c].fees,
         \A l \in Loops : command'[l].pc = "apply" =>
           /\ command[l].pc = "apply"
           /\ command'[l].request = command[l].request
           /\ command'[l].details = command[l].details
  PROVE  FeesInv'
<1>1. FeesAsSet'
  BY DEF FeesInv, FeesAsSet
<1>2. ASSUME NEW l \in Loops PROVE Current(l)'
  <2>1. command[l].pc = "apply" => command[l].request.channel \in Channels
    BY CommandFields DEF ControlInv, CommandOK
  <2> QED
    BY <2>1 DEF FeesInv, Current
<1> QED
  BY <1>1, <1>2 DEF FeesInv

LEMMA ListUnchanged ==
  ASSUME UNCHANGED channels
  PROVE  \A c \in Channels : Listed(c)' => /\ Listed(c)
                                           /\ channels'[c].fees = channels[c].fees
BY DEF Listed

LEMMA OpenedFees ==
  ASSUME SingleLoop, ControlInv, FeesInv, NEW l \in Loops, OpenChannel(l)
  PROVE  FeesInv'
<1>1. PICK c \in Channels :
        /\ channels[c].status = "none"
        /\ channels' = [channels EXCEPT ![c] =
             [status |-> "open", peer |-> command[l].request.peer,
              fees |-> DefaultFees]]
        /\ feesSet' = [feesSet EXCEPT ![c] = DefaultFees]
  BY DEF OpenChannel
<1>2. FeesAsSet'
  BY <1>1 DEF ControlInv, NodeOK, FeesInv, FeesAsSet, Listed
<1>3. ASSUME NEW o \in Loops PROVE command'[o].pc # "apply"
  BY DEF SingleLoop, OpenChannel, Did, Advance, ControlInv, CommandRecords
<1> QED
  BY <1>2, <1>3 DEF FeesInv, Current

LEMMA SetFees ==
  ASSUME SingleLoop, ControlInv, FeesInv, NEW l \in Loops, SetChannelFees(l)
  PROVE  FeesInv'
<1> DEFINE r == command[l].request
<1>1. /\ r.channel \in Channels /\ Listed(r.channel)
      /\ command[l].details.fees = feesSet[r.channel]
  BY CommandFields DEF ControlInv, CommandOK, SetChannelFees, Acting, FeesInv,
     Current, FeesAsSet
<1>2. /\ channels' = [channels EXCEPT ![r.channel].fees = NewFees(l)]
      /\ feesSet' = [feesSet EXCEPT ![r.channel] =
                       MergedWith(feesSet[r.channel], r)]
  BY DEF SetChannelFees
<1>3. NewFees(l) = MergedWith(feesSet[r.channel], r)
  BY <1>1 DEF NewFees
<1> HIDE DEF r
<1>4. FeesAsSet'
  BY <1>1, <1>2, <1>3 DEF ControlInv, NodeOK, FeesInv, FeesAsSet, Listed,
     ChannelRecords
<1>5. ASSUME NEW o \in Loops PROVE command'[o].pc # "apply"
  BY DEF SingleLoop, SetChannelFees, Did, Advance, ControlInv, CommandRecords
<1> QED
  BY <1>4, <1>5 DEF FeesInv, Current

LEMMA FoundFees ==
  ASSUME SingleLoop, ControlInv, FeesInv, NEW l \in Loops, FindChannel(l)
  PROVE  FeesInv'
<1>1. UNCHANGED <<channels, feesSet>>
  BY DEF FindChannel, nodeVars
<1>2. FeesAsSet'
  BY <1>1 DEF FeesInv, FeesAsSet, Listed
<1>3. command[l] \in CommandRecords
  BY DEF ControlInv
<1>4. command'[l].pc = "apply" =>
        /\ command'[l].request = command[l].request
        /\ command'[l].details = channels[command[l].request.channel]
  BY <1>3 DEF FindChannel, Reply, Advance, ControlInv, CommandRecords
<1>5. ASSUME NEW o \in Loops PROVE Current(o)'
  BY <1>1, <1>4 DEF SingleLoop, Current
<1> QED
  BY <1>2, <1>5 DEF FeesInv

LEMMA FeesStep ==
  ASSUME SingleLoop, ControlInv, FeesInv, [ControlNext]_allControlVars
  PROVE  FeesInv'
<1>1. ASSUME UNCHANGED <<channels, feesSet, command>> PROVE FeesInv'
  BY <1>1, FeesKept, ListUnchanged
<1>2. ASSUME NEW l \in Loops, NEW c, Advance(l, c), c.pc # "apply"
      PROVE  \A o \in Loops : command'[o].pc = "apply" =>
               /\ command[o].pc = "apply"
               /\ command'[o].request = command[o].request
               /\ command'[o].details = command[o].details
  BY <1>2 DEF ControlInv, Advance
<1>3. ASSUME NEW l \in Loops, NEW c, Advance(l, c), c.pc # "apply",
             UNCHANGED <<channels, feesSet>>
      PROVE  FeesInv'
  BY <1>2, <1>3, FeesKept, ListUnchanged
<1>4. ASSUME NEW l \in Loops, NEW code, Reply(l, code),
             UNCHANGED <<channels, feesSet>>
      PROVE  FeesInv'
  <2> DEFINE c == [command[l] EXCEPT !.pc = "respond", !.outcome = code]
  <2>1. c.pc # "apply" /\ Advance(l, c)
    BY <1>4 DEF Reply, ControlInv, CommandRecords
  <2> HIDE DEF c
  <2> QED
    BY <1>3, <1>4, <2>1
<1>5. ASSUME NEW l \in Loops, Did(l) PROVE \E c : Advance(l, c) /\ c.pc # "apply"
  <2> DEFINE c == [command[l] EXCEPT !.pc = "respond", !.outcome = "OK",
                                     !.acted = TRUE]
  <2>1. c.pc # "apply" /\ Advance(l, c)
    BY <1>5 DEF Did, ControlInv, CommandRecords
  <2> HIDE DEF c
  <2> QED
    BY <2>1
<1>6. ASSUME NEW l \in Loops, Command(l) PROVE FeesInv'
  <2>1. CASE RefuseUnread(l) \/ RefuseCommand(l)
    BY <1>4, <2>1 DEF RefuseUnread, RefuseCommand, nodeVars
  <2>2. CASE PermitCommand(l) \/ RespondCommand(l)
    <3>1. \E c : Advance(l, c) /\ c.pc # "apply"
      BY <2>2 DEF PermitCommand, RespondCommand, NoCommand, ControlInv,
         CommandRecords
    <3> QED
      BY <1>3, <2>2, <3>1 DEF PermitCommand, RespondCommand, nodeVars
  <2>3. CASE AnswerAtOnce(l)
    BY <1>4, <2>3 DEF AnswerAtOnce, nodeVars
  <2>4. CASE LookUpPeer(l)
    <3>1. CASE Reply(l, "OTHER")
      BY <1>4, <2>4, <3>1 DEF LookUpPeer, nodeVars
    <3>2. CASE Advance(l, [command[l] EXCEPT !.pc = "open"])
      <4>1. [command[l] EXCEPT !.pc = "open"].pc # "apply"
        BY DEF ControlInv, CommandRecords
      <4> QED
        BY <1>3, <2>4, <3>2, <4>1 DEF LookUpPeer, nodeVars
    <3> QED
      BY <2>4, <3>1, <3>2 DEF LookUpPeer
  <2>5. CASE FailToOpen(l) \/ FailToApply(l)
    BY <1>4, <2>5 DEF FailToOpen, FailToApply, nodeVars
  <2>6. CASE ConnectPeer(l) \/ DisconnectPeer(l)
    <3>1. UNCHANGED <<channels, feesSet>>
      BY <2>6 DEF ConnectPeer, DisconnectPeer
    <3>2. Did(l) \/ Reply(l, "OTHER")
      BY <2>6 DEF ConnectPeer, DisconnectPeer
    <3> QED
      BY <1>3, <1>4, <1>5, <3>1, <3>2
  <2>7. CASE CloseChannel(l)
    <3>1. PICK d : Advance(l, d) /\ d.pc # "apply"
      BY <1>5, <2>7 DEF CloseChannel
    <3>2. \A c \in Channels : Listed(c)' =>
            Listed(c) /\ channels'[c].fees = channels[c].fees
      <4> DEFINE r == command[l].request
                 s == IF r.force THEN "gone" ELSE "closing"
      <4>1. /\ channels' = [channels EXCEPT ![r.channel].status = s]
            /\ Listed(r.channel)
        BY <2>7 DEF CloseChannel
      <4> HIDE DEF s, r
      <4> QED
        BY <4>1 DEF ControlInv, NodeOK, ChannelRecords, Listed
    <3>3. UNCHANGED feesSet
      BY <2>7 DEF CloseChannel
    <3> QED
      BY <1>2, <3>1, <3>2, <3>3, FeesKept
  <2> QED
    BY <1>6, <2>1, <2>2, <2>3, <2>4, <2>5, <2>6, <2>7, OpenedFees, SetFees,
       FoundFees DEF Command
<1>7. ASSUME NEW l \in Loops, NEW r \in Commands, ReceiveCommand(l, r)
      PROVE  FeesInv'
  <2> DEFINE c == [NoCommand EXCEPT !.pc = "authorize", !.request = r,
                                    !.grants = {usage_profiles[r.client]}]
  <2>1. Advance(l, c) /\ c.pc # "apply"
    BY <1>7 DEF ReceiveCommand, NoCommand
  <2> HIDE DEF c
  <2> QED
    BY <1>3, <1>7, <2>1 DEF ReceiveCommand, nodeVars
<1>8. CASE NodeMoves
  <2>1. UNCHANGED <<feesSet, command>>
    BY <1>8 DEF NodeMoves, PeerMoves, ChannelGone
  <2>2. \A c \in Channels : Listed(c)' =>
          Listed(c) /\ channels'[c].fees = channels[c].fees
    <3>1. ASSUME NEW p \in Peers, PeerMoves(p) PROVE UNCHANGED channels
      BY <3>1 DEF PeerMoves
    <3>2. ASSUME NEW g \in Channels, ChannelGone(g), NEW c \in Channels,
                 Listed(c)'
          PROVE  Listed(c) /\ channels'[c].fees = channels[c].fees
      BY <3>2 DEF ChannelGone, ControlInv, NodeOK, ChannelRecords, Listed
    <3> QED
      BY <1>8, <3>1, <3>2, ListUnchanged DEF NodeMoves
  <2> QED
    BY <2>1, <2>2, FeesKept
<1>9. ASSUME NEW t \in Tasks, GrantStep(t) PROVE FeesInv'
  <2>1. UNCHANGED <<channels, feesSet>> /\ command' = Remembering
    BY <1>9 DEF GrantStep, nodeVars
  <2>2. ASSUME NEW l \in Loops
        PROVE  /\ command'[l].pc = command[l].pc
               /\ command'[l].request = command[l].request
               /\ command'[l].details = command[l].details
    BY <2>1 DEF Remembering, ControlInv, CommandRecords
  <2> QED
    BY <2>1, <2>2, FeesKept, ListUnchanged
<1>10. CASE RestartControl
  <2>1. /\ UNCHANGED <<channels, feesSet>>
        /\ \A l \in Loops : command'[l].pc = "idle"
    BY <1>10 DEF RestartControl, NoCommand
  <2> QED
    BY <2>1, FeesKept, ListUnchanged
<1> QED
  BY <1>1, <1>6, <1>7, <1>8, <1>9, <1>10
  DEF ControlNext, WalletStep, allControlVars, controlVars, nodeVars

(* With one loop, a fee that was set stays set, whatever else the node and  *)
(* its channels do between the listing that set_channel_fees reads and the  *)
(* configuration it writes (ldk_service.rs:637-667).  Only the loop keeps   *)
(* two commands apart: two services would lose fees.                        *)
THEOREM FeesStay == SingleLoop => (ControlSpec => []FeesAsSet)
<1> SUFFICES ASSUME SingleLoop PROVE ControlSpec => []FeesAsSet
  OBVIOUS
<1>1. ControlInit => FeesInv
  BY DEF ControlInit, NoCommand, FeesInv, FeesAsSet, Current
<1>2. ControlInv /\ FeesInv /\ [ControlNext]_allControlVars => FeesInv'
  BY FeesStep
<1>3. FeesInv => FeesAsSet
  BY DEF FeesInv
<1> QED
  BY <1>1, <1>2, <1>3, ControlInitInv, ControlStep, PTL DEF ControlSpec
=============================================================================
