---------------------------- MODULE AccessControl ----------------------------
(****************************************************************************)
(* Wallet requests against profiles and counters: process_nwc_request       *)
(* (lib.rs:2417-2488) with verify_access (254-370) and                      *)
(* refund_applied_state_updates (372-393), composed with the grants that    *)
(* change both under it (module Grants).  A notification loop handles one   *)
(* event at a time, request or grant; the loops of several services, and    *)
(* the poller, run in parallel and share the statics.                       *)
(****************************************************************************)
EXTENDS Grants, FiniteSets

CONSTANTS
  Requests,   \* the wallet requests that clients send
  Supported,  \* methods with a handler: request_handlers()
  Subscribe,  \* Method::SubscribeNotifications, handled apart
  AccessCost  \* tokens one call takes from its method's counter (1_000_000)

(* A request: its sender, its method, what request_spend_msat finds it to   *)
(* spend (0 if nothing), and whether its parameters are valid.              *)
ASSUME RequestsAssumption ==
  /\ Requests \subseteq [id: Nat, client: Clients, method: Methods,
                         amount: Amounts, valid: BOOLEAN]
  /\ Supported \subseteq Methods /\ Subscribe \in Methods \ Supported
  /\ AccessCost \in Amounts
  /\ None \notin Requests
ASSUME FiniteAssumption == IsFiniteSet(Requests)

VARIABLES pending,  \* requests the relay has not delivered yet
          job       \* per loop, the request it is handling
vars == <<grantVars, pending, job>>

(* A StateUpdateRequest.  verify_access collects at most one of each kind.  *)
Kinds == {"Method", "Quota"}
Updates == [cell: Nat, rule: Rules, amount: Amounts]
UpdateMaps == [{} -> Updates] \cup [{"Method"} -> Updates]
              \cup [{"Quota"} -> Updates] \cup [Kinds -> Updates]

Steps == {"idle", "profile", "clock", "access", "quota", "lock", "debit",
          "dispatch", "execute", "refund", "respond"}
Refusals == {"UNAUTHORIZED", "RESTRICTED", "MISSING_STATE", "OVER_LIMIT"}
Outcomes == Refusals \cup {"NONE", "NOT_IMPLEMENTED", "INVALID", "FAILED", "OK"}

NoUpdates == [k \in {} |-> k]
NoJob == [pc |-> "idle", request |-> None, profile |-> None, access_rule |-> None,
          quota_rule |-> None, now |-> 0, updates |-> NoUpdates,
          locked |-> {}, charged |-> {}, outcome |-> "NONE"]

(* `profile` is the clone of the stored profile (the event it came with),   *)
(* and the rules are what is taken from it; `locked` are the guards held;   *)
(* `charged` the updates debited and not refunded.                          *)
Jobs == [pc: Steps, request: Requests \cup {None},
         profile: GrantEvents \cup {None},
         access_rule: Rules \cup {None}, quota_rule: Rules \cup {None},
         now: Times, updates: UpdateMaps, locked: SUBSET Kinds,
         charged: SUBSET Kinds, outcome: Outcomes]

AccessTypeOK == /\ TypeOK
                /\ pending \in SUBSET Requests
                /\ job \in [Loops -> Jobs]

Init == /\ GrantsInit
        /\ pending = Requests
        /\ job = [l \in Loops |-> NoJob]

Becomes(l, j) == job' = [job EXCEPT ![l] = j]

(* Return a response: the guards, if any, are dropped.                      *)
Answered(j, code) ==
  [j EXCEPT !.pc = "respond", !.outcome = code, !.locked = {}]
Answer(l, code) == Becomes(l, Answered(job[l], code))

----------------------------------------------------------------------------
(* verify_access.                                                           *)

Receive(l, r) ==
  /\ task[l].pc = "idle" /\ job[l].pc = "idle"
  /\ r \in pending
  /\ pending' = pending \ {r}
  /\ Becomes(l, [NoJob EXCEPT !.pc = "profile", !.request = r])
  /\ UNCHANGED grantVars

Permits(p, m) == p.methods # None => DOMAIN p.methods \cap {m, ALL} # {}
RuleFor(p, m) == IF p.methods = None THEN None
                 ELSE IF m \in DOMAIN p.methods THEN p.methods[m]
                 ELSE p.methods[ALL]

(* get_usage_profile, which clones the profile, and the choice of the rule. *)
Unauthorized(l) ==
  /\ job[l].pc = "profile"
  /\ usage_profiles[job[l].request.client] = None
  /\ Answer(l, "UNAUTHORIZED")
  /\ UNCHANGED <<grantVars, pending>>

Restricted(l) ==
  /\ job[l].pc = "profile"
  /\ LET e == usage_profiles[job[l].request.client] IN
       e # None /\ ~Permits(e.content, job[l].request.method)
  /\ Answer(l, "RESTRICTED")
  /\ UNCHANGED <<grantVars, pending>>

Authorize(l) ==
  /\ job[l].pc = "profile"
  /\ LET e == usage_profiles[job[l].request.client]
         m == job[l].request.method IN
       /\ e # None /\ Permits(e.content, m)
       /\ Becomes(l, [job[l] EXCEPT !.pc = "clock", !.profile = e,
                                     !.access_rule = RuleFor(e.content, m),
                                     !.quota_rule = e.content.quota])
  /\ UNCHANGED <<grantVars, pending>>

ReadClock(l) ==
  /\ job[l].pc = "clock"
  /\ Becomes(l, [job[l] EXCEPT !.pc = "access", !.now = clock])
  /\ UNCHANGED <<grantVars, pending>>

WithUpdate(j, kind, cell, rule, amount) ==
  [k \in DOMAIN j.updates \cup {kind} |->
     IF k = kind THEN [cell |-> cell, rule |-> rule, amount |-> amount]
     ELSE j.updates[k]]

(* get_access_rate_state, under the name of the request's own method even   *)
(* when the rule is that of "ALL".                                          *)
FetchAccess(l) ==
  /\ job[l].pc = "access"
  /\ LET j == job[l]
         cell == access_rate[j.request.client][j.request.method] IN
       IF j.access_rule = None THEN Becomes(l, [j EXCEPT !.pc = "quota"])
       ELSE IF cell = None THEN Answer(l, "MISSING_STATE")
       ELSE Becomes(l, [j EXCEPT !.pc = "quota",
                          !.updates = WithUpdate(j, "Method", cell,
                                                 j.access_rule, AccessCost)])
  /\ UNCHANGED <<grantVars, pending>>

(* get_quota_state, for a request that spends.                              *)
QuotaIfUnrated(l) ==             \* mutant: `else if` before the quota's lookup
  /\ job[l].pc = "quota"
  /\ LET j == job[l]
         cell == quota[j.request.client] IN
       IF j.quota_rule = None \/ j.request.amount = 0 \/ DOMAIN j.updates # {}
       THEN Becomes(l, [j EXCEPT !.pc = "lock"])
       ELSE IF cell = None THEN Answer(l, "MISSING_STATE")
       ELSE Becomes(l, [j EXCEPT !.pc = "lock",
                          !.updates = WithUpdate(j, "Quota", cell,
                                          j.quota_rule, j.request.amount)])
  /\ UNCHANGED <<grantVars, pending>>
FetchQuota(l) ==
  /\ job[l].pc = "quota"
  /\ LET j == job[l]
         cell == quota[j.request.client] IN
       IF j.quota_rule = None \/ j.request.amount = 0
       THEN Becomes(l, [j EXCEPT !.pc = "lock"])
       ELSE IF cell = None THEN Answer(l, "MISSING_STATE")
       ELSE Becomes(l, [j EXCEPT !.pc = "lock",
                          !.updates = WithUpdate(j, "Quota", cell,
                                          j.quota_rule, j.request.amount)])
  /\ UNCHANGED <<grantVars, pending>>

(* Lock, in the order of compare_access_keys: the method before the quota.  *)
Before(a, b) == a = "Method" /\ b = "Quota"
Unlocked(l) == DOMAIN job[l].updates \ job[l].locked
AnyToLock(l, k) == k \in Unlocked(l)                   \* mutant: no sort_by
NextToLock(l, k) == /\ k \in Unlocked(l)
                    /\ \A a \in Unlocked(l) : ~Before(a, k)

Holds(l, cell) == \E k \in job[l].locked : job[l].updates[k].cell = cell
NeverWaits(l, cell) == TRUE                            \* mutant: no mutex
Free(l, cell) == \A o \in Loops \ {l} : ~Holds(o, cell)

Lock(l, k) ==
  /\ job[l].pc = "lock" /\ NextToLock(l, k)
  /\ Free(l, job[l].updates[k].cell)
  /\ Becomes(l, [job[l] EXCEPT !.locked = @ \cup {k}])
  /\ UNCHANGED <<grantVars, pending>>

(* Verify every update, then debit each of them, holding every guard.       *)
Verdict(l, k) == LET u == job[l].updates[k] IN
  CheckWithdraw(cells[u.cell].state, u.amount, job[l].now, u.rule)

AllCovered(l) == \A k \in DOMAIN job[l].updates : Verdict(l, k) = "Ok"
Verify(l) ==
  /\ job[l].pc = "lock" /\ Unlocked(l) = {}
  /\ IF AllCovered(l) THEN Becomes(l, [job[l] EXCEPT !.pc = "debit"])
     ELSE Answer(l, "OVER_LIMIT")
  /\ UNCHANGED <<grantVars, pending>>

Undebited(l) == DOMAIN job[l].updates \ job[l].charged

(* The guarded RateState is written, and the history of its debits.         *)
Charge(cell, state, amount) == LET c == cells[cell] IN
  cells' = [cells EXCEPT ![cell] =
              [state |-> state, event |-> c.event, client |-> c.client,
               name |-> c.name, spent |-> c.spent + amount]]

(* withdraw_after_refill; its error would return from verify_access with    *)
(* what was debited before it.                                              *)
Debit(l, k) ==
  /\ job[l].pc = "debit"
  /\ k \in Undebited(l) /\ \A a \in Undebited(l) : ~Before(a, k)
  /\ LET u == job[l].updates[k] IN
       IF Verdict(l, k) # "Ok"
       THEN Answer(l, "OVER_LIMIT") /\ UNCHANGED cells
       ELSE /\ Becomes(l, [job[l] EXCEPT !.charged = @ \cup {k}])
            /\ Charge(u.cell, Withdraw(cells[u.cell].state, u.amount,
                                       job[l].now, u.rule), u.amount)
  /\ UNCHANGED <<clock, published, inbox, task, applied, usage_profiles,
                 access_rate, quota, restarts, pending>>

(* Drop the guards: the request is admitted.                                *)
Admit(l) ==
  /\ job[l].pc = "debit" /\ Undebited(l) = {}
  /\ Becomes(l, [job[l] EXCEPT !.pc = "dispatch", !.locked = {}])
  /\ UNCHANGED <<grantVars, pending>>

----------------------------------------------------------------------------
(* process_nwc_request, after verify_access.                                *)

(* subscribe_notifications, an unsupported method and invalid parameters    *)
(* return before the code that refunds.                                     *)
UnexecutedCode(r) ==
  CASE r.method \notin Supported \cup {Subscribe} -> "NOT_IMPLEMENTED"
    [] r.method = Subscribe /\ r.valid -> "OK"
    [] OTHER -> "INVALID"

AnswerUnexecuted(l) ==
  /\ job[l].pc = "dispatch"
  /\ job[l].request.method \in Supported => ~job[l].request.valid
  /\ Answer(l, UnexecutedCode(job[l].request))
  /\ UNCHANGED <<grantVars, pending>>

Start(l) ==
  /\ job[l].pc = "dispatch"
  /\ job[l].request.method \in Supported /\ job[l].request.valid
  /\ Becomes(l, [job[l] EXCEPT !.pc = "execute"])
  /\ UNCHANGED <<grantVars, pending>>

Succeed(l) ==
  /\ job[l].pc = "execute"
  /\ Answer(l, "OK")
  /\ UNCHANGED <<grantVars, pending>>

(* The handler, or the blocking task, returns an error.                     *)
Fail(l) ==
  /\ job[l].pc = "execute"
  /\ Becomes(l, [job[l] EXCEPT !.pc = "refund"])
  /\ UNCHANGED <<grantVars, pending>>

(* refund_applied_state_updates locks one counter at a time, in the order   *)
(* of the updates, and refunds under the rule read by verify_access.        *)
RefundByKey(l, k) ==        \* mutant: get_quota_state again, for the handle kept
  /\ job[l].pc = "refund"
  /\ k \in job[l].charged /\ \A a \in job[l].charged : ~Before(a, k)
  /\ LET u == job[l].updates[k]
         found == quota[job[l].request.client]
         cell == IF k = "Quota" /\ found # None THEN found ELSE u.cell IN
       /\ Free(l, cell)
       /\ cells' = [cells EXCEPT ![cell].state = Refund(@, u.amount, u.rule),
                                 ![u.cell].spent = @ - u.amount]
  /\ Becomes(l, [job[l] EXCEPT !.charged = @ \ {k}])
  /\ UNCHANGED <<clock, published, inbox, task, applied, usage_profiles,
                 access_rate, quota, restarts, pending>>
RefundUpdate(l, k) ==
  /\ job[l].pc = "refund"
  /\ k \in job[l].charged /\ \A a \in job[l].charged : ~Before(a, k)
  /\ LET u == job[l].updates[k] IN
       /\ Free(l, u.cell)
       /\ Charge(u.cell, Refund(cells[u.cell].state, u.amount, u.rule),
                 -u.amount)
  /\ Becomes(l, [job[l] EXCEPT !.charged = @ \ {k}])
  /\ UNCHANGED <<clock, published, inbox, task, applied, usage_profiles,
                 access_rate, quota, restarts, pending>>

Refunded(l) ==
  /\ job[l].pc = "refund" /\ job[l].charged = {}
  /\ Answer(l, "FAILED")
  /\ UNCHANGED <<grantVars, pending>>

(* The response is published; whether the relay takes it changes nothing    *)
(* here (lib.rs:802-804), and the loop goes on to its next event.           *)
Respond(l) ==
  /\ job[l].pc = "respond"
  /\ Becomes(l, NoJob)
  /\ UNCHANGED <<grantVars, pending>>

----------------------------------------------------------------------------

Handle(l) ==
  \/ Unauthorized(l) \/ Restricted(l) \/ Authorize(l) \/ ReadClock(l)
  \/ FetchAccess(l) \/ FetchQuota(l)
  \/ \E k \in Kinds : Lock(l, k) \/ Debit(l, k) \/ RefundUpdate(l, k)
  \/ Verify(l) \/ Admit(l) \/ AnswerUnexecuted(l) \/ Start(l)
  \/ Succeed(l) \/ Fail(l) \/ Refunded(l) \/ Respond(l)

(* A loop that handles a request looks at no grant until it has answered.   *)
ApplyGrant(t) == /\ t \in Loops => job[t].pc = "idle"
                 /\ Apply(t)
                 /\ UNCHANGED <<pending, job>>

(* A restart forgets the requests being handled, and does not see them      *)
(* again: subscriptions start at the startup time (lib.rs:738-751).         *)
RestartService == Restart /\ job' = [l \in Loops |-> NoJob] /\ UNCHANGED pending

Environment == (Tick \/ Relay) /\ UNCHANGED <<pending, job>>

Next == \/ Environment
        \/ RestartService
        \/ \E t \in Tasks : ApplyGrant(t)
        \/ \E l \in Loops : Handle(l) \/ \E r \in pending : Receive(l, r)

Spec == Init /\ [][Next]_vars

(* The runtime runs a loop that can go on; an execution ends, for the       *)
(* longest wait of a handler is 60 seconds (ldk_service.rs:895-945).        *)
Fairness == \A l \in Loops : WF_vars(Handle(l))
FairSpec == Spec /\ Fairness

(* The runtime keeps polling its tasks, and the poller never ends; nothing  *)
(* obliges the relay to push an event, nor an owner to publish one.         *)
TaskFairness == \A t \in Tasks : /\ WF_vars(Poll(t) /\ UNCHANGED <<pending, job>>)
                                 /\ WF_vars(ApplyGrant(t))
FairService == FairSpec /\ TaskFairness

----------------------------------------------------------------------------
(* Properties.                                                              *)

CapacityOf(i) == IF cells[i].name = None
                 THEN cells[i].event.content.quota.max_capacity
                 ELSE cells[i].event.content.methods[cells[i].name].max_capacity

(* Without refill, what requests took from a counter and what is left in it *)
(* never exceed the capacity it was created with, and a balance never goes  *)
(* below zero: concurrent requests cannot both take the last tokens, a      *)
(* refund gives back no more than was taken, and a request that decided     *)
(* under an older rule still cannot overdraw (lib.rs:335-393;               *)
(* STATE_ACCOUNTING_MODEL.md:8-9, 64).                                      *)
NeverOverspent ==
  \A i \in DOMAIN cells : /\ cells[i].state.balance >= 0
                          /\ cells[i].state.balance + cells[i].spent
                               <= CapacityOf(i)

(* ... nor does a counter lose tokens that no request took.                 *)
NothingLost ==
  \A i \in DOMAIN cells :
    cells[i].state.balance + cells[i].spent >= CapacityOf(i)

(* A request that is refused, or whose execution fails, has charged none of *)
(* the counters by the time it is answered, although it checks, debits and  *)
(* refunds two of them while others use them (lib.rs:335-393, 2480-2486).   *)
RefusedNotCharged ==
  \A l \in Loops :
    job[l].pc = "respond" /\ job[l].outcome \in Refusals \cup {"FAILED"}
      => job[l].charged = {}

(* What the limits of kind k of profile p ask of request r: a rule, or      *)
(* None; the counter's name; and the tokens.                                *)
LimitOf(p, r, k) == IF k = "Method" THEN RuleFor(p, r.method)
                    ELSE IF r.amount = 0 THEN None ELSE p.quota
NameOf(r, k) == IF k = "Method" THEN r.method ELSE None
CostOf(r, k) == IF k = "Method" THEN AccessCost ELSE r.amount

(* A request that is admitted has paid for every limit of the profile that  *)
(* permits it, and for no other: the rate of its method, and the quota if   *)
(* it spends, each at its price and from a counter of its own client and    *)
(* kind, although counters are looked up, checked and debited one by one    *)
(* while the client's grant is replaced (lib.rs:289-367).                   *)
AdmittedIsCharged ==
  \A l \in Loops : LET j == job[l] IN
    j.pc \in {"dispatch", "execute"} =>
      /\ j.profile # None /\ Permits(j.profile.content, j.request.method)
      /\ j.charged = {k \in Kinds : LimitOf(j.profile.content, j.request, k) # None}
      /\ \A k \in j.charged :
           /\ j.updates[k].amount = CostOf(j.request, k)
           /\ j.updates[k].rule = LimitOf(j.profile.content, j.request, k)
           /\ cells[j.updates[k].cell].client = j.request.client
           /\ cells[j.updates[k].cell].name = NameOf(j.request, k)

(* A client whose only grant is in force finds every counter its rules need *)
(* (lib.rs:291-298, 315-321): the profile is stored after its counters.     *)
NeverMissingState == \A l \in Loops : job[l].outcome # "MISSING_STATE"

(* a waits for a guard that b holds.                                        *)
WaitsFor(a, b) == /\ a # b /\ job[a].pc = "lock"
                  /\ \E k \in Kinds : /\ NextToLock(a, k)
                                      /\ Holds(b, job[a].updates[k].cell)

(* "Deterministic lock ordering to avoid deadlocks"                         *)
(* (RATE_STATE_DUAL_LOCK_MIGRATION_PLAN.md:60): whoever waits for a loop    *)
(* that itself waits, the last one in the chain runs, so no set of requests *)
(* blocks itself (lib.rs:335-347).                                          *)
WaitsEnd ==
  \A a, b, c, d \in Loops : ~(WaitsFor(a, b) /\ WaitsFor(b, c) /\ WaitsFor(c, d))

(* Every request a loop takes is answered, unless the process stops.        *)
EveryRequestAnswered ==
  \A l \in Loops : job[l].pc # "idle" ~> job[l].pc = "idle"
=============================================================================
