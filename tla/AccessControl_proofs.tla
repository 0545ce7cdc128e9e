------------------------- MODULE AccessControl_proofs -------------------------
(****************************************************************************)
(* The inductive invariants of the grant tasks and of request handling, for *)
(* any clients, grants, tasks, requests, loops, pollers and bounds, and     *)
(* what follows from them.                                                  *)
(****************************************************************************)
EXTENDS AccessControl, RateState_proofs, Sums_proofs

(*--------------------------------------------------------------------------*)
(* The grant tasks: theorems about Grants.                                  *)
(*--------------------------------------------------------------------------*)

(* A task that is applying a grant holds one that names a client and        *)
(* parses, and still has to create counters only for rules the grant has.   *)
TaskInv ==
  \A t \in Tasks : task[t].pc # "idle" =>
    /\ task[t].event \in GrantEvents
    /\ task[t].event.target \in Clients
    /\ IsProfile(task[t].event.content)
    /\ task[t].pc = "init" => task[t].todo \subseteq Rated(task[t].event.content)

(* A cell was created from a rule of its event.                             *)
RuleOf(cell) == IF cell.name = None THEN cell.event.content.quota
                ELSE cell.event.content.methods[cell.name]
CellInv == \A i \in DOMAIN cells : RuleOf(cells[i]) \in Rules

(* The maps point to cells of their own kind.                               *)
MapInv ==
  /\ \A c \in Clients, m \in RuleNames :
       access_rate[c][m] # None =>
         /\ access_rate[c][m] \in DOMAIN cells
         /\ cells[access_rate[c][m]].name = m
  /\ \A c \in Clients :
       quota[c] # None => /\ quota[c] \in DOMAIN cells
                          /\ cells[quota[c]].name = None

TaskType == [Tasks -> [pc: Phases, event: GrantEvents \cup {None},
                       now: Times, todo: SUBSET RuleNames]]
GrantsInv == TypeOK /\ TaskInv /\ CellInv /\ MapInv

(* What every step of a task but Restart keeps: cells are only added.       *)
CellsGrow ==
  /\ Len(cells) <= Len(cells')
  /\ \A i \in DOMAIN cells : cells'[i] = cells[i]

----------------------------------------------------------------------------

(* A grant event that is accepted names a client; one that parses is a      *)
(* profile (parse_grant_target, serde_json::from_str).                      *)
LEMMA EventType ==
  ASSUME NEW e \in GrantEvents
  PROVE  /\ e.target \in Clients \cup {None}
         /\ e.content # Unparseable => IsProfile(e.content)
BY GrantEventsAssumption

LEMMA RatedType ==
  ASSUME NEW p, IsProfile(p), NEW m \in Rated(p)
  PROVE  m \in RuleNames /\ p.methods[m] \in Rules
BY DEF IsProfile, Rated

(* The empty statics satisfy the invariant.                                 *)
LEMMA GrantsInitInv == GrantsInit => GrantsInv
<1> SUFFICES ASSUME GrantsInit PROVE GrantsInv
  OBVIOUS
<1>1. TypeOK
  BY GrantBoundsAssumption, WidthAssumption
  DEF GrantsInit, TypeOK, NoInbox, NoTask, NoGrant, NoAccessRate, NoCounters,
      NoQuota, Idle, Phases, Times
<1>2. TaskInv /\ CellInv /\ MapInv
  BY DEF GrantsInit, TaskInv, CellInv, MapInv, NoTask, Idle, NoAccessRate,
         NoCounters, NoQuota
<1> QED
  BY <1>1, <1>2 DEF GrantsInv

LEMMA RestartInv == GrantsInv /\ Restart => GrantsInv'
<1> SUFFICES ASSUME GrantsInv, Restart PROVE GrantsInv'
  OBVIOUS
<1>1. TypeOK'
  BY GrantBoundsAssumption, WidthAssumption
  DEF GrantsInv, Restart, TypeOK, NoInbox, NoTask, NoGrant, NoAccessRate,
      NoCounters, NoQuota, Idle, Phases, Times
<1>2. (TaskInv /\ CellInv /\ MapInv)'
  BY DEF Restart, TaskInv, CellInv, MapInv, NoTask, Idle, NoAccessRate, NoCounters,
     NoQuota
<1> QED
  BY <1>1, <1>2 DEF GrantsInv

(* The clock and the relay do not touch the statics.                        *)
LEMMA EnvironmentInv ==
  GrantsInv /\ (Tick \/ Relay) => GrantsInv' /\ cells' = cells
<1> SUFFICES ASSUME GrantsInv, Tick \/ Relay PROVE GrantsInv' /\ cells' = cells
  OBVIOUS
<1> DEFINE Kept == /\ UNCHANGED <<task, storeVars, restarts>>
                   /\ clock' \in 0..MaxTime
                   /\ published' \in SUBSET GrantEvents
                   /\ inbox' \in [Tasks -> SUBSET GrantEvents]
<1>1. Kept
  <2>1. CASE Tick
    BY <2>1, GrantBoundsAssumption, WidthAssumption
    DEF Tick, GrantsInv, TypeOK, Times
  <2>2. ASSUME NEW e \in GrantEvents, Publish(e)
        PROVE Kept
    BY <2>2 DEF Publish, GrantsInv, TypeOK
  <2>3. ASSUME NEW t \in Tasks, NEW e \in GrantEvents, Deliver(t, e)
        PROVE Kept
    BY <2>3 DEF Deliver, GrantsInv, TypeOK
  <2>4. ASSUME NEW t \in Tasks, Poll(t)
        PROVE Kept
    BY <2>4 DEF Poll, GrantsInv, TypeOK
  <2> QED
    BY <2>1, <2>2, <2>3, <2>4 DEF Relay
<1>2. TypeOK'
  BY <1>1 DEF GrantsInv, TypeOK, storeVars
<1>3. (TaskInv /\ CellInv /\ MapInv)'
  BY <1>1 DEF GrantsInv, TaskInv, CellInv, MapInv, storeVars, RuleOf
<1> QED
  BY <1>1, <1>2, <1>3 DEF GrantsInv, storeVars

(* Looking at an event, whatever comes of it, creates no cell.              *)
LEMMA StartGrantInv ==
  ASSUME NEW t \in Tasks, GrantsInv, StartGrant(t)
  PROVE  GrantsInv' /\ cells' = cells
<1>1. PICK e \in inbox[t] : Skip(t, e) \/ AcceptUnparseable(t, e) \/ Accept(t, e)
  BY DEF StartGrant
<1>2. e \in GrantEvents /\ inbox' \in [Tasks -> SUBSET GrantEvents]
  BY <1>1 DEF GrantsInv, TypeOK, Look, Skip, AcceptUnparseable, Accept
<1>3. CASE Skip(t, e)
  <2>1. TypeOK'
    BY <1>2, <1>3 DEF Skip, GrantsInv, TypeOK, storeVars
  <2>2. (TaskInv /\ CellInv /\ MapInv)'
    BY <1>3 DEF Skip, GrantsInv, TaskInv, CellInv, MapInv, RuleOf, storeVars
  <2> QED
    BY <1>3, <2>1, <2>2 DEF GrantsInv, Skip, storeVars
<1>4. CASE AcceptUnparseable(t, e)
  <2>1. TypeOK'
    BY <1>2, <1>4 DEF AcceptUnparseable, GrantsInv, TypeOK
  <2>2. (TaskInv /\ CellInv /\ MapInv)'
    BY <1>4 DEF AcceptUnparseable, GrantsInv, TaskInv, CellInv, MapInv, RuleOf
  <2> QED
    BY <1>4, <2>1, <2>2 DEF GrantsInv, AcceptUnparseable
<1>5. CASE Accept(t, e)
  <2>1. e.target \in Clients /\ IsProfile(e.content)
    BY <1>2, <1>5, EventType DEF Accept, ShouldApply
  <2>2. /\ task' = [task EXCEPT ![t] = [pc |-> "clear_access", event |-> e,
                                        now |-> 0, todo |-> {}]]
        /\ UNCHANGED <<clock, published, usage_profiles, access_rate, quota,
                       cells, restarts>>
    BY <1>5 DEF Accept
  <2>3. TypeOK'
    <3>1. task' \in TaskType
      BY <1>2, <2>2, WidthAssumption
      DEF GrantsInv, TypeOK, TaskType, Phases, Times
    <3>2. applied' \in [Clients -> GrantEvents \cup {None}]
      BY <1>2, <1>5 DEF Accept, GrantsInv, TypeOK
    <3> QED
      BY <1>2, <2>2, <3>1, <3>2 DEF GrantsInv, TypeOK, TaskType
  <2>4. TaskInv'
    BY <1>2, <2>1, <2>2 DEF GrantsInv, TypeOK, TaskInv
  <2>5. (CellInv /\ MapInv)'
    BY <2>2 DEF GrantsInv, CellInv, MapInv, RuleOf
  <2> QED
    BY <2>2, <2>3, <2>4, <2>5 DEF GrantsInv
<1> QED
  BY <1>1, <1>3, <1>4, <1>5

(* A task that goes on to another phase is still a task.                    *)
LEMMA TaskMoves ==
  ASSUME GrantsInv, NEW t \in Tasks, NEW pc \in Phases
  PROVE  [task EXCEPT ![t].pc = pc] \in TaskType
<1>1. task \in TaskType
  BY DEF GrantsInv, TypeOK, TaskType
<1>2. [task[t] EXCEPT !.pc = pc] \in
        [pc: Phases, event: GrantEvents \cup {None},
         now: Times, todo: SUBSET RuleNames]
  BY <1>1 DEF TaskType
<1> QED
  BY <1>1, <1>2 DEF TaskType

(* The clears and the final store create no cell either.                    *)
LEMMA ClearAccessInv ==
  ASSUME NEW t \in Tasks, GrantsInv, ClearAccess(t)
  PROVE  GrantsInv' /\ cells' = cells
<1>1. TypeOK'
  <2>1. task' \in TaskType
    BY TaskMoves DEF ClearAccess, Phases
  <2>2. access_rate' \in [Clients -> [RuleNames -> Nat \cup {None}]]
    BY DEF ClearAccess, GrantsInv, TypeOK, NoCounters
  <2>3. UNCHANGED <<clock, published, inbox, applied, usage_profiles, quota,
                    cells, restarts>>
    BY DEF ClearAccess
  <2> QED
    BY <2>1, <2>2, <2>3 DEF GrantsInv, TypeOK, TaskType
<1>2. TaskInv'
  BY DEF ClearAccess, GrantsInv, TypeOK, TaskInv
<1>3. (CellInv /\ MapInv)'
  BY DEF ClearAccess, GrantsInv, TypeOK, CellInv, MapInv, RuleOf, NoCounters
<1> QED
  BY <1>1, <1>2, <1>3 DEF GrantsInv, ClearAccess

LEMMA ClearQuotaInv ==
  ASSUME NEW t \in Tasks, GrantsInv, ClearQuota(t)
  PROVE  GrantsInv' /\ cells' = cells
<1>1. TypeOK'
  <2>1. task' \in TaskType
    BY TaskMoves DEF ClearQuota, Phases
  <2>2. quota' \in [Clients -> Nat \cup {None}]
    BY DEF ClearQuota, GrantsInv, TypeOK
  <2>3. UNCHANGED <<clock, published, inbox, applied, usage_profiles,
                    access_rate, cells, restarts>>
    BY DEF ClearQuota
  <2> QED
    BY <2>1, <2>2, <2>3 DEF GrantsInv, TypeOK, TaskType
<1>2. TaskInv'
  BY DEF ClearQuota, GrantsInv, TypeOK, TaskInv
<1>3. (CellInv /\ MapInv)'
  BY DEF ClearQuota, GrantsInv, TypeOK, CellInv, MapInv, RuleOf
<1> QED
  BY <1>1, <1>2, <1>3 DEF GrantsInv, ClearQuota

LEMMA StampCountersInv ==
  ASSUME NEW t \in Tasks, GrantsInv, StampCounters(t)
  PROVE  GrantsInv' /\ cells' = cells
<1>1. IsProfile(task[t].event.content)
  BY DEF StampCounters, GrantsInv, TaskInv
<1>2. Rated(task[t].event.content) \subseteq RuleNames
  BY <1>1, RatedType
<1>3. TypeOK'
  <2>1. clock \in Times
    BY GrantBoundsAssumption, WidthAssumption DEF GrantsInv, TypeOK, Times
  <2>2. task' \in TaskType
    BY <1>2, <2>1 DEF StampCounters, GrantsInv, TypeOK, TaskType, Phases
  <2> QED
    BY <2>2 DEF StampCounters, GrantsInv, TypeOK, TaskType, storeVars
<1>4. TaskInv'
  BY DEF StampCounters, GrantsInv, TypeOK, TaskInv
<1>5. (CellInv /\ MapInv)'
  BY DEF StampCounters, GrantsInv, CellInv, MapInv, RuleOf, storeVars
<1> QED
  BY <1>3, <1>4, <1>5 DEF GrantsInv, StampCounters, storeVars

LEMMA UpsertProfileInv ==
  ASSUME NEW t \in Tasks, GrantsInv, UpsertProfile(t)
  PROVE  GrantsInv' /\ cells' = cells
<1>1. TypeOK'
  BY WidthAssumption
  DEF UpsertProfile, GrantsInv, TypeOK, TaskInv, Idle, Phases, Times
<1>2. TaskInv'
  BY DEF UpsertProfile, GrantsInv, TypeOK, TaskInv, Idle
<1>3. (CellInv /\ MapInv)'
  BY DEF UpsertProfile, GrantsInv, CellInv, MapInv, RuleOf
<1> QED
  BY <1>1, <1>2, <1>3 DEF GrantsInv, UpsertProfile

(* A cell created from a rule of the grant being applied.                   *)
LEMMA NewCellType ==
  ASSUME NEW t \in Tasks, GrantsInv, task[t].pc = "init",
         NEW name \in RuleNames \cup {None}, NEW rule \in Rules
  PROVE  NewCell(t, name, rule) \in Cells
<1>1. task[t].event \in GrantEvents /\ task[t].event.target \in Clients
  BY DEF GrantsInv, TaskInv
<1>2. FromRule(task[t].now, rule) \in Counters
  BY FromRuleType DEF GrantsInv, TypeOK
<1> QED
  BY <1>1, <1>2 DEF NewCell, Cells

LEMMA InitMethodInv ==
  ASSUME NEW t \in Tasks, NEW m \in RuleNames, GrantsInv, InitMethod(t, m)
  PROVE  GrantsInv' /\ CellsGrow
<1> DEFINE rule == task[t].event.content.methods[m]
           cell == NewCell(t, m, rule)
<1>1. rule \in Rules
  BY RatedType DEF InitMethod, GrantsInv, TaskInv
<1>2. cell \in Cells /\ cell.name = m /\ cell.event = task[t].event
  BY <1>1, NewCellType DEF InitMethod, NewCell
<1>3. m # None
  BY NoneAssumption
<1>4. cells \in Seq(Cells) /\ cells' = Append(cells, cell)
  BY DEF InitMethod, GrantsInv, TypeOK
<1> HIDE DEF cell
<1>5. /\ cells' \in Seq(Cells) /\ Len(cells') = Len(cells) + 1
      /\ \A i \in DOMAIN cells : i \in DOMAIN cells' /\ cells'[i] = cells[i]
      /\ DOMAIN cells' = DOMAIN cells \cup {Len(cells) + 1}
      /\ cells'[Len(cells) + 1] = cell
  BY <1>2, <1>4
<1>6. TypeOK'
  <2>1. /\ task' = [task EXCEPT ![t].todo = @ \ {m}]
        /\ access_rate' = [access_rate EXCEPT ![task[t].event.target][m] =
                             Len(cells) + 1]
        /\ task[t].event.target \in Clients /\ Len(cells) + 1 \in Nat
    BY <1>4 DEF InitMethod, GrantsInv, TaskInv
  <2>2. access_rate' \in [Clients -> [RuleNames -> Nat \cup {None}]]
    <3>1. access_rate \in [Clients -> [RuleNames -> Nat \cup {None}]]
      BY DEF GrantsInv, TypeOK
    <3> QED BY <2>1, <3>1
  <2>3. task' \in TaskType
    BY <2>1, Zenon DEF GrantsInv, TypeOK, TaskType
  <2> QED
    BY <1>5, <2>2, <2>3 DEF InitMethod, GrantsInv, TypeOK, TaskType
<1>7. TaskInv'
  BY DEF InitMethod, GrantsInv, TypeOK, TaskInv
<1>8. CellInv'
  BY <1>1, <1>2, <1>3, <1>5 DEF GrantsInv, CellInv, RuleOf
<1>9. MapInv'
  <2>1. /\ access_rate' = [access_rate EXCEPT ![task[t].event.target][m] =
                             Len(cells) + 1]
        /\ task[t].event.target \in Clients /\ quota' = quota
        /\ access_rate \in [Clients -> [RuleNames -> Nat \cup {None}]]
    BY DEF InitMethod, GrantsInv, TaskInv, TypeOK
  <2>2. ASSUME NEW c \in Clients, NEW n \in RuleNames,
               access_rate'[c][n] # None
        PROVE  /\ access_rate'[c][n] \in DOMAIN cells'
               /\ cells'[access_rate'[c][n]].name = n
    <3>1. CASE c = task[t].event.target /\ n = m
      BY <1>2, <1>5, <2>1, <3>1
    <3>2. CASE ~(c = task[t].event.target /\ n = m)
      <4>1. access_rate'[c][n] = access_rate[c][n]
        BY <2>1, <3>2
      <4> QED
        BY <1>5, <2>2, <4>1 DEF GrantsInv, MapInv
    <3> QED
      BY <3>1, <3>2
  <2> QED
    BY <1>5, <2>1, <2>2 DEF GrantsInv, MapInv
<1> QED
  BY <1>5, <1>6, <1>7, <1>8, <1>9 DEF GrantsInv, CellsGrow

LEMMA InitQuotaInv ==
  ASSUME NEW t \in Tasks, GrantsInv, InitQuota(t)
  PROVE  GrantsInv' /\ CellsGrow
<1> DEFINE rule == task[t].event.content.quota
           cell == NewCell(t, None, rule)
<1>1. rule \in Rules \cup {None}
  BY DEF InitQuota, GrantsInv, TaskInv, IsProfile
<1>2. cells \in Seq(Cells)
  BY DEF GrantsInv, TypeOK
<1>3. /\ task[t].pc = "init" /\ task' = [task EXCEPT ![t].pc = "upsert"]
      /\ task[t].event.target \in Clients
  BY DEF InitQuota, GrantsInv, TaskInv
<1>4. TaskInv'
  BY <1>3 DEF GrantsInv, TypeOK, TaskInv
<1>5. CASE rule = None
  <2>1. UNCHANGED <<clock, published, inbox, applied, usage_profiles, quota,
                    access_rate, cells, restarts>>
    BY <1>5 DEF InitQuota
  <2>2. task' \in TaskType
    BY <1>3, TaskMoves DEF Phases
  <2> HIDE DEF cell, rule
  <2>3. TypeOK'
    BY <2>1, <2>2 DEF GrantsInv, TypeOK, TaskType
  <2>4. CellInv' /\ MapInv'
    BY <2>1 DEF InitQuota, GrantsInv, CellInv, MapInv, RuleOf
  <2> QED
    BY <1>2, <1>4, <2>1, <2>3, <2>4 DEF GrantsInv, CellsGrow
<1>6. CASE rule # None
  <2>1. cell \in Cells /\ cell.name = None /\ cell.event = task[t].event
    BY <1>1, <1>6, NewCellType DEF InitQuota, NewCell
  <2>2. /\ cells' = Append(cells, cell)
        /\ quota' = [quota EXCEPT ![task[t].event.target] = Len(cells) + 1]
    BY <1>6 DEF InitQuota
  <2> HIDE DEF cell
  <2>3. /\ cells' \in Seq(Cells) /\ Len(cells') = Len(cells) + 1
        /\ \A i \in DOMAIN cells : i \in DOMAIN cells' /\ cells'[i] = cells[i]
        /\ DOMAIN cells' = DOMAIN cells \cup {Len(cells) + 1}
        /\ cells'[Len(cells) + 1] = cell
    BY <1>2, <2>1, <2>2
  <2>4. TypeOK'
    <3>1. quota' \in [Clients -> Nat \cup {None}]
      BY <1>2, <1>3, <2>2 DEF GrantsInv, TypeOK
    <3>2. task' \in TaskType
      BY <1>3, TaskMoves DEF Phases
    <3> QED
      BY <2>3, <3>1, <3>2 DEF InitQuota, GrantsInv, TypeOK, TaskType
  <2>5. CellInv'
    BY <1>1, <1>6, <2>1, <2>3 DEF GrantsInv, CellInv, RuleOf
  <2>6. MapInv'
    BY <2>1, <2>2, <2>3 DEF InitQuota, GrantsInv, TypeOK, MapInv, TaskInv
  <2> QED
    BY <1>4, <2>3, <2>4, <2>5, <2>6 DEF GrantsInv, CellsGrow
<1> QED
  BY <1>5, <1>6

(* A step of a task that applies grants keeps the invariant and every cell. *)
LEMMA ApplyInv ==
  ASSUME NEW t \in Tasks, GrantsInv, Apply(t)
  PROVE  GrantsInv' /\ CellsGrow
<1>1. cells' = cells => CellsGrow
  BY DEF CellsGrow, GrantsInv, TypeOK
<1>2. CASE StartGrant(t)
  BY <1>1, <1>2, StartGrantInv
<1>3. CASE ClearAccess(t)
  BY <1>1, <1>3, ClearAccessInv
<1>4. CASE ClearQuota(t)
  BY <1>1, <1>4, ClearQuotaInv
<1>5. ASSUME NEW m \in RuleNames, InitMethod(t, m)
      PROVE  GrantsInv' /\ CellsGrow
  BY <1>5, InitMethodInv
<1>6. CASE InitQuota(t)
  BY <1>6, InitQuotaInv
<1>7. CASE UpsertProfile(t)
  BY <1>1, <1>7, UpsertProfileInv
<1>8. CASE StampCounters(t)
  BY <1>1, <1>8, StampCountersInv
<1> QED
  BY <1>2, <1>3, <1>4, <1>5, <1>6, <1>7, <1>8 DEF Apply, Upsert

LEMMA GrantsStep == GrantsInv /\ [GrantsNext]_grantVars => GrantsInv'
<1> SUFFICES ASSUME GrantsInv, [GrantsNext]_grantVars PROVE GrantsInv'
  OBVIOUS
<1>1. CASE Tick \/ Relay
  BY <1>1, EnvironmentInv
<1>2. CASE Restart
  BY <1>2, RestartInv
<1>3. ASSUME NEW t \in Tasks, Apply(t) PROVE GrantsInv'
  BY <1>3, ApplyInv
<1>4. CASE UNCHANGED grantVars
  BY <1>4 DEF grantVars, GrantsInv, TypeOK, TaskInv, CellInv, MapInv, RuleOf
<1> QED
  BY <1>1, <1>2, <1>3, <1>4 DEF GrantsNext

(* Every state of the grant tasks is well-typed, and each handle of the     *)
(* maps leads to a counter of its own rule.                                 *)
THEOREM GrantsTypeCorrect == GrantsSpec => []TypeOK
<1>1. GrantsInv => TypeOK
  BY DEF GrantsInv
<1> QED
  BY <1>1, GrantsInitInv, GrantsStep, PTL DEF GrantsSpec

----------------------------------------------------------------------------
(* Counters are created once per grant.                                     *)

Busy(t) == task[t].pc # "idle"
Settled(e) == applied[e.target] # None /\ ~Newer(e, applied[e.target])

(* Whatever a task is applying, or a cell was made for, has been accepted;  *)
(* no two tasks apply the same grant; and the cells of the grant a task is  *)
(* applying are those it has made so far.                                   *)
OnceInv ==
  /\ \A t \in Tasks : Busy(t) => Settled(task[t].event)
  /\ \A t, u \in Tasks :
       Busy(t) /\ Busy(u) /\ task[t].event = task[u].event => t = u
  /\ \A i \in DOMAIN cells : /\ cells[i].client = cells[i].event.target
                             /\ Settled(cells[i].event)
  /\ \A i \in DOMAIN cells, t \in Tasks :
       Busy(t) /\ cells[i].event = task[t].event =>
         /\ task[t].pc \in {"init", "upsert"}
         /\ task[t].pc = "init" => cells[i].name \notin task[t].todo
         /\ cells[i].name = None => task[t].pc = "upsert"
  /\ CountersOncePerGrant

(* The order of acceptance: what is not newer than g is not newer than, nor *)
(* equal to, what is.                                                       *)
LEMMA NewerOrder ==
  ASSUME NEW e \in GrantEvents, NEW f \in GrantEvents, NEW g \in GrantEvents,
         Newer(e, g), ~Newer(f, g)
  PROVE  ~Newer(f, e) /\ f # e
<1>1. /\ e.created_at \in Nat /\ f.created_at \in Nat /\ g.created_at \in Nat
      /\ e.id \in Nat /\ f.id \in Nat /\ g.id \in Nat
  BY GrantEventsAssumption
<1> QED
  BY <1>1 DEF Newer

(* Accepting an event keeps what was accepted before it.                    *)
LEMMA SettledKept ==
  ASSUME GrantsInv, NEW e \in GrantEvents, ShouldApply(e),
         applied' = [applied EXCEPT ![e.target] = e],
         NEW f \in GrantEvents, Settled(f)
  PROVE  Settled(f)' /\ f # e
<1>1. /\ applied \in [Clients -> GrantEvents \cup {None}]
      /\ e.target \in Clients /\ e # None
  BY EventType, NoneAssumption DEF GrantsInv, TypeOK, ShouldApply
<1>2. CASE f.target = e.target
  <2>1. applied[e.target] \in GrantEvents /\ Newer(e, applied[e.target])
    BY <1>1, <1>2 DEF Settled, ShouldApply
  <2>2. ~Newer(f, e) /\ f # e
    BY <1>2, <2>1, NewerOrder DEF Settled
  <2> QED
    BY <1>1, <1>2, <2>2 DEF Settled
<1>3. CASE f.target # e.target
  BY <1>1, <1>3 DEF Settled
<1> QED
  BY <1>2, <1>3

(* A new event is not yet being applied, nor has cells.                     *)
LEMMA AcceptOnce ==
  ASSUME GrantsInv, OnceInv, NEW t \in Tasks, NEW e \in GrantEvents,
         Accept(t, e)
  PROVE  OnceInv'
<1>1. /\ ShouldApply(e) /\ applied' = [applied EXCEPT ![e.target] = e]
      /\ task' = [task EXCEPT ![t] = [pc |-> "clear_access", event |-> e,
                                      now |-> 0, todo |-> {}]]
      /\ cells' = cells /\ task[t].pc = "idle"
  BY DEF Accept, Look
<1>2. /\ e.target \in Clients /\ e # None
      /\ applied \in [Clients -> GrantEvents \cup {None}]
      /\ \A u \in Tasks : Busy(u) => task[u].event \in GrantEvents
      /\ \A i \in DOMAIN cells : cells[i].event \in GrantEvents
      /\ task \in TaskType
  <2>1. e.target \in Clients /\ e # None
    BY <1>1, EventType, NoneAssumption DEF ShouldApply
  <2>2. \A i \in DOMAIN cells : cells[i] \in Cells
    BY DEF GrantsInv, TypeOK
  <2> QED
    BY <2>1, <2>2 DEF GrantsInv, TypeOK, TaskType, TaskInv, Cells, Busy
<1>3. \A f \in GrantEvents : Settled(f) => Settled(f)' /\ f # e
  BY <1>1, SettledKept
<1>4. Settled(e)'
  <2>1. ~Newer(e, e)
    BY GrantEventsAssumption DEF Newer
  <2> QED
    BY <1>1, <1>2, <2>1 DEF Settled
<1>5. \A u \in Tasks : u # t => task'[u] = task[u]
  BY <1>1, <1>2 DEF TaskType
<1>6. task'[t].pc = "clear_access" /\ task'[t].event = e
  BY <1>1, <1>2 DEF TaskType
<1>7. \A u \in Tasks : Busy(u)' => Settled(task[u].event)'
  BY <1>2, <1>3, <1>4, <1>5, <1>6 DEF OnceInv, Busy
<1>8. \A u, v \in Tasks :
        Busy(u)' /\ Busy(v)' /\ task'[u].event = task'[v].event => u = v
  BY <1>2, <1>3, <1>5, <1>6 DEF OnceInv, Busy
<1>9. \A i \in DOMAIN cells : /\ cells[i].client = cells[i].event.target
                              /\ Settled(cells[i].event)'
                              /\ cells[i].event # e
  <2> SUFFICES ASSUME NEW i \in DOMAIN cells
               PROVE  /\ cells[i].client = cells[i].event.target
                      /\ Settled(cells[i].event)' /\ cells[i].event # e
    OBVIOUS
  <2>1. Settled(cells[i].event) /\ cells[i].event \in GrantEvents
    BY <1>2 DEF OnceInv
  <2>2. cells'[i].event = cells[i].event
    BY <1>1
  <2> QED
    BY <1>3, <2>1, <2>2 DEF OnceInv, Settled
<1>10. \A i \in DOMAIN cells, u \in Tasks :
         Busy(u)' /\ cells[i].event = task'[u].event =>
           /\ task'[u].pc \in {"init", "upsert"}
           /\ task'[u].pc = "init" => cells[i].name \notin task'[u].todo
           /\ cells[i].name = None => task'[u].pc = "upsert"
  BY <1>5, <1>6, <1>9 DEF OnceInv, Busy
<1>11. CountersOncePerGrant'
  BY <1>1 DEF OnceInv, CountersOncePerGrant
<1>12. (\A i \in DOMAIN cells : /\ cells[i].client = cells[i].event.target
                                /\ Settled(cells[i].event))'
  BY <1>1, <1>9 DEF Settled
<1>13. (\A u \in Tasks : Busy(u) => Settled(task[u].event))'
  BY <1>7
<1> QED
  BY <1>1, <1>8, <1>10, <1>11, <1>12, <1>13 DEF OnceInv, Busy

LEMMA AcceptUnparseableOnce ==
  ASSUME GrantsInv, OnceInv, NEW t \in Tasks, NEW e \in GrantEvents,
         AcceptUnparseable(t, e)
  PROVE  OnceInv'
<1>1. /\ ShouldApply(e) /\ applied' = [applied EXCEPT ![e.target] = e]
      /\ task' = task /\ cells' = cells
  BY DEF AcceptUnparseable
<1>2. \A f \in GrantEvents : Settled(f) => Settled(f)'
  BY <1>1, SettledKept
<1>3. \A u \in Tasks : Busy(u) => task[u].event \in GrantEvents
  BY DEF GrantsInv, TaskInv, Busy
<1>4. \A i \in DOMAIN cells : cells[i].event \in GrantEvents
  <2>1. \A i \in DOMAIN cells : cells[i] \in Cells
    BY DEF GrantsInv, TypeOK
  <2> QED
    BY <2>1 DEF Cells
<1>5. (\A u \in Tasks : Busy(u) => Settled(task[u].event))'
  BY <1>1, <1>2, <1>3 DEF OnceInv, Busy, Settled
<1>6. (\A i \in DOMAIN cells : /\ cells[i].client = cells[i].event.target
                               /\ Settled(cells[i].event))'
  BY <1>1, <1>2, <1>4 DEF OnceInv, Settled
<1> QED
  BY <1>1, <1>5, <1>6 DEF OnceInv, Busy, CountersOncePerGrant

(* A step that only moves one task on, without creating a cell.             *)
LEMMA MoveOnce ==
  ASSUME GrantsInv, OnceInv, NEW t \in Tasks,
         \/ ClearAccess(t) \/ ClearQuota(t)
         \/ StampCounters(t) \/ UpsertProfile(t)
  PROVE  OnceInv'
<1>1. task \in TaskType /\ applied' = applied /\ cells' = cells
  BY DEF GrantsInv, TypeOK, TaskType, ClearAccess, ClearQuota, StampCounters,
      UpsertProfile, storeVars
<1>2. \A u \in Tasks : u # t => task'[u] = task[u]
  BY <1>1 DEF TaskType, ClearAccess, ClearQuota, StampCounters,
      UpsertProfile, storeVars
<1>3. /\ Busy(t) /\ task[t].pc # "init"
      /\ Busy(t)' => task'[t].event = task[t].event /\ task[t].pc # "upsert"
  BY <1>1 DEF TaskType, ClearAccess, ClearQuota, StampCounters, UpsertProfile,
      storeVars, Busy, Idle
<1>4. \A u \in Tasks : Busy(u)' => Busy(u) /\ task'[u].event = task[u].event
  BY <1>2, <1>3 DEF Busy
<1>5. (\A u \in Tasks : Busy(u) => Settled(task[u].event))'
  BY <1>1, <1>4 DEF OnceInv, Settled
<1>6. (\A i \in DOMAIN cells, u \in Tasks :
         Busy(u) /\ cells[i].event = task[u].event =>
           /\ task[u].pc \in {"init", "upsert"}
           /\ task[u].pc = "init" => cells[i].name \notin task[u].todo
           /\ cells[i].name = None => task[u].pc = "upsert")'
  BY <1>1, <1>2, <1>3, <1>4 DEF OnceInv
<1>7. (\A u, v \in Tasks :
         Busy(u) /\ Busy(v) /\ task[u].event = task[v].event => u = v)'
  BY <1>4 DEF OnceInv
<1>8. (\A i \in DOMAIN cells : /\ cells[i].client = cells[i].event.target
                               /\ Settled(cells[i].event))'
  BY <1>1 DEF OnceInv, Settled
<1> QED
  BY <1>1, <1>5, <1>6, <1>7, <1>8 DEF OnceInv, CountersOncePerGrant

(* A counter that the task of its grant creates is the first of its name.   *)
LEMMA CreateOnce ==
  ASSUME GrantsInv, OnceInv, NEW t \in Tasks, task[t].pc = "init",
         NEW name \in RuleNames \cup {None}, NEW rule \in Rules,
         name # None => name \in task[t].todo,
         cells' = Append(cells, NewCell(t, name, rule)),
         applied' = applied,
         \A u \in Tasks : u # t => task'[u] = task[u],
         task'[t].event = task[t].event,
         \/ /\ name # None
            /\ task'[t].pc = "init" /\ task'[t].todo = task[t].todo \ {name}
         \/ name = None /\ task'[t].pc = "upsert"
  PROVE  OnceInv'
<1> DEFINE n == Len(cells) + 1
           cell == NewCell(t, name, rule)
<1>a. cell \in Cells /\ cells \in Seq(Cells) /\ cells' = Append(cells, cell)
  BY NewCellType DEF GrantsInv, TypeOK
<1>b. ASSUME NEW c0, c0 \in Cells, cells' = Append(cells, c0)
      PROVE  /\ cells' \in Seq(Cells) /\ n \in Nat
             /\ \A i \in DOMAIN cells :
                  i \in DOMAIN cells' /\ cells'[i] = cells[i]
             /\ DOMAIN cells' = DOMAIN cells \cup {n} /\ n \notin DOMAIN cells
             /\ cells'[n] = c0
  BY <1>a, <1>b
<1>1. /\ cells' \in Seq(Cells) /\ n \in Nat
      /\ \A i \in DOMAIN cells : i \in DOMAIN cells' /\ cells'[i] = cells[i]
      /\ DOMAIN cells' = DOMAIN cells \cup {n} /\ n \notin DOMAIN cells
      /\ cells'[n] = cell
  BY <1>a, <1>b
<1>2. /\ cell.event = task[t].event /\ cell.client = task[t].event.target
      /\ cell.name = name /\ Busy(t)
  BY DEF NewCell, Busy
<1> HIDE DEF n, cell
<1>3. \A u \in Tasks : Busy(u)' = Busy(u) /\ task'[u].event = task[u].event
  BY DEF Busy
<1>4. \A i \in DOMAIN cells :
        cells[i].event = cell.event => cells[i].name # name
  BY <1>2 DEF OnceInv
<1>5. (\A u \in Tasks : Busy(u) => Settled(task[u].event))'
  BY <1>3 DEF OnceInv, Settled
<1>6. (\A u, v \in Tasks :
         Busy(u) /\ Busy(v) /\ task[u].event = task[v].event => u = v)'
  BY <1>3 DEF OnceInv
<1>7. (\A i \in DOMAIN cells : /\ cells[i].client = cells[i].event.target
                               /\ Settled(cells[i].event))'
  BY <1>1, <1>2 DEF OnceInv, Settled
<1>8. ASSUME NEW i \in DOMAIN cells', NEW u \in Tasks, Busy(u)',
             cells'[i].event = task'[u].event
      PROVE  /\ task'[u].pc \in {"init", "upsert"}
             /\ task'[u].pc = "init" => cells'[i].name \notin task'[u].todo
             /\ cells'[i].name = None => task'[u].pc = "upsert"
  <2>1. CASE i = n
    <3>1. u = t
      BY <1>1, <1>2, <1>3, <1>8, <2>1 DEF OnceInv
    <3> QED
      BY <1>1, <1>2, <2>1, <3>1
  <2>2. CASE i # n /\ u = t
    <3>1. i \in DOMAIN cells /\ cells'[i] = cells[i]
      BY <1>1, <1>8, <2>2
    <3>2. cells[i].event = task[t].event
      BY <1>3, <1>8, <2>2, <3>1
    <3>3. cells[i].name \notin task[t].todo /\ cells[i].name # None
      BY <1>2, <3>1, <3>2 DEF OnceInv
    <3> QED
      BY <2>2, <3>1, <3>3
  <2>3. CASE i # n /\ u # t
    <3>1. i \in DOMAIN cells /\ cells'[i] = cells[i] /\ task'[u] = task[u]
      BY <1>1, <1>8, <2>3
    <3> QED
      BY <1>3, <1>8, <3>1 DEF OnceInv
  <2> QED
    BY <2>1, <2>2, <2>3
<1>9. CountersOncePerGrant'
  BY <1>1, <1>2, <1>4 DEF OnceInv, CountersOncePerGrant
<1> QED
  BY <1>5, <1>6, <1>7, <1>8, <1>9 DEF OnceInv

LEMMA InitOnce ==
  ASSUME GrantsInv, OnceInv, NEW t \in Tasks,
         InitQuota(t) \/ \E m \in RuleNames : InitMethod(t, m)
  PROVE  OnceInv'
<1>1. task \in TaskType
  BY DEF GrantsInv, TypeOK, TaskType
<1>2. ASSUME NEW m \in RuleNames, InitMethod(t, m) PROVE OnceInv'
  <2>1. task[t].event.content.methods[m] \in Rules /\ m # None
    BY <1>2, RatedType, NoneAssumption DEF InitMethod, GrantsInv, TaskInv
  <2>2. /\ task[t].pc = "init" /\ m \in task[t].todo /\ applied' = applied
        /\ cells' = Append(cells,
                           NewCell(t, m, task[t].event.content.methods[m]))
        /\ task' = [task EXCEPT ![t].todo = @ \ {m}]
    BY <1>2 DEF InitMethod
  <2>3. /\ \A u \in Tasks : u # t => task'[u] = task[u]
        /\ task'[t].event = task[t].event /\ task'[t].pc = "init"
        /\ task'[t].todo = task[t].todo \ {m}
    BY <1>1, <2>2 DEF TaskType
  <2> QED
    BY <2>1, <2>2, <2>3, CreateOnce
<1>3. CASE InitQuota(t)
  <2> DEFINE rule == task[t].event.content.quota
  <2>1. /\ task[t].pc = "init" /\ applied' = applied
        /\ \A u \in Tasks : u # t => task'[u] = task[u]
        /\ task'[t].event = task[t].event /\ task'[t].pc = "upsert"
    BY <1>1, <1>3 DEF InitQuota, TaskType
  <2>2. rule \in Rules \cup {None}
    BY <2>1 DEF GrantsInv, TaskInv, IsProfile
  <2>3. CASE rule # None
    <3>1. cells' = Append(cells, NewCell(t, None, rule))
      BY <1>3, <2>3 DEF InitQuota
    <3> QED
      BY <2>1, <2>2, <2>3, <3>1, CreateOnce
  <2>4. CASE rule = None
    <3>1. cells' = cells
      BY <1>3, <2>4 DEF InitQuota
    <3>2. \A u \in Tasks : Busy(u)' = Busy(u) /\ task'[u].event = task[u].event
      BY <2>1 DEF Busy
    <3>3. (\A u \in Tasks : Busy(u) => Settled(task[u].event))'
      BY <2>1, <3>2 DEF OnceInv, Settled
    <3>4. (\A i \in DOMAIN cells : /\ cells[i].client = cells[i].event.target
                                   /\ Settled(cells[i].event))'
      BY <2>1, <3>1 DEF OnceInv, Settled
    <3>5. (\A i \in DOMAIN cells, u \in Tasks :
             Busy(u) /\ cells[i].event = task[u].event =>
               /\ task[u].pc \in {"init", "upsert"}
               /\ task[u].pc = "init" => cells[i].name \notin task[u].todo
               /\ cells[i].name = None => task[u].pc = "upsert")'
      BY <2>1, <3>1, <3>2 DEF OnceInv
    <3> QED
      BY <3>1, <3>2, <3>3, <3>4, <3>5 DEF OnceInv, CountersOncePerGrant
  <2> QED
    BY <2>3, <2>4
<1> QED
  BY <1>2, <1>3

LEMMA GrantsOnce == GrantsInv /\ OnceInv /\ [GrantsNext]_grantVars => OnceInv'
<1> SUFFICES ASSUME GrantsInv, OnceInv, [GrantsNext]_grantVars PROVE OnceInv'
  OBVIOUS
<1>1. UNCHANGED <<task, applied, cells>> => OnceInv'
  BY DEF OnceInv, Busy, Settled, CountersOncePerGrant
<1>2. CASE Tick \/ Relay
  BY <1>1, <1>2 DEF Tick, Relay, Publish, Deliver, Poll, storeVars
<1>3. CASE Restart
  BY <1>3 DEF Restart, OnceInv, NoTask, Idle, Busy, CountersOncePerGrant
<1>4. ASSUME NEW t \in Tasks, StartGrant(t) PROVE OnceInv'
  <2>1. PICK e \in inbox[t] : Skip(t, e) \/ AcceptUnparseable(t, e) \/ Accept(t, e)
    BY <1>4 DEF StartGrant
  <2>2. e \in GrantEvents
    BY <2>1 DEF GrantsInv, TypeOK
  <2>3. CASE Skip(t, e)
    BY <1>1, <2>3 DEF Skip, storeVars
  <2> QED
    BY <2>1, <2>2, <2>3, AcceptOnce, AcceptUnparseableOnce
<1>5. ASSUME NEW t \in Tasks, Upsert(t) PROVE OnceInv'
  BY <1>5, MoveOnce, InitOnce DEF Upsert
<1>6. CASE UNCHANGED grantVars
  BY <1>1, <1>6 DEF grantVars
<1> QED
  BY <1>2, <1>3, <1>4, <1>5, <1>6 DEF GrantsNext, Apply

(* A grant creates each of its counters at most once, however many tasks    *)
(* see it and however often: no delivery gives back what was spent.         *)
THEOREM GrantsOnceCorrect == GrantsSpec => []CountersOncePerGrant
<1>1. GrantsInit => OnceInv
  BY DEF GrantsInit, OnceInv, NoTask, Idle, Busy, CountersOncePerGrant
<1>2. GrantsInv /\ [GrantsNext]_grantVars => GrantsInv'
  BY GrantsStep
<1>3. OnceInv => CountersOncePerGrant
  BY DEF OnceInv
<1> QED
  BY <1>1, <1>2, <1>3, GrantsInitInv, GrantsOnce, PTL DEF GrantsSpec

----------------------------------------------------------------------------
(* A grant in force: the profile of the latest grant is stored, or a task   *)
(* is making its counters, and the counters of a stored profile are those   *)
(* its grant asks for.  Per task, what is made so far is what its step      *)
(* says.                                                                    *)

(* How far the upsert of a task has come (usage_profile/service.rs:16-70).  *)
Progress(t) == LET e == task[t].event
                   c == task[t].event.target IN
  /\ task[t].pc \in {"clear_quota", "stamp"} => AccessOf(c, e, {})
  /\ task[t].pc = "init" => AccessOf(c, e, Rated(e.content) \ task[t].todo)
  /\ task[t].pc \in {"stamp", "init"} => quota[c] = None
  /\ task[t].pc = "upsert" => AccessOf(c, e, Rated(e.content)) /\ QuotaOf(c, e)

(* The latest grant of a client is stored or being applied; a task that     *)
(* applies an older one has been overtaken by a grant that does not parse.  *)
ForceInv ==
  /\ \A c \in Clients :
       applied[c] # None /\ applied[c].content # Unparseable =>
         \/ usage_profiles[c] = applied[c]
         \/ \E t \in Tasks : /\ Busy(t) /\ task[t].event = applied[c]
                             /\ task[t].event.target = c
  /\ \A t \in Tasks : Busy(t) =>
       LET a == applied[task[t].event.target] IN
         a = task[t].event \/ (a # None /\ a.content = Unparseable)
  /\ \A t \in Tasks : Busy(t) => Progress(t)
  /\ CountersMatchProfile

(* What is made for a client depends on its entries and on what the cells   *)
(* were created for.                                                        *)
LEMMA CountersKept ==
  ASSUME GrantsInv, NEW c \in Clients,
         access_rate'[c] = access_rate[c] /\ quota'[c] = quota[c],
         \A i \in DOMAIN cells : cells'[i].event = cells[i].event,
         NEW e, NEW names
  PROVE  /\ AccessOf(c, e, names) => AccessOf(c, e, names)'
         /\ QuotaOf(c, e) => QuotaOf(c, e)'
BY DEF AccessOf, QuotaOf, GrantsInv, MapInv

LEMMA ForceKept ==
  ASSUME GrantsInv, ForceInv,
         UNCHANGED <<task, applied, usage_profiles, access_rate, quota>>,
         \A i \in DOMAIN cells : cells'[i].event = cells[i].event
  PROVE  ForceInv'
<1>1. \A c \in Clients : \A e, names :
        /\ AccessOf(c, e, names) => AccessOf(c, e, names)'
        /\ QuotaOf(c, e) => QuotaOf(c, e)'
  BY CountersKept
<1>2. ASSUME NEW t \in Tasks, Busy(t)' PROVE Progress(t)'
  <2>1. Busy(t) /\ Progress(t) /\ task[t].event.target \in Clients
    BY <1>2 DEF Busy, ForceInv, GrantsInv, TaskInv
  <2> QED BY <1>1, <2>1 DEF Progress
<1>3. CountersMatchProfile'
  BY <1>1 DEF ForceInv, CountersMatchProfile, Applying
<1> QED BY <1>2, <1>3 DEF ForceInv, Busy

(* What a step of task t changes is of its own client, whom no other task   *)
(* is applying a grant of.                                                  *)
LEMMA OthersForce ==
  ASSUME GrantsInv, ForceInv, OneAtATime, NEW t \in Tasks, Busy(t),
         NEW d \in Clients, d = task[t].event.target,
         \A u \in Tasks : u # t => task'[u] = task[u],
         Busy(t)' => task'[t].event = task[t].event,
         applied' = applied,
         \A c \in Clients : c # d =>
           /\ access_rate'[c] = access_rate[c] /\ quota'[c] = quota[c]
           /\ usage_profiles'[c] = usage_profiles[c],
         \A i \in DOMAIN cells : cells'[i].event = cells[i].event,
         \/ Busy(t)' /\ Progress(t)' /\ usage_profiles' = usage_profiles
         \/ /\ ~Busy(t)' /\ task[t].pc = "upsert"
            /\ UNCHANGED <<access_rate, quota>>
            /\ usage_profiles'[d] = task[t].event
  PROVE  ForceInv'
<1>1. \A c \in Clients : \A e, names : c # d =>
        /\ AccessOf(c, e, names) => AccessOf(c, e, names)'
        /\ QuotaOf(c, e) => QuotaOf(c, e)'
  BY CountersKept
<1>2. \A u \in Tasks : Busy(u) => task[u].event.target \in Clients
  BY DEF GrantsInv, TaskInv, Busy
<1>3. \A u \in Tasks : u # t /\ Busy(u) => task[u].event.target # d
  BY DEF OneAtATime, Busy
<1>4. \A u \in Tasks : Busy(u)' => Busy(u) /\ task'[u].event = task[u].event
  BY DEF Busy
<1>5. ASSUME NEW c \in Clients, applied'[c] # None,
             applied'[c].content # Unparseable
      PROVE  \/ usage_profiles'[c] = applied'[c]
             \/ \E u \in Tasks : /\ Busy(u)' /\ task'[u].event = applied'[c]
                                 /\ task'[u].event.target = c
  <2>1. CASE c = d
    <3>1. task[t].event = applied[c]
      BY <1>5, <2>1 DEF ForceInv
    <3> QED
      BY <2>1, <3>1
  <2>2. CASE c # d
    BY <1>5, <2>2 DEF ForceInv, Busy
  <2> QED
    BY <2>1, <2>2
<1>6. \A u \in Tasks : Busy(u)' =>
        LET a == applied'[task'[u].event.target] IN
          a = task'[u].event \/ (a # None /\ a.content = Unparseable)
  BY <1>4 DEF ForceInv
<1>7. ASSUME NEW u \in Tasks, Busy(u)' PROVE Progress(u)'
  <2>1. CASE u = t
    BY <1>7, <2>1
  <2>2. CASE u # t
    <3>1. /\ Progress(u) /\ task'[u] = task[u]
          /\ task[u].event.target \in Clients \ {d}
      BY <1>2, <1>3, <1>4, <1>7, <2>2 DEF ForceInv
    <3> QED
      BY <1>1, <3>1 DEF Progress
  <2> QED
    BY <2>1, <2>2
<1>8. ASSUME NEW c \in Clients, NEW e, e = usage_profiles'[c], e # None,
             ~Applying(c)'
      PROVE  (AccessOf(c, e, Rated(e.content)) /\ QuotaOf(c, e))'
  <2>1. CASE c # d
    <3>1. usage_profiles[c] = e /\ ~Applying(c)
      BY <1>8, <2>1 DEF Applying, Busy
    <3>2. AccessOf(c, e, Rated(e.content)) /\ QuotaOf(c, e)
      BY <1>8, <3>1 DEF ForceInv, CountersMatchProfile
    <3> QED
      BY <1>1, <2>1, <3>2
  <2>2. CASE c = d
    <3>1. ~Busy(t)'
      BY <1>8, <2>2 DEF Applying, Busy
    <3>2. AccessOf(d, e, Rated(e.content)) /\ QuotaOf(d, e)
      BY <1>8, <2>2, <3>1 DEF ForceInv, Progress
    <3>3. access_rate'[d] = access_rate[d] /\ quota'[d] = quota[d]
      BY <3>1
    <3> QED
      BY <2>2, <3>2, <3>3, CountersKept
  <2> QED
    BY <2>1, <2>2
<1>9. CountersMatchProfile'
  BY <1>8 DEF CountersMatchProfile
<1>10. (\A c \in Clients :
         applied[c] # None /\ applied[c].content # Unparseable =>
           \/ usage_profiles[c] = applied[c]
           \/ \E u \in Tasks : /\ Busy(u) /\ task[u].event = applied[c]
                               /\ task[u].event.target = c)'
  BY <1>5
<1> QED
  BY <1>6, <1>7, <1>9, <1>10 DEF ForceInv

(* Accepting a grant: where no other is applied for its client, it is the   *)
(* one accepted last.                                                       *)
LEMMA StartForce ==
  ASSUME GrantsInv, ForceInv, OneAtATime, OneAtATime', NEW t \in Tasks,
         StartGrant(t)
  PROVE  ForceInv'
<1>1. PICK e \in inbox[t] : Skip(t, e) \/ AcceptUnparseable(t, e) \/ Accept(t, e)
  BY DEF StartGrant
<1>2. /\ e \in GrantEvents /\ task \in TaskType
      /\ applied \in [Clients -> GrantEvents \cup {None}] /\ e # None
  BY <1>1, NoneAssumption DEF GrantsInv, TypeOK, TaskType
<1>3. CASE Skip(t, e)
  BY <1>3, ForceKept DEF Skip, storeVars
<1>4. CASE AcceptUnparseable(t, e)
  <2>1. /\ applied' = [applied EXCEPT ![e.target] = e] /\ e.content = Unparseable
        /\ UNCHANGED <<task, usage_profiles, access_rate, quota, cells>>
    BY <1>4 DEF AcceptUnparseable
  <2>2. \A c \in Clients : applied'[c] = IF c = e.target THEN e ELSE applied[c]
    BY <1>2, <2>1
  <2>3. \A u \in Tasks : Busy(u) => task[u].event.target \in Clients
    BY DEF GrantsInv, TaskInv, Busy
  <2>4. \A u \in Tasks : Busy(u) => Progress(u)'
    BY <2>1 DEF ForceInv, Progress, AccessOf, QuotaOf
  <2>5. CountersMatchProfile'
    BY <2>1 DEF ForceInv, CountersMatchProfile, Applying, AccessOf, QuotaOf
  <2>6. \A u \in Tasks : Busy(u) =>
          LET a == applied'[task[u].event.target] IN
            a = task[u].event \/ (a # None /\ a.content = Unparseable)
    BY <1>2, <2>1, <2>2, <2>3 DEF ForceInv
  <2>7. \A c \in Clients :
          applied'[c] # None /\ applied'[c].content # Unparseable =>
            \/ usage_profiles[c] = applied'[c]
            \/ \E u \in Tasks : /\ Busy(u) /\ task[u].event = applied'[c]
                                /\ task[u].event.target = c
    BY <2>1, <2>2 DEF ForceInv
  <2> QED
    BY <2>1, <2>4, <2>5, <2>6, <2>7 DEF ForceInv, Busy
<1>5. CASE Accept(t, e)
  <2>1. /\ applied' = [applied EXCEPT ![e.target] = e]
        /\ task' = [task EXCEPT ![t] = [pc |-> "clear_access", event |-> e,
                                        now |-> 0, todo |-> {}]]
        /\ UNCHANGED <<usage_profiles, access_rate, quota, cells>>
        /\ task[t].pc = "idle"
    BY <1>5 DEF Accept, Look
  <2>2. /\ \A c \in Clients : applied'[c] = IF c = e.target THEN e ELSE applied[c]
        /\ \A u \in Tasks : u # t => task'[u] = task[u]
        /\ task'[t].event = e /\ task'[t].pc = "clear_access"
    BY <1>2, <2>1 DEF TaskType
  <2>3. \A u \in Tasks : u # t /\ Busy(u) => task[u].event.target # e.target
    BY <2>2 DEF OneAtATime, Busy
  <2>4. ASSUME NEW u \in Tasks, Busy(u)' PROVE Progress(u)'
    <3>1. CASE u = t
      BY <2>2, <3>1 DEF Progress
    <3>2. CASE u # t
      <4>1. task'[u] = task[u] /\ UNCHANGED <<access_rate, quota, cells>>
        BY <2>1, <2>2, <3>2
      <4>2. Progress(u)
        BY <2>4, <4>1 DEF ForceInv, Busy
      <4> QED
        BY <4>1, <4>2 DEF Progress, AccessOf, QuotaOf
    <3> QED
      BY <3>1, <3>2
  <2>5. CountersMatchProfile'
    <3>1. \A c \in Clients : ~Applying(c)' => ~Applying(c)
      BY <2>1, <2>2 DEF Applying
    <3> QED
      BY <2>1, <3>1 DEF ForceInv, CountersMatchProfile, AccessOf, QuotaOf
  <2>6. \A u \in Tasks : Busy(u)' =>
          LET a == applied'[task'[u].event.target] IN
            a = task'[u].event \/ (a # None /\ a.content = Unparseable)
    <3>1. e.target \in Clients
      BY <1>2, <1>5, EventType DEF Accept, ShouldApply
    <3>2. \A u \in Tasks : Busy(u) => task[u].event.target \in Clients
      BY DEF GrantsInv, TaskInv, Busy
    <3> QED
      BY <2>2, <2>3, <3>1, <3>2 DEF ForceInv, Busy
  <2>7. ASSUME NEW c \in Clients, applied'[c] # None,
               applied'[c].content # Unparseable
        PROVE  \/ usage_profiles[c] = applied'[c]
               \/ \E u \in Tasks : /\ Busy(u)' /\ task'[u].event = applied'[c]
                                   /\ task'[u].event.target = c
    <3>1. CASE c = e.target
      BY <2>2, <3>1 DEF Busy
    <3>2. CASE c # e.target
      BY <2>1, <2>2, <2>7, <3>2 DEF ForceInv, Busy
    <3> QED
      BY <3>1, <3>2
  <2> QED
    BY <2>1, <2>4, <2>5, <2>6, <2>7 DEF ForceInv
<1> QED
  BY <1>1, <1>3, <1>4, <1>5

(* Each step of an upsert leaves its client's counters as far as it got.    *)
LEMMA UpsertForce ==
  ASSUME GrantsInv, ForceInv, OneAtATime, NEW t \in Tasks, Upsert(t)
  PROVE  ForceInv'
<1> DEFINE e == task[t].event
           d == task[t].event.target
<1>1. /\ task \in TaskType /\ Busy(t) /\ Progress(t) /\ d \in Clients
      /\ access_rate \in [Clients -> [RuleNames -> Nat \cup {None}]]
      /\ quota \in [Clients -> Nat \cup {None}]
      /\ usage_profiles \in [Clients -> GrantEvents \cup {None}]
      /\ cells \in Seq(Cells)
  <2>1. Busy(t)
    BY DEF Upsert, Busy, ClearAccess, ClearQuota, StampCounters,
       InitMethod, InitQuota, UpsertProfile
  <2> QED
    BY <2>1 DEF GrantsInv, TypeOK, TaskType, TaskInv, ForceInv, Busy
<1>2. CASE ClearAccess(t)
  <2>1. /\ task' = [task EXCEPT ![t].pc = "clear_quota"]
        /\ access_rate' = [access_rate EXCEPT ![d] = NoCounters]
        /\ UNCHANGED <<applied, usage_profiles, quota, cells>>
    BY <1>2 DEF ClearAccess
  <2>2. /\ \A u \in Tasks : u # t => task'[u] = task[u]
        /\ task'[t].event = e /\ task'[t].pc = "clear_quota"
        /\ access_rate'[d] = NoCounters
    BY <1>1, <2>1 DEF TaskType
  <2>3. Progress(t)'
    BY <2>2 DEF Progress, AccessOf, NoCounters
  <2>4. Busy(t)'
    BY <2>2 DEF Busy
  <2> QED
    BY <1>1, <2>1, <2>2, <2>3, <2>4, OthersForce
<1>3. CASE ClearQuota(t)
  <2>1. /\ task' = [task EXCEPT ![t].pc = "stamp"]
        /\ quota' = [quota EXCEPT ![d] = None] /\ task[t].pc = "clear_quota"
        /\ UNCHANGED <<applied, usage_profiles, access_rate, cells>>
    BY <1>3 DEF ClearQuota
  <2>2. /\ \A u \in Tasks : u # t => task'[u] = task[u]
        /\ task'[t].event = e /\ task'[t].pc = "stamp" /\ quota'[d] = None
    BY <1>1, <2>1 DEF TaskType
  <2>3. Progress(t)'
    BY <1>1, <2>1, <2>2 DEF Progress, AccessOf
  <2>4. Busy(t)'
    BY <2>2 DEF Busy
  <2> QED
    BY <1>1, <2>1, <2>2, <2>3, <2>4, OthersForce
<1>4. CASE StampCounters(t)
  <2>1. /\ task' = [task EXCEPT ![t] = [pc |-> "init", event |-> @.event,
                         now |-> clock, todo |-> Rated(@.event.content)]]
        /\ task[t].pc = "stamp"
        /\ UNCHANGED <<applied, usage_profiles, access_rate, quota, cells>>
    BY <1>4 DEF StampCounters, storeVars
  <2>2. /\ \A u \in Tasks : u # t => task'[u] = task[u]
        /\ task'[t].event = e /\ task'[t].pc = "init"
        /\ task'[t].todo = Rated(e.content)
    BY <1>1, <2>1 DEF TaskType
  <2>3. Progress(t)'
    BY <1>1, <2>1, <2>2 DEF Progress, AccessOf
  <2>4. Busy(t)'
    BY <2>2 DEF Busy
  <2> QED
    BY <1>1, <2>1, <2>2, <2>3, <2>4, OthersForce
<1>5. ASSUME NEW m \in RuleNames, InitMethod(t, m) PROVE ForceInv'
  <2> DEFINE n == Len(cells) + 1
             cell == NewCell(t, m, e.content.methods[m])
  <2>1. /\ task' = [task EXCEPT ![t].todo = @ \ {m}]
        /\ access_rate' = [access_rate EXCEPT ![d][m] = n]
        /\ task[t].pc = "init" /\ cells' = Append(cells, cell)
        /\ UNCHANGED <<applied, usage_profiles, quota>> /\ m \in task[t].todo
    BY <1>5 DEF InitMethod
  <2>2. /\ \A u \in Tasks : u # t => task'[u] = task[u]
        /\ task'[t].event = e /\ task'[t].pc = "init"
        /\ task'[t].todo = task[t].todo \ {m}
    BY <1>1, <2>1 DEF TaskType
  <2>3. /\ access_rate'[d][m] = n /\ n \in Nat
        /\ \A k \in RuleNames : k # m => access_rate'[d][k] = access_rate[d][k]
    BY <1>1, <2>1
  <2>4. /\ \A i \in DOMAIN cells : cells'[i] = cells[i]
        /\ cells'[n] = cell
    BY <1>1, <2>1
  <2>5. cell.event = e /\ n # None
    BY <2>3, NoneAssumption DEF NewCell
  <2>6. m \in Rated(e.content)
    BY <2>1 DEF GrantsInv, TaskInv
  <2> HIDE DEF n, cell
  <2>7. AccessOf(d, e, Rated(e.content) \ task[t].todo)
    BY <1>1, <2>1 DEF Progress
  <2>8. \A k \in RuleNames :
          access_rate[d][k] # None => access_rate[d][k] \in DOMAIN cells
    BY <1>1 DEF GrantsInv, MapInv
  <2>9. \A k \in RuleNames :
          IF k \in Rated(e.content) \ (task[t].todo \ {m})
          THEN access_rate'[d][k] # None /\ cells'[access_rate'[d][k]].event = e
          ELSE access_rate'[d][k] = None
    <3> SUFFICES ASSUME NEW k \in RuleNames
                 PROVE  IF k \in Rated(e.content) \ (task[t].todo \ {m})
                        THEN /\ access_rate'[d][k] # None
                             /\ cells'[access_rate'[d][k]].event = e
                        ELSE access_rate'[d][k] = None
      OBVIOUS
    <3>1. CASE k = m
      BY <2>3, <2>4, <2>5, <2>6, <3>1
    <3>2. CASE k # m
      BY <2>3, <2>4, <2>7, <2>8, <3>2 DEF AccessOf
    <3> QED
      BY <3>1, <3>2
  <2>10. Progress(t)'
    BY <1>1, <2>1, <2>2, <2>9, Zenon DEF Progress, AccessOf
  <2>11. /\ Busy(t)'
         /\ \A c \in Clients : c # d => access_rate'[c] = access_rate[c]
    BY <1>1, <2>1, <2>2 DEF Busy
  <2> QED
    BY <1>1, <2>1, <2>2, <2>4, <2>10, <2>11, OthersForce
<1>6. CASE InitQuota(t)
  <2> DEFINE rule == e.content.quota
             n == Len(cells) + 1
             cell == NewCell(t, None, rule)
  <2>1. /\ task' = [task EXCEPT ![t].pc = "upsert"]
        /\ task[t].pc = "init" /\ task[t].todo = {}
        /\ UNCHANGED <<applied, usage_profiles, access_rate>>
    BY <1>6 DEF InitQuota
  <2>2. /\ \A u \in Tasks : u # t => task'[u] = task[u]
        /\ task'[t].event = e /\ task'[t].pc = "upsert"
    BY <1>1, <2>1 DEF TaskType
  <2>3. AccessOf(d, e, Rated(e.content)) /\ quota[d] = None
    BY <1>1, <2>1 DEF Progress
  <2>4. Busy(t)'
    BY <2>2 DEF Busy
  <2>5. CASE rule = None
    <3>1. UNCHANGED <<cells, quota>>
      BY <1>6, <2>5 DEF InitQuota
    <3>2. Progress(t)'
      BY <2>1, <2>2, <2>3, <2>5, <3>1 DEF Progress, AccessOf, QuotaOf
    <3> QED
      BY <1>1, <2>1, <2>2, <2>4, <3>1, <3>2, OthersForce
  <2>6. CASE rule # None
    <3>1. cells' = Append(cells, cell) /\ quota' = [quota EXCEPT ![d] = n]
      BY <1>6, <2>6 DEF InitQuota
    <3>2. cell.event = e /\ n \in Nat /\ n # None
      BY <1>1, NoneAssumption DEF NewCell
    <3> HIDE DEF cell
    <3>3. /\ \A i \in DOMAIN cells : cells'[i] = cells[i]
          /\ cells'[n] = cell /\ quota'[d] = n
          /\ \A c \in Clients : c # d => quota'[c] = quota[c]
      BY <1>1, <3>1
    <3>4. (QuotaOf(d, e))'
      BY <2>2, <2>6, <3>2, <3>3 DEF QuotaOf
    <3>5. \A k \in RuleNames :
            access_rate[d][k] # None => access_rate[d][k] \in DOMAIN cells
      BY <1>1 DEF GrantsInv, MapInv
    <3>6. Progress(t)'
      BY <2>1, <2>2, <2>3, <3>3, <3>4, <3>5 DEF Progress, AccessOf
    <3> QED
      BY <1>1, <2>1, <2>2, <2>4, <3>3, <3>6, OthersForce
  <2> QED
    BY <2>5, <2>6
<1>7. CASE UpsertProfile(t)
  <2>1. /\ task' = [task EXCEPT ![t] = Idle] /\ task[t].pc = "upsert"
        /\ usage_profiles' = [usage_profiles EXCEPT ![d] = e]
        /\ UNCHANGED <<applied, access_rate, quota, cells>>
    BY <1>7 DEF UpsertProfile
  <2>2. /\ \A u \in Tasks : u # t => task'[u] = task[u]
        /\ ~Busy(t)' /\ usage_profiles'[d] = e
        /\ \A c \in Clients : c # d => usage_profiles'[c] = usage_profiles[c]
    BY <1>1, <2>1 DEF TaskType, Busy, Idle
  <2>3. /\ \A u \in Tasks : u # t => task'[u] = task[u]
        /\ Busy(t)' => task'[t].event = e
        /\ applied' = applied
        /\ \A c \in Clients : c # d =>
             /\ access_rate'[c] = access_rate[c] /\ quota'[c] = quota[c]
             /\ usage_profiles'[c] = usage_profiles[c]
        /\ \A i \in DOMAIN cells : cells'[i].event = cells[i].event
        /\ ~Busy(t)' /\ task[t].pc = "upsert"
        /\ UNCHANGED <<access_rate, quota>>
        /\ usage_profiles'[d] = e
    BY <2>1, <2>2
  <2> QED
    BY <1>1, <2>3, OthersForce
<1> QED
  BY <1>2, <1>3, <1>4, <1>5, <1>6, <1>7 DEF Upsert

LEMMA GrantsForce ==
  ASSUME GrantsInv, ForceInv, OneAtATime, OneAtATime', [GrantsNext]_grantVars
  PROVE  ForceInv'
<1>1. CASE Tick \/ Relay
  BY <1>1, ForceKept DEF Tick, Relay, Publish, Deliver, Poll, storeVars
<1>2. CASE Restart
  BY <1>2 DEF Restart, ForceInv, NoTask, Idle, Busy, NoGrant,
     CountersMatchProfile
<1>3. ASSUME NEW t \in Tasks, Apply(t) PROVE ForceInv'
  BY <1>3, StartForce, UpsertForce DEF Apply
<1>4. CASE UNCHANGED grantVars
  BY <1>4, ForceKept DEF grantVars
<1> QED
  BY <1>1, <1>2, <1>3, <1>4 DEF GrantsNext

(* With one grant per client at a time in the tasks, this holds for good.   *)
LEMMA ForceAlways == GrantsSpec /\ []OneAtATime => []ForceInv
<1>1. GrantsInit => ForceInv
  BY DEF GrantsInit, ForceInv, NoTask, Idle, Busy, NoGrant, CountersMatchProfile
<1>2. GrantsInv /\ ForceInv /\ OneAtATime /\ OneAtATime' /\ [GrantsNext]_grantVars
        => ForceInv'
  BY GrantsForce
<1> QED
  BY <1>1, <1>2, GrantsInitInv, GrantsStep, PTL DEF GrantsSpec

(* As long as no two tasks apply grants of one client at a time, the grant  *)
(* last accepted for a client is the one in force once no task is at it:    *)
(* in whatever order and however often grants arrive, and whenever the      *)
(* process restarts (lib.rs:779-786, 810-819).                              *)
THEOREM LatestGrantStays ==
  GrantsSpec /\ []OneAtATime => []LatestGrantActive
<1>1. ForceInv => LatestGrantActive
  BY DEF ForceInv, LatestGrantActive, Applying, Busy
<1> QED
  BY <1>1, ForceAlways, PTL

(* ... and a client whose grant is in force finds exactly the counters that *)
(* this grant rates, none of an older one, and a quota if the grant has one *)
(* and only then (usage_profile/service.rs:16-52).                          *)
THEOREM CountersStay ==
  GrantsSpec /\ []OneAtATime => []CountersMatchProfile
<1>1. ForceInv => CountersMatchProfile
  BY DEF ForceInv
<1> QED
  BY <1>1, ForceAlways, PTL

----------------------------------------------------------------------------
(*--------------------------------------------------------------------------*)
(* Request handling: theorems about AccessControl.                          *)
(*--------------------------------------------------------------------------*)

(* A stored profile parses.                                                 *)
ProfileInv ==
  \A c \in Clients : usage_profiles[c] # None =>
                       /\ usage_profiles[c] \in GrantEvents
                       /\ IsProfile(usage_profiles[c].content)

Early == {"profile", "clock", "access", "quota", "lock"}

(* What is so of a job j that a loop has, given the cells: its updates      *)
(* point to counters of their kinds, it holds and charges only counters it  *)
(* is to update, the quota's after the method's, and once they are verified *)
(* it can debit them all.                                                   *)
Covered(j, k, cs) ==
  CheckWithdraw(cs[j.updates[k].cell].state, j.updates[k].amount,
                j.now, j.updates[k].rule) = "Ok"

JobOK(j, cs) ==
  /\ j.pc # "idle" => j.request \in Requests
  /\ \A k \in DOMAIN j.updates :
       /\ j.updates[k].cell \in DOMAIN cs
       /\ cs[j.updates[k].cell].name = None <=> k = "Quota"
  /\ j.locked \subseteq DOMAIN j.updates /\ j.charged \subseteq DOMAIN j.updates
  /\ j.pc \notin {"lock", "debit"} => j.locked = {}
  /\ "Quota" \in j.locked /\ "Method" \in DOMAIN j.updates => "Method" \in j.locked
  /\ j.pc = "debit" => /\ j.locked = DOMAIN j.updates
                       /\ \A k \in DOMAIN j.updates \ j.charged : Covered(j, k, cs)
  /\ j.pc \in Early => j.charged = {}
  /\ j.pc \in {"dispatch", "execute"} => j.charged = DOMAIN j.updates
  /\ j.pc = "respond" /\ j.outcome \in Refusals \cup {"FAILED"} => j.charged = {}

JobInv == \A l \in Loops : JobOK(job[l], cells)

(* No two loops hold the same counter: the mutexes exclude.                 *)
Apart ==
  \A l, o \in Loops : l # o =>
    \A k \in job[l].locked, m \in job[o].locked :
      job[l].updates[k].cell # job[o].updates[m].cell

AccessInv == /\ GrantsInv /\ ProfileInv
             /\ pending \in SUBSET Requests
             /\ job \in [Loops -> Jobs]
             /\ JobInv /\ Apart

----------------------------------------------------------------------------
(* The records.                                                             *)

(* The updates of a job are a function on some of the two kinds.            *)
LEMMA UpdateMapsType ==
  ASSUME NEW f
  PROVE  f \in UpdateMaps <=> /\ DOMAIN f \subseteq Kinds
                              /\ f \in [DOMAIN f -> Updates]
BY DEF UpdateMaps, Kinds

LEMMA JobFields ==
  ASSUME NEW j \in Jobs
  PROVE  /\ j.updates \in UpdateMaps /\ DOMAIN j.updates \subseteq Kinds
         /\ \A k \in DOMAIN j.updates :
              /\ j.updates[k].cell \in Nat /\ j.updates[k].rule \in Rules
              /\ j.updates[k].amount \in Amounts
         /\ j.now \in Times /\ j.charged \subseteq Kinds /\ j.locked \subseteq Kinds
<1>1. j.updates \in UpdateMaps
  BY DEF Jobs
<1>2. DOMAIN j.updates \subseteq Kinds /\ j.updates \in [DOMAIN j.updates -> Updates]
  BY <1>1, UpdateMapsType
<1>3. ASSUME NEW k \in DOMAIN j.updates
      PROVE  j.updates[k] \in Updates
  BY <1>2
<1>4. j.now \in Times /\ j.charged \subseteq Kinds /\ j.locked \subseteq Kinds
  BY DEF Jobs
<1> QED
  BY <1>1, <1>2, <1>3, <1>4 DEF Updates

LEMMA NoJobType == NoJob \in Jobs
<1>1. NoUpdates \in UpdateMaps
  BY DEF NoUpdates, UpdateMaps
<1>2. 0 \in Times
  BY WidthAssumption DEF Times
<1> QED
  BY <1>1, <1>2 DEF NoJob, Jobs, Steps, Outcomes

(* A loop without a request, or with one it has just received.              *)
LEMMA NoJobOK ==
  JobOK(NoJob, cells) /\ NoJob.locked = {} /\ NoJob.charged = {}
BY DEF JobOK, NoJob, NoUpdates, Early

LEMMA ReceivedOK ==
  ASSUME NEW r \in Requests, NEW j \in Jobs, JobOK(j, cells), j.charged = {},
         j.locked = {}
  PROVE  /\ [j EXCEPT !.pc = "profile", !.request = r] \in Jobs
         /\ JobOK([j EXCEPT !.pc = "profile", !.request = r], cells)
         /\ [j EXCEPT !.pc = "profile", !.request = r].locked = {}
<1> DEFINE a == [j EXCEPT !.pc = "profile", !.request = r]
<1>1. /\ a \in Jobs /\ a.pc = "profile" /\ a.request = r /\ a.locked = {}
      /\ a.updates = j.updates /\ a.charged = {} /\ a.now = j.now
  BY DEF Jobs, Steps
<1> HIDE DEF a
<1>2. JobOK(a, cells)
  BY <1>1 DEF JobOK, Early
<1> QED
  BY <1>1, <1>2 DEF a

(* A response drops the guards; whoever is refused has been charged nothing. *)
LEMMA AnsweredOK ==
  ASSUME NEW j \in Jobs, JobOK(j, cells), j.pc # "idle", NEW code \in Outcomes,
         code \in Refusals \cup {"FAILED"} => j.charged = {}
  PROVE  /\ Answered(j, code) \in Jobs /\ JobOK(Answered(j, code), cells)
         /\ Answered(j, code).locked = {}
<1> DEFINE a == Answered(j, code)
<1>1. /\ a \in Jobs /\ a.pc = "respond" /\ a.outcome = code /\ a.locked = {}
      /\ a.updates = j.updates /\ a.charged = j.charged /\ a.request = j.request
      /\ a.now = j.now
  BY DEF Answered, Jobs, Steps
<1>2. JobOK(a, cells)
  BY <1>1 DEF JobOK, Early
<1> QED
  BY <1>1, <1>2

----------------------------------------------------------------------------
(* Steps of a loop that change no counter.                                  *)

(* A loop replaces its job and changes nothing else: the invariant survives *)
(* if the new job is in order and what it newly holds was free.             *)
LEMMA LocalStep ==
  ASSUME AccessInv, NEW l \in Loops, NEW j \in Jobs, JobOK(j, cells), Becomes(l, j),
         UNCHANGED grantVars, pending' \subseteq pending,
         \A k \in j.locked :
           \/ k \in job[l].locked /\ j.updates = job[l].updates
           \/ Free(l, j.updates[k].cell)
  PROVE  AccessInv'
<1>1. /\ job \in [Loops -> Jobs]
      /\ job'[l] = j /\ \A o \in Loops : o # l => job'[o] = job[o]
      /\ job' \in [Loops -> Jobs]
  BY DEF AccessInv, Becomes
<1>2. GrantsInv'
  BY DEF AccessInv, grantVars, GrantsInv, TypeOK, TaskInv, CellInv, MapInv, RuleOf
<1>3. ProfileInv'
  BY DEF AccessInv, grantVars, ProfileInv
<1>4. JobInv'
  <2>1. cells' = cells
    BY DEF grantVars
  <2> SUFFICES ASSUME NEW o \in Loops PROVE JobOK(job[o], cells)'
    BY DEF JobInv
  <2>2. JobOK(job'[o], cells)
    BY <1>1 DEF AccessInv, JobInv
  <2> QED
    BY <2>1, <2>2 DEF JobOK, Covered
<1>5. Apart'
  <2> SUFFICES ASSUME NEW a \in Loops, NEW b \in Loops, a # b,
                      NEW k \in job'[a].locked, NEW m \in job'[b].locked
               PROVE  job'[a].updates[k].cell # job'[b].updates[m].cell
    BY DEF Apart
  <2>1. \A o \in Loops : o # l =>
          \A n \in j.locked, p \in job[o].locked :
            j.updates[n].cell # job[o].updates[p].cell
    BY DEF Free, Holds, AccessInv, Apart
  <2> QED
    BY <1>1, <2>1 DEF AccessInv, Apart
<1> QED
  BY <1>1, <1>2, <1>3, <1>4, <1>5 DEF AccessInv

(* Returning a response.                                                    *)
LEMMA AnswerInv ==
  ASSUME AccessInv, NEW l \in Loops, job[l].pc # "idle",
         NEW code \in Outcomes, Answer(l, code),
         code \in Refusals \cup {"FAILED"} => job[l].charged = {},
         UNCHANGED <<grantVars, pending>>
  PROVE  AccessInv'
<1>1. job[l] \in Jobs /\ JobOK(job[l], cells)
  BY DEF AccessInv, JobInv
<1>2. /\ Answered(job[l], code) \in Jobs /\ JobOK(Answered(job[l], code), cells)
      /\ Answered(job[l], code).locked = {}
  BY <1>1, AnsweredOK
<1> QED
  BY <1>2, LocalStep DEF Answer

(* A job in the early steps has been charged nothing.                       *)
LEMMA EarlyJob ==
  ASSUME AccessInv, NEW l \in Loops, job[l].pc \in Early
  PROVE  job[l].charged = {} /\ job[l].pc # "idle"
BY DEF AccessInv, JobInv, JobOK, Early

LEMMA RuleForType ==
  ASSUME NEW p, IsProfile(p), NEW m, Permits(p, m)
  PROVE  RuleFor(p, m) \in Rules \cup {None} /\ p.quota \in Rules \cup {None}
BY DEF IsProfile, Permits, RuleFor

(* The choice of the rules.                                                 *)
LEMMA AuthorizeInv ==
  ASSUME AccessInv, NEW l \in Loops, Authorize(l)
  PROVE  AccessInv'
<1> DEFINE e == usage_profiles[job[l].request.client]
           p == e.content
           ar == RuleFor(p, job[l].request.method)
<1>1. /\ job[l] \in Jobs /\ JobOK(job[l], cells) /\ job[l].pc = "profile"
      /\ job[l].locked = {} /\ job[l].charged = {}
      /\ job[l].request \in Requests
  BY DEF AccessInv, JobInv, Authorize, JobOK, Early
<1>2. job[l].request.client \in Clients
  BY <1>1, RequestsAssumption
<1>3. ar \in Rules \cup {None} /\ p.quota \in Rules \cup {None}
  BY <1>2, RuleForType DEF Authorize, AccessInv, ProfileInv
<1>4. /\ Becomes(l, [job[l] EXCEPT !.pc = "clock", !.profile = e,
                                   !.access_rule = ar, !.quota_rule = p.quota])
      /\ UNCHANGED <<grantVars, pending>> /\ e \in GrantEvents
  BY <1>2 DEF Authorize, AccessInv, ProfileInv
<1>5. ASSUME NEW j \in Jobs, JobOK(j, cells), j.pc = "profile",
             NEW f \in GrantEvents,
             NEW a \in Rules \cup {None}, NEW q \in Rules \cup {None}
      PROVE  /\ [j EXCEPT !.pc = "clock", !.profile = f, !.access_rule = a,
                          !.quota_rule = q] \in Jobs
             /\ JobOK([j EXCEPT !.pc = "clock", !.profile = f, !.access_rule = a,
                                !.quota_rule = q], cells)
             /\ [j EXCEPT !.pc = "clock", !.profile = f, !.access_rule = a,
                          !.quota_rule = q].locked = {}
  <2> DEFINE n == [j EXCEPT !.pc = "clock", !.profile = f, !.access_rule = a,
                            !.quota_rule = q]
  <2>1. /\ n \in Jobs /\ n.pc = "clock" /\ n.request = j.request
        /\ n.locked = j.locked /\ n.updates = j.updates
        /\ n.charged = j.charged
    BY <1>5 DEF Jobs, Steps
  <2> HIDE DEF n
  <2>2. JobOK(n, cells) /\ n.locked = {}
    BY <1>5, <2>1 DEF JobOK, Early
  <2> QED
    BY <2>1, <2>2 DEF n
<1> QED
  BY <1>1, <1>3, <1>4, <1>5, LocalStep

(* A step that moves the program counter on, and at most reads the clock.   *)
Onward(p, q) == \/ p \in Early \ {"lock"} /\ q \in Early
                \/ p = "dispatch" /\ q = "execute"
                \/ p = "execute" /\ q = "refund"

LEMMA MovedOK ==
  ASSUME NEW j \in Jobs, JobOK(j, cells), NEW pc \in Steps, Onward(j.pc, pc),
         NEW now \in Times
  PROVE  /\ [j EXCEPT !.pc = pc, !.now = now] \in Jobs
         /\ JobOK([j EXCEPT !.pc = pc, !.now = now], cells)
         /\ [j EXCEPT !.pc = pc, !.now = now].locked = {}
         /\ [j EXCEPT !.pc = pc] \in Jobs
         /\ JobOK([j EXCEPT !.pc = pc], cells) /\ [j EXCEPT !.pc = pc].locked = {}
<1> DEFINE a == [j EXCEPT !.pc = pc, !.now = now]
           b == [j EXCEPT !.pc = pc]
<1>1. /\ a \in Jobs /\ a.pc = pc /\ a.request = j.request /\ a.locked = j.locked
      /\ a.updates = j.updates /\ a.charged = j.charged /\ a.outcome = j.outcome
  BY DEF Jobs
<1>2. /\ b \in Jobs /\ b.pc = pc /\ b.request = j.request /\ b.locked = j.locked
      /\ b.updates = j.updates /\ b.charged = j.charged /\ b.outcome = j.outcome
  BY DEF Jobs
<1> HIDE DEF a, b
<1>3. JobOK(a, cells) /\ a.locked = {}
  BY <1>1 DEF JobOK, Early, Onward
<1>4. JobOK(b, cells) /\ b.locked = {}
  BY <1>2 DEF JobOK, Early, Onward
<1> QED
  BY <1>1, <1>2, <1>3, <1>4 DEF a, b

(* A step that adds a counter of its kind to the updates.                   *)
LEMMA UpdatedOK ==
  ASSUME NEW j \in Jobs, JobOK(j, cells), j.pc \in {"access", "quota"},
         NEW pc \in {"quota", "lock"}, NEW kind \in Kinds,
         NEW cell \in DOMAIN cells, cell \in Nat,
         cells[cell].name = None <=> kind = "Quota",
         NEW rule \in Rules, NEW amount \in Amounts
  PROVE  LET u == WithUpdate(j, kind, cell, rule, amount) IN
         /\ [j EXCEPT !.pc = pc, !.updates = u] \in Jobs
         /\ JobOK([j EXCEPT !.pc = pc, !.updates = u], cells)
         /\ [j EXCEPT !.pc = pc, !.updates = u].locked = {}
<1> DEFINE u == WithUpdate(j, kind, cell, rule, amount)
           a == [j EXCEPT !.pc = pc, !.updates = u]
<1> DEFINE v == [cell |-> cell, rule |-> rule, amount |-> amount]
<1>a. /\ j.updates \in [DOMAIN j.updates -> Updates]
      /\ DOMAIN j.updates \subseteq Kinds
  BY UpdateMapsType DEF Jobs
<1>b. u = [k \in DOMAIN j.updates \cup {kind} |->
             IF k = kind THEN v ELSE j.updates[k]]
  BY DEF WithUpdate
<1>c. v \in Updates /\ v.cell = cell
  BY DEF Updates
<1> HIDE DEF v
<1>d. DOMAIN u \subseteq Kinds /\ u \in [DOMAIN u -> Updates]
  BY <1>a, <1>b, <1>c
<1>1. u \in UpdateMaps
  BY <1>d, UpdateMapsType
<1>e. /\ DOMAIN u = DOMAIN j.updates \cup {kind}
      /\ \A k \in DOMAIN u : u[k] = IF k = kind THEN v ELSE j.updates[k]
  BY <1>b
<1> HIDE DEF u
<1>2. /\ a \in Jobs /\ a.pc = pc /\ a.request = j.request /\ a.locked = j.locked
      /\ a.updates = u /\ a.charged = j.charged
  BY <1>1 DEF Jobs, Steps
<1> HIDE DEF a
<1>3. \A k \in DOMAIN a.updates :
        /\ a.updates[k].cell \in DOMAIN cells
        /\ cells[a.updates[k].cell].name = None <=> k = "Quota"
  BY <1>c, <1>e, <1>2 DEF JobOK
<1>4. JobOK(a, cells) /\ a.locked = {}
  BY <1>2, <1>3 DEF JobOK, Early
<1> QED
  BY <1>2, <1>4 DEF a, u

LEMMA ReadClockInv ==
  ASSUME AccessInv, NEW l \in Loops, ReadClock(l)
  PROVE  AccessInv'
<1>1. job[l] \in Jobs /\ JobOK(job[l], cells) /\ job[l].pc = "clock"
  BY DEF AccessInv, JobInv, ReadClock
<1>2. clock \in Times
  BY GrantBoundsAssumption, WidthAssumption DEF AccessInv, GrantsInv, TypeOK, Times
<1>3. "access" \in Steps /\ Onward("clock", "access")
  BY DEF Steps, Early, Onward
<1>4. /\ Becomes(l, [job[l] EXCEPT !.pc = "access", !.now = clock])
      /\ UNCHANGED <<grantVars, pending>>
  BY DEF ReadClock
<1>5. /\ [job[l] EXCEPT !.pc = "access", !.now = clock] \in Jobs
      /\ JobOK([job[l] EXCEPT !.pc = "access", !.now = clock], cells)
      /\ [job[l] EXCEPT !.pc = "access", !.now = clock].locked = {}
  BY <1>1, <1>2, <1>3, MovedOK
<1> QED
  BY <1>4, <1>5, LocalStep

LEMMA FetchAccessInv ==
  ASSUME AccessInv, NEW l \in Loops, FetchAccess(l)
  PROVE  AccessInv'
<1> DEFINE cell == access_rate[job[l].request.client][job[l].request.method]
<1>1. /\ job[l] \in Jobs /\ JobOK(job[l], cells) /\ job[l].pc = "access"
      /\ job[l].request \in Requests /\ job[l].now \in Times
      /\ job[l].access_rule \in Rules \cup {None}
      /\ UNCHANGED <<grantVars, pending>>
  BY DEF AccessInv, JobInv, FetchAccess, JobOK, Jobs
<1>2. /\ "quota" \in Steps /\ Onward("access", "quota")
      /\ "MISSING_STATE" \in Outcomes /\ "access" \in Early
  BY DEF Early, Steps, Outcomes, Refusals, Onward
<1>3. CASE job[l].access_rule = None
  <2>1. Becomes(l, [job[l] EXCEPT !.pc = "quota"])
    BY <1>3 DEF FetchAccess
  <2>2. /\ [job[l] EXCEPT !.pc = "quota"] \in Jobs
        /\ JobOK([job[l] EXCEPT !.pc = "quota"], cells)
        /\ [job[l] EXCEPT !.pc = "quota"].locked = {}
    BY <1>1, <1>2, MovedOK
  <2> QED
    BY <1>1, <2>1, <2>2, LocalStep
<1>4. CASE job[l].access_rule # None /\ cell = None
  BY <1>1, <1>2, <1>4, AnswerInv, EarlyJob DEF FetchAccess
<1>5. CASE job[l].access_rule # None /\ cell # None
  <2> DEFINE u == WithUpdate(job[l], "Method", cell, job[l].access_rule, AccessCost)
             j == [job[l] EXCEPT !.pc = "quota", !.updates = u]
  <2>1. Becomes(l, j)
    BY <1>5 DEF FetchAccess
  <2>2. job[l].request.client \in Clients /\ job[l].request.method \in RuleNames
    BY <1>1, RequestsAssumption DEF RuleNames
  <2>3. cell \in DOMAIN cells /\ cells[cell].name \in RuleNames
    BY <1>5, <2>2 DEF AccessInv, GrantsInv, MapInv
  <2>4. cell \in Nat /\ cells[cell].name # None
    BY <2>3, NoneAssumption DEF AccessInv, GrantsInv, TypeOK
  <2>5. j \in Jobs /\ JobOK(j, cells) /\ j.locked = {}
    BY <1>1, <1>5, <2>3, <2>4, UpdatedOK, RequestsAssumption, Zenon DEF Kinds
  <2> QED
    BY <1>1, <2>1, <2>5, LocalStep
<1> QED
  BY <1>3, <1>4, <1>5

LEMMA FetchQuotaInv ==
  ASSUME AccessInv, NEW l \in Loops, FetchQuota(l)
  PROVE  AccessInv'
<1> DEFINE cell == quota[job[l].request.client]
           free == job[l].quota_rule = None \/ job[l].request.amount = 0
<1>1. /\ job[l] \in Jobs /\ JobOK(job[l], cells) /\ job[l].pc = "quota"
      /\ job[l].request \in Requests /\ job[l].now \in Times
      /\ job[l].quota_rule \in Rules \cup {None}
      /\ UNCHANGED <<grantVars, pending>>
  BY DEF AccessInv, JobInv, FetchQuota, JobOK, Jobs
<1>2. /\ "lock" \in Steps /\ Onward("quota", "lock")
      /\ "MISSING_STATE" \in Outcomes /\ "quota" \in Early
  BY DEF Early, Steps, Outcomes, Refusals, Onward
<1>3. CASE free
  <2>1. Becomes(l, [job[l] EXCEPT !.pc = "lock"])
    BY <1>3 DEF FetchQuota
  <2>2. /\ [job[l] EXCEPT !.pc = "lock"] \in Jobs
        /\ JobOK([job[l] EXCEPT !.pc = "lock"], cells)
        /\ [job[l] EXCEPT !.pc = "lock"].locked = {}
    BY <1>1, <1>2, MovedOK
  <2> QED
    BY <1>1, <2>1, <2>2, LocalStep
<1>4. CASE ~free /\ cell = None
  BY <1>1, <1>2, <1>4, AnswerInv, EarlyJob DEF FetchQuota
<1>5. CASE ~free /\ cell # None
  <2> DEFINE u == WithUpdate(job[l], "Quota", cell, job[l].quota_rule,
                             job[l].request.amount)
             j == [job[l] EXCEPT !.pc = "lock", !.updates = u]
  <2>1. Becomes(l, j)
    BY <1>5 DEF FetchQuota
  <2>2. job[l].request.client \in Clients /\ job[l].request.amount \in Amounts
    BY <1>1, RequestsAssumption
  <2>3. cell \in DOMAIN cells /\ cells[cell].name = None
    BY <1>5, <2>2 DEF AccessInv, GrantsInv, MapInv
  <2>4. cell \in Nat
    BY <2>3 DEF AccessInv, GrantsInv, TypeOK
  <2>5. j \in Jobs /\ JobOK(j, cells) /\ j.locked = {}
    BY <1>1, <1>5, <2>2, <2>3, <2>4, UpdatedOK DEF Kinds
  <2> QED
    BY <1>1, <2>1, <2>5, LocalStep
<1> QED
  BY <1>3, <1>4, <1>5

(* Taking a guard: the method's first, and only when no other loop has it.  *)
LEMMA LockInv ==
  ASSUME AccessInv, NEW l \in Loops, NEW k \in Kinds, Lock(l, k)
  PROVE  AccessInv'
<1>1. /\ job[l] \in Jobs /\ JobOK(job[l], cells) /\ job[l].pc = "lock"
      /\ k \in DOMAIN job[l].updates
      /\ k = "Quota" /\ "Method" \in DOMAIN job[l].updates =>
           "Method" \in job[l].locked
      /\ Free(l, job[l].updates[k].cell)
      /\ Becomes(l, [job[l] EXCEPT !.locked = @ \cup {k}])
      /\ UNCHANGED <<grantVars, pending>>
  BY DEF AccessInv, JobInv, Lock, NextToLock, Unlocked, Before
<1>2. ASSUME NEW j \in Jobs, JobOK(j, cells), j.pc = "lock", k \in DOMAIN j.updates,
             k = "Quota" /\ "Method" \in DOMAIN j.updates => "Method" \in j.locked
      PROVE  /\ [j EXCEPT !.locked = @ \cup {k}] \in Jobs
             /\ JobOK([j EXCEPT !.locked = @ \cup {k}], cells)
             /\ [j EXCEPT !.locked = @ \cup {k}].locked = j.locked \cup {k}
             /\ [j EXCEPT !.locked = @ \cup {k}].updates = j.updates
  <2> DEFINE a == [j EXCEPT !.locked = @ \cup {k}]
  <2>1. /\ a \in Jobs /\ a.pc = "lock" /\ a.request = j.request
        /\ a.locked = j.locked \cup {k} /\ a.updates = j.updates
        /\ a.charged = j.charged
    BY <1>2 DEF Jobs
  <2> HIDE DEF a
  <2>2. JobOK(a, cells)
    BY <1>2, <2>1 DEF JobOK, Early
  <2> QED
    BY <2>1, <2>2 DEF a
<1>3. /\ [job[l] EXCEPT !.locked = @ \cup {k}] \in Jobs
      /\ JobOK([job[l] EXCEPT !.locked = @ \cup {k}], cells)
      /\ [job[l] EXCEPT !.locked = @ \cup {k}].locked = job[l].locked \cup {k}
      /\ [job[l] EXCEPT !.locked = @ \cup {k}].updates = job[l].updates
  BY <1>1, <1>2
<1> QED
  BY <1>1, <1>3, LocalStep

(* With every guard held, the verdicts are those of the debits to come.     *)
LEMMA VerifyInv ==
  ASSUME AccessInv, NEW l \in Loops, Verify(l)
  PROVE  AccessInv'
<1>1. /\ job[l] \in Jobs /\ JobOK(job[l], cells) /\ job[l].pc = "lock"
      /\ job[l].locked = DOMAIN job[l].updates
      /\ UNCHANGED <<grantVars, pending>>
  BY DEF AccessInv, JobInv, Verify, Unlocked, JobOK
<1>2. CASE AllCovered(l)
  <2>1. \A k \in DOMAIN job[l].updates : Covered(job[l], k, cells)
    BY <1>2 DEF AllCovered, Verdict, Covered
  <2>2. ASSUME NEW j \in Jobs, JobOK(j, cells), j.locked = DOMAIN j.updates,
               j.pc = "lock", \A k \in DOMAIN j.updates : Covered(j, k, cells)
        PROVE  /\ [j EXCEPT !.pc = "debit"] \in Jobs
               /\ JobOK([j EXCEPT !.pc = "debit"], cells)
               /\ [j EXCEPT !.pc = "debit"].locked = j.locked
               /\ [j EXCEPT !.pc = "debit"].updates = j.updates
    <3> DEFINE a == [j EXCEPT !.pc = "debit"]
    <3>1. /\ a \in Jobs /\ a.pc = "debit" /\ a.request = j.request
          /\ a.locked = j.locked /\ a.updates = j.updates
          /\ a.charged = j.charged /\ a.now = j.now
      BY <2>2 DEF Jobs, Steps
    <3> HIDE DEF a
    <3>2. \A k \in DOMAIN a.updates : Covered(a, k, cells)
      BY <2>2, <3>1 DEF Covered
    <3>3. JobOK(a, cells)
      BY <2>2, <3>1, <3>2 DEF JobOK, Early
    <3> QED
      BY <3>1, <3>3 DEF a
  <2>3. /\ [job[l] EXCEPT !.pc = "debit"] \in Jobs
        /\ JobOK([job[l] EXCEPT !.pc = "debit"], cells)
        /\ [job[l] EXCEPT !.pc = "debit"].locked = job[l].locked
        /\ [job[l] EXCEPT !.pc = "debit"].updates = job[l].updates
    BY <1>1, <2>1, <2>2
  <2>4. Becomes(l, [job[l] EXCEPT !.pc = "debit"])
    BY <1>2 DEF Verify
  <2> QED
    BY <1>1, <2>3, <2>4, LocalStep
<1>3. CASE ~AllCovered(l)
  <2>1. Answer(l, "OVER_LIMIT")
    BY <1>3 DEF Verify
  <2>2. "OVER_LIMIT" \in Outcomes /\ "lock" \in Early
    BY DEF Outcomes, Refusals, Early
  <2> QED
    BY <1>1, <2>1, <2>2, AnswerInv, EarlyJob
<1> QED
  BY <1>2, <1>3

(* The debits are done: the guards are dropped.                             *)
LEMMA AdmitInv ==
  ASSUME AccessInv, NEW l \in Loops, Admit(l)
  PROVE  AccessInv'
<1>1. /\ job[l] \in Jobs /\ JobOK(job[l], cells) /\ job[l].pc = "debit"
      /\ job[l].charged = DOMAIN job[l].updates
      /\ Becomes(l, [job[l] EXCEPT !.pc = "dispatch", !.locked = {}])
      /\ UNCHANGED <<grantVars, pending>>
  BY DEF AccessInv, JobInv, Admit, Undebited, JobOK
<1>2. ASSUME NEW j \in Jobs, JobOK(j, cells), j.pc = "debit",
             j.charged = DOMAIN j.updates
      PROVE  /\ [j EXCEPT !.pc = "dispatch", !.locked = {}] \in Jobs
             /\ JobOK([j EXCEPT !.pc = "dispatch", !.locked = {}], cells)
             /\ [j EXCEPT !.pc = "dispatch", !.locked = {}].locked = {}
  <2> DEFINE a == [j EXCEPT !.pc = "dispatch", !.locked = {}]
  <2>1. /\ a \in Jobs /\ a.pc = "dispatch" /\ a.request = j.request
        /\ a.locked = {} /\ a.updates = j.updates /\ a.charged = j.charged
    BY <1>2 DEF Jobs, Steps
  <2> HIDE DEF a
  <2>2. JobOK(a, cells)
    BY <1>2, <2>1 DEF JobOK, Early
  <2> QED
    BY <2>1, <2>2 DEF a
<1>3. /\ [job[l] EXCEPT !.pc = "dispatch", !.locked = {}] \in Jobs
      /\ JobOK([job[l] EXCEPT !.pc = "dispatch", !.locked = {}], cells)
      /\ [job[l] EXCEPT !.pc = "dispatch", !.locked = {}].locked = {}
  BY <1>1, <1>2
<1> QED
  BY <1>1, <1>3, LocalStep

(* Execution begins, or fails; whichever, nothing is charged.               *)
LEMMA ExecuteInv ==
  ASSUME AccessInv, NEW l \in Loops, Start(l) \/ Fail(l)
  PROVE  AccessInv'
<1>1. job[l] \in Jobs /\ JobOK(job[l], cells) /\ job[l].now \in Times
  BY DEF AccessInv, JobInv, Jobs
<1>2. CASE Start(l)
  <2>1. /\ job[l].pc = "dispatch" /\ UNCHANGED <<grantVars, pending>>
        /\ Becomes(l, [job[l] EXCEPT !.pc = "execute"])
    BY <1>2 DEF Start
  <2>2. "execute" \in Steps /\ Onward("dispatch", "execute")
    BY DEF Steps, Onward
  <2>3. /\ [job[l] EXCEPT !.pc = "execute"] \in Jobs
        /\ JobOK([job[l] EXCEPT !.pc = "execute"], cells)
        /\ [job[l] EXCEPT !.pc = "execute"].locked = {}
    BY <1>1, <2>1, <2>2, MovedOK
  <2> QED
    BY <2>1, <2>3, LocalStep
<1>3. CASE Fail(l)
  <2>1. /\ job[l].pc = "execute" /\ UNCHANGED <<grantVars, pending>>
        /\ Becomes(l, [job[l] EXCEPT !.pc = "refund"])
    BY <1>3 DEF Fail
  <2>2. "refund" \in Steps /\ Onward("execute", "refund")
    BY DEF Steps, Onward
  <2>3. /\ [job[l] EXCEPT !.pc = "refund"] \in Jobs
        /\ JobOK([job[l] EXCEPT !.pc = "refund"], cells)
        /\ [job[l] EXCEPT !.pc = "refund"].locked = {}
    BY <1>1, <2>1, <2>2, MovedOK
  <2> QED
    BY <2>1, <2>3, LocalStep
<1> QED
  BY <1>2, <1>3

(* The steps that answer.                                                   *)
LEMMA RefuseInv ==
  ASSUME AccessInv, NEW l \in Loops, Unauthorized(l) \/ Restricted(l)
  PROVE  AccessInv'
<1>1. /\ "UNAUTHORIZED" \in Outcomes /\ "RESTRICTED" \in Outcomes
      /\ "profile" \in Early
  BY DEF Outcomes, Refusals, Early
<1> QED
  BY <1>1, AnswerInv, EarlyJob DEF Unauthorized, Restricted

LEMMA FinishInv ==
  ASSUME AccessInv, NEW l \in Loops,
         AnswerUnexecuted(l) \/ Succeed(l) \/ Refunded(l)
  PROVE  AccessInv'
<1>1. /\ "OK" \in Outcomes /\ "INVALID" \in Outcomes /\ "FAILED" \in Outcomes
      /\ "NOT_IMPLEMENTED" \in Outcomes
      /\ {"OK", "INVALID", "NOT_IMPLEMENTED"} \cap (Refusals \cup {"FAILED"}) = {}
  BY DEF Outcomes, Refusals
<1>2. CASE AnswerUnexecuted(l)
  <2>1. /\ job[l].pc = "dispatch" /\ UNCHANGED <<grantVars, pending>>
        /\ \E code \in {"OK", "INVALID", "NOT_IMPLEMENTED"} : Answer(l, code)
    BY <1>2 DEF AnswerUnexecuted, UnexecutedCode
  <2> QED
    BY <1>1, <2>1, AnswerInv
<1>3. CASE Succeed(l)
  BY <1>1, <1>3, AnswerInv DEF Succeed
<1>4. CASE Refunded(l)
  BY <1>1, <1>4, AnswerInv DEF Refunded
<1> QED
  BY <1>2, <1>3, <1>4

(* A request begins and ends with no counter in hand.                       *)
LEMMA ReceiveInv ==
  ASSUME AccessInv, NEW l \in Loops, NEW r \in pending, Receive(l, r)
  PROVE  AccessInv'
<1>1. r \in Requests
  BY DEF AccessInv
<1>2. /\ [NoJob EXCEPT !.pc = "profile", !.request = r] \in Jobs
      /\ JobOK([NoJob EXCEPT !.pc = "profile", !.request = r], cells)
      /\ [NoJob EXCEPT !.pc = "profile", !.request = r].locked = {}
  BY <1>1, NoJobType, NoJobOK, ReceivedOK
<1>3. /\ Becomes(l, [NoJob EXCEPT !.pc = "profile", !.request = r])
      /\ UNCHANGED grantVars /\ pending' \subseteq pending
  BY DEF Receive
<1> QED
  BY <1>2, <1>3, LocalStep

LEMMA RespondInv ==
  ASSUME AccessInv, NEW l \in Loops, Respond(l)
  PROVE  AccessInv'
<1>1. Becomes(l, NoJob) /\ UNCHANGED <<grantVars, pending>>
  BY DEF Respond
<1> QED
  BY <1>1, NoJobType, NoJobOK, LocalStep

----------------------------------------------------------------------------
(* Steps that change a counter.                                             *)

(* What Charge does to the sequence of cells.                               *)
LEMMA ChargedCells ==
  ASSUME cells \in Seq(Cells), NEW i \in DOMAIN cells, NEW s \in Counters,
         NEW n \in Int, Charge(i, s, n)
  PROVE  /\ cells' \in Seq(Cells) /\ DOMAIN cells' = DOMAIN cells
         /\ Len(cells') = Len(cells)
         /\ \A k \in DOMAIN cells : /\ cells'[k].name = cells[k].name
                                    /\ cells'[k].event = cells[k].event
                                    /\ cells'[k].client = cells[k].client
                                    /\ k # i => cells'[k] = cells[k]
         /\ cells'[i].state = s /\ cells'[i].spent = cells[i].spent + n
<1> DEFINE d == [state |-> s, event |-> cells[i].event, client |-> cells[i].client,
                 name |-> cells[i].name, spent |-> cells[i].spent + n]
<1>1. cells[i] \in Cells
  OBVIOUS
<1>2. d \in Cells
  BY <1>1 DEF Cells
<1>3. cells' = [cells EXCEPT ![i] = d]
  BY DEF Charge
<1>4. /\ d.name = cells[i].name /\ d.event = cells[i].event
      /\ d.client = cells[i].client /\ d.state = s /\ d.spent = cells[i].spent + n
  OBVIOUS
<1> HIDE DEF d
<1> QED
  BY <1>2, <1>3, <1>4

(* A loop charges or refunds a counter that no other loop holds: the        *)
(* verdicts of the others stand.                                            *)
LEMMA ChargeStep ==
  ASSUME AccessInv, NEW l \in Loops, NEW i \in DOMAIN cells,
         NEW s \in Counters, NEW n \in Int, Charge(i, s, n), Free(l, i),
         NEW j \in Jobs, Becomes(l, j), JobOK(j, cells'),
         j.locked \subseteq job[l].locked, j.updates = job[l].updates,
         UNCHANGED <<clock, published, inbox, task, applied, usage_profiles,
                     access_rate, quota, restarts, pending>>
  PROVE  AccessInv'
<1>1. /\ job \in [Loops -> Jobs] /\ job' \in [Loops -> Jobs] /\ job'[l] = j
      /\ \A o \in Loops : o # l => job'[o] = job[o]
  BY DEF AccessInv, Becomes
<1>2. /\ cells' \in Seq(Cells) /\ DOMAIN cells' = DOMAIN cells
      /\ \A k \in DOMAIN cells : /\ cells'[k].name = cells[k].name
                                 /\ cells'[k].event = cells[k].event
                                 /\ k # i => cells'[k] = cells[k]
  BY ChargedCells DEF AccessInv, GrantsInv, TypeOK
<1>3. GrantsInv'
  <2>1. TypeOK'
    BY <1>2 DEF AccessInv, GrantsInv, TypeOK
  <2>2. TaskInv'
    BY DEF AccessInv, GrantsInv, TaskInv
  <2>3. CellInv'
    BY <1>2 DEF AccessInv, GrantsInv, CellInv, RuleOf
  <2>4. MapInv'
    BY <1>2 DEF AccessInv, GrantsInv, MapInv
  <2> QED
    BY <2>1, <2>2, <2>3, <2>4 DEF GrantsInv
<1>4. ProfileInv' /\ pending' \in SUBSET Requests
  BY DEF AccessInv, ProfileInv
<1>5. JobInv'
  <2> SUFFICES ASSUME NEW o \in Loops PROVE JobOK(job[o], cells)'
    BY DEF JobInv
  <2>1. CASE o = l
    BY <1>1, <2>1 DEF JobOK, Covered
  <2>2. CASE o # l
    <3>1. job'[o] = job[o] /\ JobOK(job[o], cells)
      BY <1>1, <2>2 DEF AccessInv, JobInv
    <3>2. \A k \in job[o].locked : job[o].updates[k].cell # i
      BY <2>2 DEF Free, Holds
    <3>3. ASSUME job[o].pc = "debit", NEW k \in DOMAIN job[o].updates \ job[o].charged
          PROVE  Covered(job[o], k, cells)'
      <4>1. Covered(job[o], k, cells) /\ k \in job[o].locked
        BY <3>1, <3>3 DEF JobOK
      <4>2. job[o].updates[k].cell # i /\ job[o].updates[k].cell \in DOMAIN cells
        BY <3>1, <3>2, <4>1 DEF JobOK
      <4> QED
        BY <1>2, <3>1, <4>1, <4>2 DEF Covered
    <3>4. \A k \in DOMAIN job[o].updates :
            /\ job[o].updates[k].cell \in DOMAIN cells'
            /\ cells'[job[o].updates[k].cell].name = None <=> k = "Quota"
      BY <1>2, <3>1 DEF JobOK
    <3> QED
      BY <3>1, <3>3, <3>4 DEF JobOK
  <2> QED
    BY <2>1, <2>2
<1>6. Apart'
  <2> SUFFICES ASSUME NEW a \in Loops, NEW b \in Loops, a # b,
                      NEW k \in job'[a].locked, NEW m \in job'[b].locked
               PROVE  job'[a].updates[k].cell # job'[b].updates[m].cell
    BY DEF Apart
  <2> QED
    BY <1>1 DEF AccessInv, Apart
<1> QED
  BY <1>1, <1>3, <1>4, <1>5, <1>6 DEF AccessInv

(* A debit finds the balance that verification found.                       *)
LEMMA DebitInv ==
  ASSUME AccessInv, NEW l \in Loops, NEW k \in Kinds, Debit(l, k)
  PROVE  AccessInv' /\ Verdict(l, k) = "Ok"
<1> DEFINE u == job[l].updates[k]
           s == Withdraw(cells[u.cell].state, u.amount, job[l].now, u.rule)
<1>1. /\ job[l] \in Jobs /\ JobOK(job[l], cells) /\ job[l].pc = "debit"
      /\ job[l].locked = DOMAIN job[l].updates
      /\ k \in DOMAIN job[l].updates \ job[l].charged
  BY DEF AccessInv, JobInv, Debit, Undebited, JobOK
<1>2. Verdict(l, k) = "Ok"
  BY <1>1 DEF JobOK, Verdict, Covered
<1>3. /\ Becomes(l, [job[l] EXCEPT !.charged = @ \cup {k}])
      /\ Charge(u.cell, s, u.amount)
      /\ UNCHANGED <<clock, published, inbox, task, applied, usage_profiles,
                     access_rate, quota, restarts, pending>>
  BY <1>2 DEF Debit
<1>4. /\ u.cell \in DOMAIN cells /\ u.rule \in Rules /\ u.amount \in Amounts
      /\ job[l].now \in Times
  BY <1>1, JobFields DEF JobOK
<1>5. cells \in Seq(Cells) /\ cells[u.cell].state \in Counters
  <2>1. cells \in Seq(Cells) /\ cells[u.cell] \in Cells
    BY <1>4 DEF AccessInv, GrantsInv, TypeOK
  <2> QED
    BY <2>1 DEF Cells
<1>6. s \in Counters /\ u.amount \in Int
  BY <1>4, <1>5, WithdrawType DEF Amounts
<1>7. Free(l, u.cell)
  BY <1>1 DEF AccessInv, Apart, Free, Holds
<1>8. /\ DOMAIN cells' = DOMAIN cells
      /\ \A i \in DOMAIN cells : /\ cells'[i].name = cells[i].name
                                 /\ i # u.cell => cells'[i] = cells[i]
  BY <1>3, <1>4, <1>5, <1>6, ChargedCells
<1>9. \A m \in DOMAIN job[l].updates : m # k => job[l].updates[m].cell # u.cell
  <2>1. DOMAIN job[l].updates \subseteq Kinds
    BY <1>1, JobFields
  <2> QED
    BY <1>1, <2>1 DEF JobOK, Kinds
<1>10. \A m \in DOMAIN job[l].updates \ (job[l].charged \cup {k}) :
         Covered(job[l], m, cells) /\ cells'[job[l].updates[m].cell]
                                 = cells[job[l].updates[m].cell]
  BY <1>1, <1>8, <1>9 DEF JobOK
<1> HIDE DEF u, s
<1>11. ASSUME NEW j \in Jobs, JobOK(j, cells), j.pc = "debit", k \in DOMAIN j.updates,
              \A m \in DOMAIN j.updates \ (j.charged \cup {k}) :
                Covered(j, m, cells) /\ cells'[j.updates[m].cell]
                                    = cells[j.updates[m].cell]
       PROVE  /\ [j EXCEPT !.charged = @ \cup {k}] \in Jobs
              /\ JobOK([j EXCEPT !.charged = @ \cup {k}], cells')
              /\ [j EXCEPT !.charged = @ \cup {k}].locked = j.locked
              /\ [j EXCEPT !.charged = @ \cup {k}].updates = j.updates
  <2> DEFINE a == [j EXCEPT !.charged = @ \cup {k}]
  <2>1. /\ a \in Jobs /\ a.pc = "debit" /\ a.request = j.request
        /\ a.locked = j.locked /\ a.updates = j.updates
        /\ a.charged = j.charged \cup {k} /\ a.now = j.now
    BY <1>11 DEF Jobs
  <2> HIDE DEF a
  <2>2. \A m \in DOMAIN a.updates :
          /\ a.updates[m].cell \in DOMAIN cells'
          /\ cells'[a.updates[m].cell].name = None <=> m = "Quota"
    BY <1>8, <1>11, <2>1 DEF JobOK
  <2>3. \A m \in DOMAIN a.updates \ a.charged :
          CheckWithdraw(cells'[a.updates[m].cell].state, a.updates[m].amount,
                        a.now, a.updates[m].rule) = "Ok"
    BY <1>11, <2>1 DEF Covered
  <2>4. JobOK(a, cells')
    BY <1>11, <2>1, <2>2, <2>3 DEF JobOK, Early, Covered
  <2> QED
    BY <2>1, <2>4 DEF a
<1> DEFINE n == [job[l] EXCEPT !.charged = @ \cup {k}]
<1>12. n \in Jobs /\ JobOK(n, cells') /\ n.locked = job[l].locked /\ n.updates = job[l].updates
  BY <1>1, <1>10, <1>11
<1> HIDE DEF n
<1>13. Becomes(l, n)
  BY <1>3 DEF n
<1> QED
  BY <1>2, <1>3, <1>4, <1>6, <1>7, <1>12, <1>13, ChargeStep

(* A refund finds the counter free, and lets no guard go.                   *)
LEMMA RefundInv ==
  ASSUME AccessInv, NEW l \in Loops, NEW k \in Kinds, RefundUpdate(l, k)
  PROVE  AccessInv'
<1> DEFINE u == job[l].updates[k]
           s == Refund(cells[u.cell].state, u.amount, u.rule)
<1>1. /\ job[l] \in Jobs /\ JobOK(job[l], cells) /\ job[l].pc = "refund"
      /\ k \in job[l].charged /\ k \in DOMAIN job[l].updates
  BY DEF AccessInv, JobInv, RefundUpdate, JobOK
<1>2. /\ Becomes(l, [job[l] EXCEPT !.charged = @ \ {k}])
      /\ Charge(u.cell, s, -u.amount) /\ Free(l, u.cell)
      /\ UNCHANGED <<clock, published, inbox, task, applied, usage_profiles,
                     access_rate, quota, restarts, pending>>
  BY DEF RefundUpdate
<1>3. u.cell \in DOMAIN cells /\ u.rule \in Rules /\ u.amount \in Amounts
  BY <1>1, JobFields DEF JobOK
<1>4. cells \in Seq(Cells) /\ cells[u.cell].state \in Counters
  <2>1. cells \in Seq(Cells) /\ cells[u.cell] \in Cells
    BY <1>3 DEF AccessInv, GrantsInv, TypeOK
  <2> QED
    BY <2>1 DEF Cells
<1>5. s \in Counters
  BY <1>3, <1>4, RefundType
<1>6. -u.amount \in Int
  BY <1>3, WidthAssumption DEF Amounts
<1>7. /\ DOMAIN cells' = DOMAIN cells
      /\ \A i \in DOMAIN cells : cells'[i].name = cells[i].name
  BY <1>2, <1>3, <1>4, <1>5, <1>6, ChargedCells
<1> HIDE DEF u, s
<1>8. ASSUME NEW j \in Jobs, JobOK(j, cells), j.pc = "refund"
      PROVE  /\ [j EXCEPT !.charged = @ \ {k}] \in Jobs
             /\ JobOK([j EXCEPT !.charged = @ \ {k}], cells')
             /\ [j EXCEPT !.charged = @ \ {k}].locked = j.locked
             /\ [j EXCEPT !.charged = @ \ {k}].updates = j.updates
  <2> DEFINE a == [j EXCEPT !.charged = @ \ {k}]
  <2>1. /\ a \in Jobs /\ a.pc = "refund" /\ a.request = j.request
        /\ a.locked = j.locked /\ a.updates = j.updates
        /\ a.charged = j.charged \ {k}
    BY <1>8 DEF Jobs
  <2> HIDE DEF a
  <2>2. \A m \in DOMAIN a.updates :
          /\ a.updates[m].cell \in DOMAIN cells'
          /\ cells'[a.updates[m].cell].name = None <=> m = "Quota"
    BY <1>7, <1>8, <2>1 DEF JobOK
  <2>3. JobOK(a, cells')
    BY <1>8, <2>1, <2>2 DEF JobOK, Early
  <2> QED
    BY <2>1, <2>3 DEF a
<1> DEFINE n == [job[l] EXCEPT !.charged = @ \ {k}]
<1>9. /\ n \in Jobs /\ JobOK(n, cells') /\ n.locked = job[l].locked
      /\ n.updates = job[l].updates
  BY <1>1, <1>8
<1> HIDE DEF n
<1>10. Becomes(l, n)
  BY <1>2 DEF n
<1> QED
  BY <1>2, <1>3, <1>5, <1>6, <1>9, <1>10, ChargeStep

----------------------------------------------------------------------------
(* The grants, the environment and the restart.                             *)

(* What is stored by an upsert is the grant being applied.                  *)
LEMMA ApplyProfile ==
  ASSUME GrantsInv, ProfileInv, NEW t \in Tasks, Apply(t)
  PROVE  ProfileInv'
<1>1. CASE UpsertProfile(t)
  <2>1. /\ usage_profiles' = [usage_profiles EXCEPT ![task[t].event.target] =
                                task[t].event]
        /\ usage_profiles \in [Clients -> GrantEvents \cup {None}]
        /\ task[t].event \in GrantEvents /\ IsProfile(task[t].event.content)
    BY <1>1 DEF UpsertProfile, GrantsInv, TypeOK, TaskInv
  <2> QED
    BY <2>1 DEF ProfileInv
<1>2. CASE ~UpsertProfile(t)
  <2>1. usage_profiles' = usage_profiles
    BY <1>2 DEF Apply, StartGrant, Skip, AcceptUnparseable, Accept, Upsert,
       ClearAccess, ClearQuota, StampCounters, InitMethod, InitQuota, storeVars
  <2> QED
    BY <2>1 DEF ProfileInv
<1> QED
  BY <1>1, <1>2

(* A grant adds counters and takes none from the requests that use them.    *)
LEMMA ApplyGrantInv ==
  ASSUME AccessInv, NEW t \in Tasks, ApplyGrant(t)
  PROVE  AccessInv'
<1>1. GrantsInv' /\ CellsGrow /\ ProfileInv'
  BY ApplyInv, ApplyProfile DEF ApplyGrant, AccessInv
<1>2. pending' = pending /\ job' = job
  BY DEF ApplyGrant
<1>3. \A i \in DOMAIN cells : i \in DOMAIN cells' /\ cells'[i] = cells[i]
  BY <1>1 DEF CellsGrow, AccessInv, GrantsInv, TypeOK
<1>4. JobInv'
  <2> SUFFICES ASSUME NEW o \in Loops PROVE JobOK(job[o], cells')
    BY <1>2 DEF JobInv
  <2>1. JobOK(job[o], cells)
    BY DEF AccessInv, JobInv
  <2> QED
    BY <1>3, <2>1 DEF JobOK, Covered
<1>5. Apart'
  BY <1>2 DEF AccessInv, Apart
<1> QED
  BY <1>1, <1>2, <1>4, <1>5 DEF AccessInv

LEMMA AccessInitInv == Init => AccessInv
<1> SUFFICES ASSUME Init PROVE AccessInv
  OBVIOUS
<1>1. GrantsInv
  BY GrantsInitInv DEF Init
<1>2. ProfileInv
  BY DEF Init, GrantsInit, NoGrant, ProfileInv
<1>3. job \in [Loops -> Jobs] /\ pending \in SUBSET Requests
  BY NoJobType DEF Init
<1>4. \A l \in Loops : job[l] = NoJob
  BY DEF Init
<1>5. JobInv
  BY <1>4 DEF JobInv, JobOK, NoJob, NoUpdates, Early
<1>6. Apart
  BY <1>4, NoJobOK DEF Apart
<1> QED
  BY <1>1, <1>2, <1>3, <1>5, <1>6 DEF AccessInv

LEMMA RestartServiceInv == AccessInv /\ RestartService => AccessInv'
<1> SUFFICES ASSUME AccessInv, RestartService PROVE AccessInv'
  OBVIOUS
<1>1. GrantsInv'
  BY RestartInv DEF AccessInv, RestartService
<1>2. ProfileInv'
  BY DEF RestartService, Restart, NoGrant, ProfileInv
<1>3. job' \in [Loops -> Jobs] /\ pending' \in SUBSET Requests
  BY NoJobType DEF RestartService, AccessInv
<1>4. \A l \in Loops : job'[l] = NoJob
  BY DEF RestartService
<1>5. JobInv'
  BY <1>4 DEF JobInv, JobOK, NoJob, NoUpdates, Early
<1>6. Apart'
  BY <1>4, NoJobOK DEF Apart
<1> QED
  BY <1>1, <1>2, <1>3, <1>5, <1>6 DEF AccessInv

LEMMA AccessEnvironmentInv == AccessInv /\ Environment => AccessInv'
<1> SUFFICES ASSUME AccessInv, Environment PROVE AccessInv'
  OBVIOUS
<1>1. GrantsInv' /\ cells' = cells
  BY EnvironmentInv DEF AccessInv, Environment
<1>2. usage_profiles' = usage_profiles
  BY DEF Environment, Tick, Relay, Publish, Deliver, Poll, storeVars
<1>3. ProfileInv' /\ pending' \in SUBSET Requests /\ job' = job
  BY <1>2 DEF AccessInv, ProfileInv, Environment
<1>4. JobInv' /\ Apart'
  BY <1>1, <1>3 DEF AccessInv, JobInv, JobOK, Covered, Apart
<1> QED
  BY <1>1, <1>3, <1>4 DEF AccessInv

----------------------------------------------------------------------------

LEMMA HandleInv ==
  ASSUME AccessInv, NEW l \in Loops, Handle(l)
  PROVE  AccessInv'
<1>1. ASSUME NEW k \in Kinds, Lock(l, k) \/ Debit(l, k) \/ RefundUpdate(l, k)
      PROVE  AccessInv'
  BY <1>1, LockInv, DebitInv, RefundInv
<1>2. CASE Unauthorized(l) \/ Restricted(l)
  BY <1>2, RefuseInv
<1>3. CASE Authorize(l) \/ ReadClock(l) \/ FetchAccess(l) \/ FetchQuota(l)
  BY <1>3, AuthorizeInv, ReadClockInv, FetchAccessInv, FetchQuotaInv
<1>4. CASE Verify(l) \/ Admit(l) \/ Start(l) \/ Fail(l)
  BY <1>4, VerifyInv, AdmitInv, ExecuteInv
<1>5. CASE AnswerUnexecuted(l) \/ Succeed(l) \/ Refunded(l) \/ Respond(l)
  BY <1>5, FinishInv, RespondInv
<1> QED
  BY <1>1, <1>2, <1>3, <1>4, <1>5 DEF Handle

LEMMA AccessStep == AccessInv /\ [Next]_vars => AccessInv'
<1> SUFFICES ASSUME AccessInv, [Next]_vars PROVE AccessInv'
  OBVIOUS
<1>1. CASE Environment
  BY <1>1, AccessEnvironmentInv
<1>2. CASE RestartService
  BY <1>2, RestartServiceInv
<1>3. ASSUME NEW t \in Tasks, ApplyGrant(t) PROVE AccessInv'
  BY <1>3, ApplyGrantInv
<1>4. ASSUME NEW l \in Loops, Handle(l) PROVE AccessInv'
  BY <1>4, HandleInv
<1>5. ASSUME NEW l \in Loops, NEW r \in pending, Receive(l, r) PROVE AccessInv'
  BY <1>5, ReceiveInv
<1>6. CASE UNCHANGED vars
  BY <1>6 DEF vars, grantVars, AccessInv, GrantsInv, TypeOK, TaskInv, CellInv,
     MapInv, RuleOf, ProfileInv, JobInv, JobOK, Covered, Apart
<1> QED
  BY <1>1, <1>2, <1>3, <1>4, <1>5, <1>6 DEF Next

(* Every state of the service is well-typed.                                *)
THEOREM AccessTypeCorrect == Spec => []AccessTypeOK
<1>1. AccessInv => AccessTypeOK
  BY DEF AccessInv, GrantsInv, AccessTypeOK
<1> QED
  BY <1>1, AccessInitInv, AccessStep, PTL DEF Spec

(* A request that is refused, or whose execution failed, has every          *)
(* debit given back when it is answered (refund_applied_state_updates,      *)
(* lib.rs:372-393, 2480-2486).                                              *)
THEOREM RefusedUncharged == Spec => []RefusedNotCharged
<1>1. AccessInv => RefusedNotCharged
  BY DEF AccessInv, JobInv, JobOK, RefusedNotCharged
<1> QED
  BY <1>1, AccessInitInv, AccessStep, PTL DEF Spec

(* The order of the guards leaves no cycle of waiting loops, nor a chain of *)
(* three.                                                                   *)
THEOREM WaitingEnds == Spec => []WaitsEnd
<1>1. ASSUME AccessInv PROVE WaitsEnd
  <2>1. \A l \in Loops : JobOK(job[l], cells) /\ DOMAIN job[l].updates \subseteq Kinds
    BY <1>1, JobFields DEF AccessInv, JobInv
  <2>2. ASSUME NEW a \in Loops, NEW b \in Loops, NEW c \in Loops,
               WaitsFor(a, b), WaitsFor(b, c)
        PROVE  "Quota" \in job[c].locked
    <3>1. PICK k \in Kinds : /\ NextToLock(b, k)
                             /\ Holds(c, job[b].updates[k].cell)
      BY <2>2 DEF WaitsFor
    <3>2. job[b].locked # {} /\ job[b].locked \subseteq DOMAIN job[b].updates
      BY <2>1, <2>2 DEF WaitsFor, Holds, JobOK
    <3>3. k = "Quota"
      BY <2>1, <3>1, <3>2 DEF NextToLock, Unlocked, JobOK, Kinds
    <3>4. PICK m \in job[c].locked : job[c].updates[m].cell = job[b].updates[k].cell
      BY <3>1 DEF Holds
    <3>5. m \in DOMAIN job[c].updates /\ k \in DOMAIN job[b].updates
      BY <2>1, <3>1, <3>4 DEF JobOK, NextToLock, Unlocked
    <3>6. cells[job[b].updates[k].cell].name = None
      BY <2>1, <3>3, <3>5 DEF JobOK
    <3> QED
      BY <2>1, <3>4, <3>5, <3>6 DEF JobOK
  <2>3. ASSUME NEW c \in Loops, NEW d \in Loops, "Quota" \in job[c].locked
        PROVE  ~WaitsFor(c, d)
    BY <2>1, <2>3 DEF WaitsFor, NextToLock, Unlocked, JobOK, Kinds
  <2> QED
    BY <2>2, <2>3 DEF WaitsEnd
<1> QED
  BY <1>1, AccessInitInv, AccessStep, PTL DEF Spec

----------------------------------------------------------------------------
(* Limits that do not refill are never overspent.                           *)

(* Every rule that is granted has rate 0, the default.                      *)
Plain(rule) == rule # None => rule.rate_per_micro = 0
PlainProfile(p) == /\ p.methods # None =>
                        \A m \in DOMAIN p.methods : Plain(p.methods[m])
                   /\ Plain(p.quota)
PlainLimits == \A e \in GrantEvents :
                 e.content # Unparseable => PlainProfile(e.content)

(* So are the rules that a request has read.                                *)
PlainJob(j) == /\ Plain(j.access_rule) /\ Plain(j.quota_rule)
               /\ \A k \in DOMAIN j.updates : Plain(j.updates[k].rule)
PlainJobs == \A l \in Loops : PlainJob(job[l])

(* A stored profile, and one being applied, parse: their content is a       *)
(* profile, and Unparseable is none.                                        *)
ParsedInv == \A c \in Clients : usage_profiles[c] # None =>
                                 PlainProfile(usage_profiles[c].content)
ParsedTask == \A t \in Tasks : task[t].pc # "idle" =>
                               PlainProfile(task[t].event.content)

SameRules(j, n) == /\ n.updates = j.updates
                   /\ n.access_rule = j.access_rule
                   /\ n.quota_rule = j.quota_rule

LEMMA PlainKept ==
  ASSUME NEW l \in Loops, NEW n, Becomes(l, n), PlainJobs, PlainJob(n),
         job \in [Loops -> Jobs]
  PROVE  PlainJobs'
<1>1. job'[l] = n /\ \A o \in Loops : o # l => job'[o] = job[o]
  BY DEF Becomes
<1> QED
  BY <1>1 DEF PlainJobs, PlainJob

(* The changes of a job that leave its rules alone.                         *)
LEMMA RulesKept ==
  ASSUME NEW j \in Jobs, NEW pc \in Steps, NEW now \in Times,
         NEW code \in Outcomes, NEW k \in Kinds, PlainJob(j)
  PROVE  /\ PlainJob([j EXCEPT !.pc = pc])
         /\ PlainJob([j EXCEPT !.pc = pc, !.now = now])
         /\ PlainJob([j EXCEPT !.pc = pc, !.locked = {}])
         /\ PlainJob([j EXCEPT !.locked = @ \cup {k}])
         /\ PlainJob([j EXCEPT !.charged = @ \cup {k}])
         /\ PlainJob([j EXCEPT !.charged = @ \ {k}])
         /\ PlainJob(Answered(j, code))
<1>1. \A n : SameRules(j, n) => PlainJob(n)
  BY DEF SameRules, PlainJob
<1>2. /\ SameRules(j, [j EXCEPT !.pc = pc])
      /\ SameRules(j, [j EXCEPT !.pc = pc, !.now = now])
      /\ SameRules(j, [j EXCEPT !.pc = pc, !.locked = {}])
      /\ SameRules(j, [j EXCEPT !.locked = @ \cup {k}])
      /\ SameRules(j, [j EXCEPT !.charged = @ \cup {k}])
      /\ SameRules(j, [j EXCEPT !.charged = @ \ {k}])
      /\ SameRules(j, Answered(j, code))
  BY DEF SameRules, Jobs, Answered
<1> QED
  BY <1>1, <1>2

LEMMA NoJobPlain ==
  ASSUME NEW r \in Requests
  PROVE  PlainJob(NoJob) /\ PlainJob([NoJob EXCEPT !.pc = "profile", !.request = r])
<1>1. PlainJob(NoJob)
  BY DEF PlainJob, Plain, NoJob, NoUpdates
<1>2. ASSUME NEW j \in Jobs, PlainJob(j)
      PROVE  PlainJob([j EXCEPT !.pc = "profile", !.request = r])
  <2> DEFINE a == [j EXCEPT !.pc = "profile", !.request = r]
  <2>1. SameRules(j, a)
    BY DEF SameRules, Jobs
  <2> QED
    BY <1>2, <2>1 DEF SameRules, PlainJob
<1> QED
  BY <1>1, <1>2, NoJobType

(* What a job reads from its profile, it keeps.                             *)
LEMMA AuthorizePlain ==
  ASSUME AccessInv, ParsedInv, PlainJobs, NEW l \in Loops, Authorize(l)
  PROVE  PlainJobs'
<1> DEFINE e == usage_profiles[job[l].request.client]
           p == e.content
           ar == RuleFor(p, job[l].request.method)
           n == [job[l] EXCEPT !.pc = "clock", !.profile = e,
                               !.access_rule = ar, !.quota_rule = p.quota]
<1>1. /\ job[l] \in Jobs /\ PlainJob(job[l]) /\ Becomes(l, n)
      /\ job \in [Loops -> Jobs]
  BY DEF AccessInv, PlainJobs, Authorize
<1>2. job[l].request \in Requests
  BY DEF AccessInv, JobInv, JobOK, Authorize
<1>3. job[l].request.client \in Clients
  BY <1>2, RequestsAssumption
<1>4. PlainProfile(p) /\ Permits(p, job[l].request.method)
  BY <1>3 DEF Authorize, ParsedInv
<1>5. Plain(ar) /\ Plain(p.quota)
  BY <1>4, Zenon DEF PlainProfile, Permits, RuleFor, Plain
<1>6. ASSUME NEW j \in Jobs, PlainJob(j), NEW f, NEW a, NEW q, Plain(a), Plain(q)
      PROVE  PlainJob([j EXCEPT !.pc = "clock", !.profile = f, !.access_rule = a,
                                !.quota_rule = q])
  <2> DEFINE b == [j EXCEPT !.pc = "clock", !.profile = f, !.access_rule = a,
                            !.quota_rule = q]
  <2>1. b.access_rule = a /\ b.quota_rule = q /\ b.updates = j.updates
    BY DEF Jobs
  <2> QED
    BY <1>6, <2>1 DEF PlainJob
<1>7. PlainJob(n)
  BY <1>1, <1>5, <1>6
<1> HIDE DEF n
<1> QED
  BY <1>1, <1>7, PlainKept

LEMMA UpdatedPlain ==
  ASSUME NEW j \in Jobs, PlainJob(j), NEW pc, NEW kind, NEW cell, NEW rule,
         NEW amount, Plain(rule)
  PROVE  PlainJob([j EXCEPT !.pc = pc,
                     !.updates = WithUpdate(j, kind, cell, rule, amount)])
<1> DEFINE u == WithUpdate(j, kind, cell, rule, amount)
           b == [j EXCEPT !.pc = pc, !.updates = u]
<1> DEFINE v == [cell |-> cell, rule |-> rule, amount |-> amount]
<1>4. u = [k \in DOMAIN j.updates \cup {kind} |->
             IF k = kind THEN v ELSE j.updates[k]]
  BY DEF WithUpdate
<1>5. v.rule = rule
  OBVIOUS
<1> HIDE DEF v, u
<1>6. /\ DOMAIN u = DOMAIN j.updates \cup {kind}
      /\ \A k \in DOMAIN u : u[k] = IF k = kind THEN v ELSE j.updates[k]
  BY <1>4
<1>1. \A k \in DOMAIN u : \/ u[k].rule = rule
                          \/ k \in DOMAIN j.updates /\ u[k] = j.updates[k]
  BY <1>5, <1>6
<1>2. b.access_rule = j.access_rule /\ b.quota_rule = j.quota_rule /\ b.updates = u
  BY DEF Jobs
<1> HIDE DEF b
<1>3. PlainJob(b)
  BY <1>1, <1>2 DEF PlainJob
<1> QED
  BY <1>3 DEF b, u

LEMMA FetchPlain ==
  ASSUME AccessInv, PlainJobs, NEW l \in Loops, FetchAccess(l) \/ FetchQuota(l)
  PROVE  PlainJobs'
<1> DEFINE j == job[l]
<1>1. /\ j \in Jobs /\ PlainJob(j) /\ job \in [Loops -> Jobs]
      /\ Plain(j.access_rule) /\ Plain(j.quota_rule) /\ j.now \in Times
  BY DEF AccessInv, PlainJobs, PlainJob, Jobs
<1>2. /\ "quota" \in Steps /\ "lock" \in Steps /\ "MISSING_STATE" \in Outcomes
      /\ "Quota" \in Kinds
  BY DEF Steps, Outcomes, Refusals, Kinds
<1>3. \/ Becomes(l, [j EXCEPT !.pc = "quota"])
      \/ Becomes(l, [j EXCEPT !.pc = "lock"])
      \/ Becomes(l, Answered(j, "MISSING_STATE"))
      \/ \E cell : Becomes(l, [j EXCEPT !.pc = "quota",
            !.updates = WithUpdate(j, "Method", cell, j.access_rule, AccessCost)])
      \/ \E cell : Becomes(l, [j EXCEPT !.pc = "lock",
            !.updates = WithUpdate(j, "Quota", cell, j.quota_rule,
                                   j.request.amount)])
  BY DEF FetchAccess, FetchQuota, Answer
<1>4. /\ PlainJob([j EXCEPT !.pc = "quota"]) /\ PlainJob([j EXCEPT !.pc = "lock"])
      /\ PlainJob(Answered(j, "MISSING_STATE"))
  BY <1>1, <1>2, RulesKept
<1>5. \A cell :
        /\ PlainJob([j EXCEPT !.pc = "quota",
             !.updates = WithUpdate(j, "Method", cell, j.access_rule, AccessCost)])
        /\ PlainJob([j EXCEPT !.pc = "lock",
             !.updates = WithUpdate(j, "Quota", cell, j.quota_rule,
                                    j.request.amount)])
  BY <1>1, UpdatedPlain
<1> HIDE DEF j
<1> QED
  BY <1>1, <1>3, <1>4, <1>5, PlainKept

LEMMA HandlePlain ==
  ASSUME AccessInv, ParsedInv, PlainJobs, NEW l \in Loops, Handle(l)
  PROVE  PlainJobs'
<1>1. job[l] \in Jobs /\ PlainJob(job[l]) /\ job \in [Loops -> Jobs]
  BY DEF AccessInv, PlainJobs
<1>2. \A n : Becomes(l, n) /\ PlainJob(n) => PlainJobs'
  BY <1>1, PlainKept
<1>3. ASSUME NEW code \in Outcomes, Answer(l, code) PROVE PlainJobs'
  <2>1. "execute" \in Steps /\ "Quota" \in Kinds /\ job[l].now \in Times
    BY <1>1 DEF Steps, Kinds, Jobs
  <2>2. PlainJob(Answered(job[l], code))
    BY <1>1, <2>1, RulesKept
  <2> QED
    BY <1>2, <1>3, <2>2 DEF Answer
<1>4. Refusals \cup {"NOT_IMPLEMENTED", "INVALID", "FAILED", "OK"} \subseteq Outcomes
  BY DEF Outcomes
<1>5. CASE \/ Unauthorized(l) \/ Restricted(l) \/ Succeed(l) \/ Refunded(l)
           \/ AnswerUnexecuted(l)
  <2>1. \E code \in Refusals \cup {"NOT_IMPLEMENTED", "INVALID", "FAILED", "OK"} :
          Answer(l, code)
    BY <1>5 DEF Unauthorized, Restricted, Succeed, Refunded, AnswerUnexecuted,
       UnexecutedCode, Refusals
  <2> QED
    BY <1>3, <1>4, <2>1
<1>6. CASE Authorize(l) \/ FetchAccess(l) \/ FetchQuota(l)
  BY <1>6, AuthorizePlain, FetchPlain
<1>7. ASSUME NEW pc \in Steps, NEW now \in Times, NEW k \in Kinds,
             \/ Becomes(l, [job[l] EXCEPT !.pc = pc])
             \/ Becomes(l, [job[l] EXCEPT !.pc = pc, !.now = now])
             \/ Becomes(l, [job[l] EXCEPT !.pc = pc, !.locked = {}])
             \/ Becomes(l, [job[l] EXCEPT !.locked = @ \cup {k}])
             \/ Becomes(l, [job[l] EXCEPT !.charged = @ \cup {k}])
             \/ Becomes(l, [job[l] EXCEPT !.charged = @ \ {k}])
      PROVE  PlainJobs'
  <2>1. "OK" \in Outcomes
    BY DEF Outcomes
  <2>2. /\ PlainJob([job[l] EXCEPT !.pc = pc])
        /\ PlainJob([job[l] EXCEPT !.pc = pc, !.now = now])
        /\ PlainJob([job[l] EXCEPT !.pc = pc, !.locked = {}])
        /\ PlainJob([job[l] EXCEPT !.locked = @ \cup {k}])
        /\ PlainJob([job[l] EXCEPT !.charged = @ \cup {k}])
        /\ PlainJob([job[l] EXCEPT !.charged = @ \ {k}])
    BY <1>1, <2>1, RulesKept
  <2> QED
    BY <1>2, <1>7, <2>2
<1>8. /\ {"access", "debit", "dispatch", "execute", "refund"} \subseteq Steps
      /\ "Quota" \in Kinds /\ job[l].now \in Times /\ clock \in Times
  BY <1>1, GrantBoundsAssumption, WidthAssumption
  DEF Steps, Kinds, Jobs, Times, AccessInv, GrantsInv, TypeOK
<1>9. CASE ReadClock(l)
  BY <1>7, <1>8, <1>9 DEF ReadClock
<1>10. CASE Admit(l)
  BY <1>7, <1>8, <1>10 DEF Admit
<1>11. CASE Start(l)
  BY <1>7, <1>8, <1>11 DEF Start
<1>12. CASE Fail(l)
  BY <1>7, <1>8, <1>12 DEF Fail
<1>13. CASE Verify(l)
  <2>1. "OVER_LIMIT" \in Outcomes
    BY DEF Outcomes, Refusals
  <2> QED
    BY <1>3, <1>7, <1>8, <1>13, <2>1 DEF Verify
<1>14. ASSUME NEW k \in Kinds, Lock(l, k) \/ RefundUpdate(l, k) PROVE PlainJobs'
  <2>1. CASE Lock(l, k)
    BY <1>7, <1>8, <2>1 DEF Lock
  <2>2. CASE RefundUpdate(l, k)
    BY <1>7, <1>8, <2>2, Zenon DEF RefundUpdate
  <2> QED
    BY <1>14, <2>1, <2>2
<1>15. ASSUME NEW k \in Kinds, Debit(l, k) PROVE PlainJobs'
  <2>1. Verdict(l, k) = "Ok"
    BY <1>15, DebitInv
  <2>2. Becomes(l, [job[l] EXCEPT !.charged = @ \cup {k}])
    BY <1>15, <2>1 DEF Debit
  <2> QED
    BY <1>7, <1>8, <2>2
<1>16. CASE Respond(l)
  BY <1>2, <1>16, NoJobPlain DEF Respond, PlainJob, NoJob, Plain, NoUpdates
<1> QED
  BY <1>5, <1>6, <1>9, <1>10, <1>11, <1>12, <1>13, <1>14, <1>15, <1>16 DEF Handle

(* A charge that lowers the balance by at least as much as it adds to what  *)
(* is spent.                                                                *)
LEMMA ChargeSum ==
  ASSUME GrantsInv, NeverOverspent, NEW i \in DOMAIN cells, NEW s \in Counters,
         NEW n \in Int, Charge(i, s, n), s.balance + n <= cells[i].state.balance
  PROVE  NeverOverspent'
<1>1. cells \in Seq(Cells)
  BY DEF GrantsInv, TypeOK
<1>2. /\ DOMAIN cells' = DOMAIN cells
      /\ \A k \in DOMAIN cells : /\ cells'[k].name = cells[k].name
                                 /\ cells'[k].event = cells[k].event
                                 /\ k # i => cells'[k] = cells[k]
      /\ cells'[i].state = s /\ cells'[i].spent = cells[i].spent + n
  BY <1>1, ChargedCells
<1>3. \A k \in DOMAIN cells : CapacityOf(k)' = CapacityOf(k)
  BY <1>2 DEF CapacityOf
<1>4. \A k \in DOMAIN cells : CapacityOf(k) \in Nat
  <2>1. \A k \in DOMAIN cells : RuleOf(cells[k]) \in Rules
    BY DEF GrantsInv, CellInv
  <2> QED
    BY <2>1, WidthAssumption DEF RuleOf, CapacityOf, Rules
<1>5. cells[i] \in Cells
  BY <1>1
<1>6. cells[i].state.balance \in Int /\ cells[i].spent \in Int /\ s.balance \in Nat
  BY <1>5, WidthAssumption DEF Cells, Counters
<1>7. /\ cells'[i].state.balance >= 0
      /\ cells'[i].state.balance + cells'[i].spent <= CapacityOf(i)
  BY <1>2, <1>4, <1>6 DEF NeverOverspent
<1> QED
  BY <1>2, <1>3, <1>7 DEF NeverOverspent

LEMMA HandleSum ==
  ASSUME AccessInv, PlainJobs, NeverOverspent, NEW l \in Loops, Handle(l)
  PROVE  NeverOverspent'
<1>1. job[l] \in Jobs /\ JobOK(job[l], cells) /\ PlainJob(job[l]) /\ GrantsInv
  BY DEF AccessInv, JobInv, PlainJobs
<1>2. ASSUME NEW k \in DOMAIN job[l].updates
      PROVE  /\ job[l].updates[k].cell \in DOMAIN cells
             /\ cells[job[l].updates[k].cell].state \in Counters
             /\ job[l].updates[k].rule \in Rules
             /\ job[l].updates[k].rule.rate_per_micro = 0
             /\ job[l].updates[k].amount \in Amounts /\ job[l].now \in Times
  <2>1. /\ job[l].updates[k].cell \in DOMAIN cells /\ job[l].now \in Times
        /\ job[l].updates[k].rule \in Rules /\ job[l].updates[k].amount \in Amounts
    BY <1>1, JobFields DEF JobOK
  <2>2. job[l].updates[k].rule.rate_per_micro = 0
    BY <1>1, <2>1, NoneAssumption DEF PlainJob, Plain
  <2>3. cells[job[l].updates[k].cell] \in Cells
    BY <1>1, <2>1 DEF GrantsInv, TypeOK
  <2> QED
    BY <2>1, <2>2, <2>3 DEF Cells
<1>3. ASSUME NEW k \in Kinds, Debit(l, k) PROVE NeverOverspent'
  <2> DEFINE u == job[l].updates[k]
             s == Withdraw(cells[u.cell].state, u.amount, job[l].now, u.rule)
  <2>1. k \in DOMAIN job[l].updates
    BY <1>3 DEF Debit, Undebited
  <2>2. Verdict(l, k) = "Ok"
    BY <1>3, DebitInv
  <2>3. Charge(u.cell, s, u.amount)
    BY <1>3, <2>2 DEF Debit
  <2>4. /\ u.cell \in DOMAIN cells /\ cells[u.cell].state \in Counters
        /\ u.rule \in Rules /\ u.rule.rate_per_micro = 0
        /\ u.amount \in Amounts /\ job[l].now \in Times
    BY <1>2, <2>1
  <2>5. s \in Counters
        /\ s.balance = CalculateRefill(cells[u.cell].state, job[l].now, u.rule)
                          - u.amount
    BY <2>2, <2>4, WithdrawType DEF Verdict
  <2>6. /\ CalculateRefill(cells[u.cell].state, job[l].now, u.rule) \in Int
        /\ CalculateRefill(cells[u.cell].state, job[l].now, u.rule)
              <= cells[u.cell].state.balance
    BY <2>4, RefillType, RefillWithoutRate
  <2>7. u.amount \in Int /\ cells[u.cell].state.balance \in Int
    BY <2>4, WidthAssumption DEF Amounts, Counters
  <2> HIDE DEF u, s
  <2>8. s.balance + u.amount <= cells[u.cell].state.balance
    BY <2>5, <2>6, <2>7
  <2> QED
    BY <1>1, <2>3, <2>4, <2>5, <2>7, <2>8, ChargeSum
<1>4. ASSUME NEW k \in Kinds, RefundUpdate(l, k) PROVE NeverOverspent'
  <2> DEFINE u == job[l].updates[k]
             s == Refund(cells[u.cell].state, u.amount, u.rule)
  <2>1. k \in DOMAIN job[l].updates
    BY <1>1, <1>4 DEF RefundUpdate, JobOK
  <2>2. Charge(u.cell, s, -u.amount)
    BY <1>4 DEF RefundUpdate
  <2>3. /\ u.cell \in DOMAIN cells /\ cells[u.cell].state \in Counters
        /\ u.rule \in Rules /\ u.amount \in Amounts
    BY <1>2, <2>1
  <2>4. s \in Counters /\ s.balance <= cells[u.cell].state.balance + u.amount
    BY <2>3, RefundType
  <2>5. /\ u.amount \in Int /\ cells[u.cell].state.balance \in Int
        /\ s.balance \in Int
    BY <2>3, <2>4, WidthAssumption DEF Amounts, Counters
  <2> HIDE DEF u, s
  <2>6. -u.amount \in Int /\ s.balance + (-u.amount) <= cells[u.cell].state.balance
    BY <2>4, <2>5
  <2> QED
    BY <1>1, <2>2, <2>3, <2>4, <2>6, ChargeSum
<1>5. CASE \A k \in Kinds : ~Debit(l, k) /\ ~RefundUpdate(l, k)
  <2>1. cells' = cells
    BY <1>5 DEF Handle, Unauthorized, Restricted, Authorize, ReadClock,
       FetchAccess, FetchQuota, Lock, Verify, Admit, AnswerUnexecuted, Start,
       Succeed, Fail, Refunded, Respond, grantVars
  <2> QED
    BY <2>1 DEF NeverOverspent, CapacityOf
<1> QED
  BY <1>3, <1>4, <1>5

(* A new counter is full, nothing has been spent of it, and it is for the   *)
(* client whose grant is being applied.                                     *)
LEMMA NewCells ==
  ASSUME GrantsInv, NEW t \in Tasks, Apply(t)
  PROVE  /\ \A i \in DOMAIN cells : i \in DOMAIN cells' /\ cells'[i] = cells[i]
         /\ \A i \in DOMAIN cells' \ DOMAIN cells :
              /\ cells'[i].state.balance = RuleOf(cells'[i]).max_capacity
              /\ cells'[i].state.balance \in Nat /\ cells'[i].spent = 0
              /\ task[t].pc # "idle" /\ cells'[i].client = task[t].event.target
<1> DEFINE Created == \E c \in Cells : /\ cells' = Append(cells, c)
                                       /\ c.state.balance = RuleOf(c).max_capacity
                                       /\ c.spent = 0 /\ task[t].pc # "idle"
                                       /\ c.client = task[t].event.target
<1>1. cells \in Seq(Cells)
  BY DEF GrantsInv, TypeOK
<1>2. ASSUME NEW name \in RuleNames \cup {None}, NEW rule \in Rules,
             task[t].pc = "init", cells' = Append(cells, NewCell(t, name, rule)),
             RuleOf(NewCell(t, name, rule)) = rule
      PROVE  Created
  <2>1. NewCell(t, name, rule) \in Cells
    BY <1>2, NewCellType
  <2>2. /\ NewCell(t, name, rule).state.balance = rule.max_capacity
        /\ NewCell(t, name, rule).spent = 0
        /\ NewCell(t, name, rule).client = task[t].event.target
    BY DEF NewCell, FromRule
  <2> QED
    BY <1>2, <2>1, <2>2
<1>3. cells' = cells \/ Created
  <2>1. ASSUME NEW m \in RuleNames, InitMethod(t, m) PROVE Created
    <3> DEFINE rule == task[t].event.content.methods[m]
    <3>1. rule \in Rules /\ m # None
      BY <2>1, RatedType, NoneAssumption DEF InitMethod, GrantsInv, TaskInv
    <3>2. task[t].pc = "init" /\ cells' = Append(cells, NewCell(t, m, rule))
      BY <2>1 DEF InitMethod
    <3>3. RuleOf(NewCell(t, m, rule)) = rule
      BY <3>1 DEF RuleOf, NewCell
    <3> HIDE DEF Created
    <3> QED
      BY <1>2, <3>1, <3>2, <3>3
  <2>2. CASE InitQuota(t)
    <3> DEFINE rule == task[t].event.content.quota
    <3>1. task[t].pc = "init" /\ rule \in Rules \cup {None}
      BY <2>2 DEF InitQuota, GrantsInv, TaskInv, IsProfile
    <3>2. CASE rule = None
      BY <2>2, <3>2 DEF InitQuota
    <3>3. CASE rule # None
      <4>1. cells' = Append(cells, NewCell(t, None, rule))
        BY <2>2, <3>3 DEF InitQuota
      <4>2. RuleOf(NewCell(t, None, rule)) = rule
        BY DEF RuleOf, NewCell
      <4> HIDE DEF Created
      <4> QED
        BY <1>2, <3>1, <3>3, <4>1, <4>2
    <3> QED
      BY <3>2, <3>3
  <2>3. CASE /\ ~InitQuota(t)
             /\ \A m \in RuleNames : ~InitMethod(t, m)
    BY <2>3 DEF Apply, StartGrant, Skip, AcceptUnparseable, Accept, Upsert,
       ClearAccess, ClearQuota, StampCounters, UpsertProfile, storeVars
  <2> QED
    BY <2>1, <2>2, <2>3
<1>4. CASE cells' = cells
  BY <1>4
<1>5. CASE Created
  <2>1. PICK c \in Cells : /\ cells' = Append(cells, c)
                           /\ c.state.balance = RuleOf(c).max_capacity
                           /\ c.spent = 0 /\ task[t].pc # "idle"
                           /\ c.client = task[t].event.target
    BY <1>5
  <2>2. /\ DOMAIN cells' = DOMAIN cells \cup {Len(cells) + 1}
        /\ cells'[Len(cells) + 1] = c
        /\ \A i \in DOMAIN cells : cells'[i] = cells[i]
    BY <1>1, <2>1
  <2>3. c.state.balance \in Nat
    BY <2>1, WidthAssumption DEF Cells, Counters
  <2> QED
    BY <2>1, <2>2, <2>3
<1> QED
  BY <1>3, <1>4, <1>5

LEMMA ApplySum ==
  ASSUME GrantsInv, NeverOverspent, NEW t \in Tasks, Apply(t)
  PROVE  NeverOverspent'
<1>1. \A i \in DOMAIN cells :
        /\ cells'[i].state.balance >= 0
        /\ cells'[i].state.balance + cells'[i].spent <= CapacityOf(i)'
  BY NewCells DEF NeverOverspent, CapacityOf
<1>2. ASSUME NEW i \in DOMAIN cells' \ DOMAIN cells
      PROVE  /\ cells'[i].state.balance >= 0
             /\ cells'[i].state.balance + cells'[i].spent <= CapacityOf(i)'
  <2>1. /\ cells'[i].state.balance = RuleOf(cells'[i]).max_capacity
        /\ cells'[i].state.balance \in Nat /\ cells'[i].spent = 0
    BY NewCells
  <2>2. CapacityOf(i)' = RuleOf(cells'[i]).max_capacity
    BY DEF CapacityOf, RuleOf
  <2> QED
    BY <2>1, <2>2
<1> QED
  BY <1>1, <1>2 DEF NeverOverspent

(* Profiles that are being applied, or are stored, are granted ones.        *)
LEMMA ApplyParsed ==
  ASSUME PlainLimits, GrantsInv, ParsedInv, ParsedTask, NEW t \in Tasks, Apply(t)
  PROVE  ParsedInv' /\ ParsedTask'
<1>1. /\ task \in TaskType
      /\ usage_profiles \in [Clients -> GrantEvents \cup {None}]
  BY DEF GrantsInv, TypeOK, TaskType
<1>2. CASE StartGrant(t)
  <2>1. PICK e \in inbox[t] : Skip(t, e) \/ AcceptUnparseable(t, e) \/ Accept(t, e)
    BY <1>2 DEF StartGrant
  <2>2. e \in GrantEvents
    BY <2>1 DEF GrantsInv, TypeOK
  <2>3. usage_profiles' = usage_profiles
    BY <2>1 DEF Skip, AcceptUnparseable, Accept, storeVars
  <2>4. CASE task' = task
    BY <2>3, <2>4 DEF ParsedInv, ParsedTask
  <2>5. CASE Accept(t, e)
    <3>1. /\ PlainProfile(e.content)
          /\ task' = [task EXCEPT ![t] = [pc |-> "clear_access", event |-> e,
                                          now |-> 0, todo |-> {}]]
      BY <2>2, <2>5 DEF Accept, PlainLimits
    <3>2. task'[t].event = e /\ \A u \in Tasks : u # t => task'[u] = task[u]
      BY <1>1, <3>1 DEF TaskType
    <3> QED
      BY <2>3, <3>1, <3>2 DEF ParsedInv, ParsedTask
  <2> QED
    BY <2>1, <2>4, <2>5 DEF Skip, AcceptUnparseable
<1>3. CASE Upsert(t)
  <2>1. \A u \in Tasks : u # t => task'[u] = task[u]
    BY <1>1, <1>3 DEF Upsert, TaskType, ClearAccess, ClearQuota, StampCounters,
       InitMethod, InitQuota, UpsertProfile
  <2>2. task'[t].pc # "idle" => task'[t].event = task[t].event
    <3>1. CASE ClearAccess(t) \/ ClearQuota(t) \/ InitQuota(t)
      BY <1>1, <3>1 DEF TaskType, ClearAccess, ClearQuota, InitQuota
    <3>2. CASE StampCounters(t)
      BY <1>1, <3>2 DEF TaskType, StampCounters
    <3>3. ASSUME NEW m \in RuleNames, InitMethod(t, m)
          PROVE  task'[t].event = task[t].event
      BY <1>1, <3>3 DEF TaskType, InitMethod
    <3>4. CASE UpsertProfile(t)
      BY <1>1, <3>4 DEF TaskType, UpsertProfile, Idle
    <3> QED
      BY <1>3, <3>1, <3>2, <3>3, <3>4 DEF Upsert
  <2>3. task[t].pc # "idle"
    BY <1>3 DEF Upsert, ClearAccess, ClearQuota, StampCounters,
       InitMethod, InitQuota, UpsertProfile
  <2>4. ParsedTask'
    BY <2>1, <2>2, <2>3 DEF ParsedTask
  <2>5. CASE UpsertProfile(t)
    <3>1. usage_profiles' = [usage_profiles EXCEPT ![task[t].event.target] =
                               task[t].event]
      BY <2>5 DEF UpsertProfile
    <3> QED
      BY <1>1, <2>3, <2>4, <3>1 DEF ParsedInv, ParsedTask
  <2>6. CASE ~UpsertProfile(t)
    <3>1. usage_profiles' = usage_profiles
      BY <1>3, <2>6 DEF Upsert, ClearAccess, ClearQuota, StampCounters,
         InitMethod, InitQuota, storeVars
    <3> QED
      BY <2>4, <3>1 DEF ParsedInv
  <2> QED
    BY <2>5, <2>6
<1> QED
  BY <1>2, <1>3 DEF Apply

SpentInv == ParsedInv /\ ParsedTask /\ PlainJobs /\ NeverOverspent

LEMMA SpentStep ==
  ASSUME PlainLimits, AccessInv, SpentInv, [Next]_vars
  PROVE  SpentInv'
<1>1. CASE UNCHANGED vars \/ Environment
  BY <1>1 DEF vars, grantVars, Environment, Tick, Relay, Publish, Deliver, Poll,
     storeVars, SpentInv, ParsedInv, ParsedTask, PlainJobs, PlainJob,
     NeverOverspent, CapacityOf
<1>2. CASE RestartService
  <2>1. /\ \A l \in Loops : job'[l] = NoJob
        /\ \A t \in Tasks : task'[t].pc = "idle"
        /\ \A c \in Clients : usage_profiles'[c] = None
        /\ cells' = <<>>
    BY <1>2 DEF RestartService, Restart, NoTask, Idle, NoGrant
  <2> QED
    BY <2>1 DEF SpentInv, ParsedInv, ParsedTask, PlainJobs, PlainJob, Plain,
       NoJob, NoUpdates, NeverOverspent
<1>3. ASSUME NEW t \in Tasks, ApplyGrant(t) PROVE SpentInv'
  <2>1. ParsedInv' /\ ParsedTask' /\ NeverOverspent'
    BY <1>3, ApplyParsed, ApplySum DEF ApplyGrant, AccessInv, SpentInv
  <2>2. PlainJobs'
    BY <1>3 DEF ApplyGrant, SpentInv, PlainJobs, PlainJob
  <2> QED
    BY <2>1, <2>2 DEF SpentInv
<1>4. ASSUME NEW l \in Loops, Handle(l) PROVE SpentInv'
  <2>1. usage_profiles' = usage_profiles /\ task' = task
    BY <1>4, Zenon DEF Handle, Unauthorized, Restricted, Authorize, ReadClock,
       FetchAccess, FetchQuota, Lock, Verify, Debit, RefundUpdate, Admit,
       AnswerUnexecuted, Start, Succeed, Fail, Refunded, Respond, grantVars
  <2>2. PlainJobs' /\ NeverOverspent'
    BY <1>4, HandlePlain, HandleSum DEF SpentInv
  <2> QED
    BY <2>1, <2>2 DEF SpentInv, ParsedInv, ParsedTask
<1>5. ASSUME NEW l \in Loops, NEW r \in pending, Receive(l, r) PROVE SpentInv'
  <2>1. r \in Requests /\ job \in [Loops -> Jobs]
    BY DEF AccessInv
  <2>2. PlainJobs'
    BY <1>5, <2>1, NoJobPlain, PlainKept DEF Receive, SpentInv
  <2> QED
    BY <1>5, <2>2 DEF Receive, SpentInv, ParsedInv, ParsedTask, NeverOverspent,
       CapacityOf, grantVars
<1> QED
  BY <1>1, <1>2, <1>3, <1>4, <1>5 DEF Next

(* With limits that do not refill, no interleaving of requests, refunds,    *)
(* grant updates and restarts spends more of a counter than its grant       *)
(* allows, nor drives its balance below zero.                               *)
THEOREM PlainLimitsHold == PlainLimits => (Spec => []NeverOverspent)
<1> SUFFICES ASSUME PlainLimits PROVE Spec => []NeverOverspent
  OBVIOUS
<1>1. Init => SpentInv
  BY DEF Init, GrantsInit, SpentInv, ParsedInv, ParsedTask, PlainJobs, PlainJob,
     Plain, NoJob, NoUpdates, NoTask, Idle, NoGrant, NeverOverspent
<1>2. AccessInv /\ SpentInv /\ [Next]_vars => SpentInv'
  BY SpentStep
<1>3. SpentInv => NeverOverspent
  BY DEF SpentInv
<1> QED
  BY <1>1, <1>2, <1>3, AccessInitInv, AccessStep, PTL DEF Spec

----------------------------------------------------------------------------
(* One grant for each client: what requests find and use is of that grant.  *)

(* A client is granted once: the counters of its requests are those of that *)
(* grant.  (A further grant resets them, whatever was spent.)               *)
OneGrantEach ==
  \A e, f \in GrantEvents : e.target # None /\ e.target = f.target => e = f

(* The grant that is stored for a client is the one accepted, and is not    *)
(* applied again.                                                           *)
OnlyInv ==
  /\ \A c \in Clients : usage_profiles[c] # None =>
       usage_profiles[c].target = c /\ Settled(usage_profiles[c])
  /\ \A t \in Tasks : Busy(t) => usage_profiles[task[t].event.target] = None

LEMMA OneGrantOne ==
  ASSUME OneGrantEach, GrantsInv, OnceInv
  PROVE  OneAtATime
<1>1. \A t \in Tasks : Busy(t) => /\ task[t].event \in GrantEvents
                                  /\ task[t].event.target # None
  BY NoneAssumption DEF GrantsInv, TaskInv, Busy
<1> QED
  BY <1>1 DEF OneGrantEach, OnceInv, OneAtATime, Busy

(* Steps that change of the grants' state at most the cells' contents.      *)
SameFor(cs, ds) ==
  /\ DOMAIN ds = DOMAIN cs
  /\ \A i \in DOMAIN cs : /\ ds[i].event = cs[i].event
                          /\ ds[i].client = cs[i].client
                          /\ ds[i].name = cs[i].name

GrantsFixed == /\ UNCHANGED <<task, applied, usage_profiles, access_rate, quota>>
               /\ SameFor(cells, cells')

LEMMA FixedOnce ==
  ASSUME GrantsInv, OnceInv, ForceInv, OnlyInv, GrantsFixed
  PROVE  OnceInv' /\ ForceInv' /\ OnlyInv'
<1>1. OnceInv'
  BY DEF GrantsFixed, SameFor, OnceInv, Busy, Settled, CountersOncePerGrant
<1>2. ForceInv'
  BY ForceKept DEF GrantsFixed, SameFor
<1>3. OnlyInv'
  BY DEF GrantsFixed, OnlyInv, Busy, Settled
<1> QED
  BY <1>1, <1>2, <1>3

LEMMA HandleFixed ==
  ASSUME AccessInv, NEW l \in Loops, Handle(l)
  PROVE  GrantsFixed
<1>1. cells \in Seq(Cells)
  BY DEF AccessInv, GrantsInv, TypeOK
<1>2. ASSUME NEW k \in Kinds, Debit(l, k) \/ RefundUpdate(l, k) PROVE GrantsFixed
  <2>1. k \in DOMAIN job[l].updates /\ job[l] \in Jobs /\ JobOK(job[l], cells)
    BY <1>2 DEF AccessInv, JobInv, JobOK, Debit, Undebited, RefundUpdate
  <2> DEFINE u == job[l].updates[k]
  <2>2. /\ u.cell \in DOMAIN cells /\ u.rule \in Rules /\ u.amount \in Amounts
        /\ job[l].now \in Times /\ u.amount \in Int
    BY <2>1, JobFields, WidthAssumption DEF JobOK, Amounts
  <2>3. cells[u.cell].state \in Counters
    <3>1. cells[u.cell] \in Cells
      BY <1>1, <2>2
    <3> QED
      BY <3>1 DEF Cells
  <2>4. \E s \in Counters, n \in Int : Charge(u.cell, s, n)
    <3>1. CASE Debit(l, k)
      <4>1. Charge(u.cell, Withdraw(cells[u.cell].state, u.amount, job[l].now,
                                    u.rule), u.amount)
        BY <3>1, DebitInv DEF Debit
      <4> QED
        BY <2>2, <2>3, <4>1, WithdrawType
    <3>2. CASE RefundUpdate(l, k)
      <4>1. Charge(u.cell, Refund(cells[u.cell].state, u.amount, u.rule),
                   -u.amount)
        BY <3>2 DEF RefundUpdate
      <4>2. -u.amount \in Int
        BY <2>2
      <4> QED
        BY <2>2, <2>3, <4>1, <4>2, RefundType
    <3> QED
      BY <1>2, <3>1, <3>2
  <2> HIDE DEF u
  <2>5. SameFor(cells, cells')
    BY <1>1, <2>2, <2>4, ChargedCells DEF SameFor
  <2> QED
    BY <1>2, <2>5 DEF GrantsFixed, Debit, RefundUpdate
<1>3. CASE \A k \in Kinds : ~Debit(l, k) /\ ~RefundUpdate(l, k)
  BY <1>3 DEF Handle, Unauthorized, Restricted, Authorize, ReadClock,
     FetchAccess, FetchQuota, Lock, Verify, Admit, AnswerUnexecuted, Start,
     Succeed, Fail, Refunded, Respond, grantVars, GrantsFixed, SameFor
<1> QED
  BY <1>2, <1>3

(* A grant that was applied is not newer than itself.                       *)
LEMMA ApplyOnly ==
  ASSUME OneGrantEach, GrantsInv, OnceInv, OnlyInv, ProfileInv,
         NEW t \in Tasks, Apply(t)
  PROVE  /\ OnlyInv'
         /\ \A c \in Clients : usage_profiles[c] # None =>
              usage_profiles'[c] = usage_profiles[c]
<1>1. /\ task \in TaskType
      /\ usage_profiles \in [Clients -> GrantEvents \cup {None}]
      /\ applied \in [Clients -> GrantEvents \cup {None}]
      /\ \A u \in Tasks : Busy(u) => /\ task[u].event.target \in Clients
                                     /\ task[u].event \in GrantEvents
  BY DEF GrantsInv, TypeOK, TaskType, TaskInv, Busy
<1>2. CASE StartGrant(t)
  <2>1. PICK e \in inbox[t] : Skip(t, e) \/ AcceptUnparseable(t, e) \/ Accept(t, e)
    BY <1>2 DEF StartGrant
  <2>2. e \in GrantEvents /\ usage_profiles' = usage_profiles
    BY <2>1 DEF GrantsInv, TypeOK, Skip, AcceptUnparseable, Accept, storeVars
  <2>3. CASE Skip(t, e)
    BY <2>3 DEF Skip, storeVars, OnlyInv, Busy, Settled
  <2>4. CASE AcceptUnparseable(t, e) \/ Accept(t, e)
    <3>1. ShouldApply(e) /\ applied' = [applied EXCEPT ![e.target] = e]
      BY <2>4 DEF AcceptUnparseable, Accept
    <3>2. \A f \in GrantEvents : Settled(f) => Settled(f)'
      BY <2>2, <3>1, SettledKept
    <3>3. \A c \in Clients : usage_profiles[c] # None =>
            usage_profiles[c] \in GrantEvents
      BY <1>1
    <3>4. (\A c \in Clients : usage_profiles[c] # None =>
             usage_profiles[c].target = c /\ Settled(usage_profiles[c]))'
      BY <2>2, <3>2, <3>3 DEF OnlyInv, Settled
    <3>5. e.target \in Clients /\ e.target # None
      BY <2>2, <3>1, EventType DEF ShouldApply
    <3>6. usage_profiles[e.target] = None
      <4>1. SUFFICES ASSUME usage_profiles[e.target] # None PROVE FALSE
        OBVIOUS
      <4>2. usage_profiles[e.target] = e
        BY <2>2, <3>3, <3>5, <4>1 DEF OneGrantEach, OnlyInv
      <4>3. applied[e.target] # None /\ ~Newer(e, applied[e.target])
        BY <3>5, <4>1, <4>2 DEF OnlyInv, Settled
      <4> QED
        BY <3>1, <4>3 DEF ShouldApply
    <3>7. \A u \in Tasks : Busy(u)' =>
            \/ Busy(u) /\ task'[u].event = task[u].event
            \/ task'[u].event = e
      BY <1>1, <2>4 DEF AcceptUnparseable, Accept, Busy, TaskType
    <3> QED
      BY <2>2, <3>4, <3>6, <3>7 DEF OnlyInv
  <2> QED
    BY <2>1, <2>2, <2>3, <2>4
<1>3. CASE UpsertProfile(t)
  <2> DEFINE e == task[t].event
  <2>1. /\ task' = [task EXCEPT ![t] = Idle] /\ Busy(t) /\ applied' = applied
        /\ usage_profiles' = [usage_profiles EXCEPT ![e.target] = e]
    BY <1>3 DEF UpsertProfile, Busy
  <2>2. /\ usage_profiles[e.target] = None /\ Settled(e) /\ e \in GrantEvents
        /\ e.target \in Clients
    BY <1>1, <2>1 DEF OnlyInv, OnceInv
  <2>3. \A u \in Tasks : Busy(u)' => u # t /\ Busy(u) /\ task'[u] = task[u]
    BY <1>1, <2>1 DEF TaskType, Busy, Idle
  <2>4. \A u \in Tasks : u # t /\ Busy(u) => task[u].event.target # e.target
    BY <2>1, OneGrantOne DEF OneAtATime, Busy
  <2>5. \A c \in Clients :
          usage_profiles'[c] = IF c = e.target THEN e ELSE usage_profiles[c]
    BY <1>1, <2>1
  <2>6. \A c \in Clients : usage_profiles'[c] # None =>
          usage_profiles'[c].target = c /\ Settled(usage_profiles'[c])
    BY <2>2, <2>5 DEF OnlyInv
  <2>7. (\A c \in Clients : usage_profiles[c] # None =>
          usage_profiles[c].target = c /\ Settled(usage_profiles[c]))'
    BY <2>1, <2>6 DEF Settled
  <2>8. \A u \in Tasks : Busy(u)' => usage_profiles'[task'[u].event.target] = None
    BY <1>1, <2>3, <2>4, <2>5 DEF OnlyInv
  <2> QED
    BY <2>2, <2>5, <2>7, <2>8 DEF OnlyInv
<1>4. CASE Upsert(t) /\ ~UpsertProfile(t)
  <2>1. UNCHANGED <<applied, usage_profiles>>
    BY <1>4 DEF Upsert, ClearAccess, ClearQuota, StampCounters, InitMethod,
       InitQuota, storeVars
  <2>2. \A u \in Tasks : Busy(u)' => Busy(u) /\ task'[u].event = task[u].event
    <3>1. CASE ClearAccess(t) \/ ClearQuota(t) \/ InitQuota(t)
      BY <1>1, <3>1 DEF TaskType, ClearAccess, ClearQuota, InitQuota, Busy
    <3>2. CASE StampCounters(t)
      BY <1>1, <3>2 DEF TaskType, StampCounters, Busy
    <3>3. ASSUME NEW m \in RuleNames, InitMethod(t, m)
          PROVE  \A u \in Tasks : Busy(u)' => Busy(u) /\ task'[u].event = task[u].event
      BY <1>1, <3>3 DEF TaskType, InitMethod, Busy
    <3> QED
      BY <1>4, <3>1, <3>2, <3>3 DEF Upsert
  <2> QED
    BY <2>1, <2>2 DEF OnlyInv, Settled
<1> QED
  BY <1>2, <1>3, <1>4 DEF Apply

(* Where a request stands: choosing its counters, or past the choice.       *)
Deciding == {"clock", "access", "quota"}
Decided == {"lock", "debit", "dispatch", "execute"}

(*--------------------------------------------------------------------------*)
(* What an admitted request has paid for.                                   *)
(*                                                                          *)
(* The profile is cloned once and the counters are looked up later, when    *)
(* they may be those of another grant of the client: what the request is to *)
(* be charged follows the clone, whatever the maps hold by then.            *)
(*--------------------------------------------------------------------------*)

(* The limits of the profile that apply to the request of job j.            *)
Limits(j) == {k \in Kinds : LimitOf(j.profile.content, j.request, k) # None}

(* The updates collected so far are those of the limits looked up so far.   *)
Bound(j, cs) ==
  /\ j.pc \in {"profile", "clock", "access"} => DOMAIN j.updates = {}
  /\ j.pc \in Deciding \cup Decided =>
       j.profile # None /\ Permits(j.profile.content, j.request.method)
  /\ j.pc \in Deciding =>
       /\ j.access_rule = RuleFor(j.profile.content, j.request.method)
       /\ j.quota_rule = j.profile.content.quota
  /\ j.pc = "quota" => DOMAIN j.updates = Limits(j) \ {"Quota"}
  /\ j.pc \in Decided => DOMAIN j.updates = Limits(j)
  /\ j.pc \in Deciding \cup Decided => \A k \in DOMAIN j.updates :
       /\ j.updates[k].amount = CostOf(j.request, k)
       /\ j.updates[k].rule = LimitOf(j.profile.content, j.request, k)
       /\ cs[j.updates[k].cell].client = j.request.client
       /\ cs[j.updates[k].cell].name = NameOf(j.request, k)
BoundInv == \A l \in Loops : Bound(job[l], cells)

(* The maps have, for a client, counters of that client.                    *)
OwnedInv ==
  /\ \A c \in Clients, m \in RuleNames :
       access_rate[c][m] # None => cells[access_rate[c][m]].client = c
  /\ \A c \in Clients : quota[c] # None => cells[quota[c]].client = c

LEMMA OwnedFixed ==
  ASSUME GrantsInv, OwnedInv, GrantsFixed
  PROVE  OwnedInv'
BY DEF GrantsInv, MapInv, OwnedInv, GrantsFixed, SameFor

LEMMA BoundKept ==
  ASSUME AccessInv, BoundInv, job' = job,
         \A i \in DOMAIN cells : /\ cells'[i].client = cells[i].client
                                 /\ cells'[i].name = cells[i].name
  PROVE  BoundInv'
<1> SUFFICES ASSUME NEW l \in Loops PROVE Bound(job[l], cells')
  BY DEF BoundInv
<1>1. Bound(job[l], cells) /\ JobOK(job[l], cells)
  BY DEF BoundInv, AccessInv, JobInv
<1> QED
  BY <1>1 DEF Bound, JobOK

LEMMA BoundBecomes ==
  ASSUME AccessInv, BoundInv, NEW l \in Loops, GrantsFixed, NEW n, Becomes(l, n),
         Bound(n, cells),
         \A k \in DOMAIN n.updates : n.updates[k].cell \in DOMAIN cells
  PROVE  BoundInv'
<1> SUFFICES ASSUME NEW o \in Loops PROVE Bound(job'[o], cells')
  BY DEF BoundInv
<1>1. /\ job'[l] = n /\ \A a \in Loops : a # l => job'[a] = job[a]
  BY DEF AccessInv, Becomes
<1>2. \A i \in DOMAIN cells : /\ cells'[i].client = cells[i].client
                              /\ cells'[i].name = cells[i].name
  BY DEF GrantsFixed, SameFor
<1>3. /\ Bound(job[o], cells)
      /\ \A k \in DOMAIN job[o].updates : job[o].updates[k].cell \in DOMAIN cells
  BY DEF BoundInv, AccessInv, JobInv, JobOK
<1>4. \A j : /\ Bound(j, cells)
             /\ \A k \in DOMAIN j.updates : j.updates[k].cell \in DOMAIN cells
             => Bound(j, cells')
  BY <1>2 DEF Bound
<1> QED
  BY <1>1, <1>3, <1>4

(* A step that goes on with the same profile and updates: those that a      *)
(* limit asks for are never passed over.                                    *)
Bears(j, n) ==
  /\ n.request = j.request /\ n.profile = j.profile /\ n.updates = j.updates
  /\ n.access_rule = j.access_rule /\ n.quota_rule = j.quota_rule
  /\ \/ n.pc \notin Deciding \cup Decided \cup {"profile"}
     \/ n.pc = j.pc
     \/ j.pc = "clock" /\ n.pc = "access"
     \/ j.pc = "access" /\ n.pc = "quota" /\ j.access_rule = None
     \/ /\ j.pc = "quota" /\ n.pc = "lock"
        /\ j.quota_rule = None \/ j.request.amount = 0
     \/ j.pc \in Decided /\ n.pc \in Decided

LEMMA BearsBound ==
  ASSUME AccessInv, BoundInv, NEW l \in Loops, GrantsFixed, NEW n, Becomes(l, n),
         Bears(job[l], n)
  PROVE  BoundInv'
<1> DEFINE j == job[l]
<1>1. Bound(j, cells) /\ JobOK(j, cells)
  BY DEF BoundInv, AccessInv, JobInv
<1>2. \A k \in DOMAIN n.updates : n.updates[k].cell \in DOMAIN cells
  BY <1>1 DEF Bears, JobOK
<1>3. Bears(j, n)
  OBVIOUS
<1> HIDE DEF j
<1>4. ASSUME j.pc = "access", n.pc = "quota", j.access_rule = None
      PROVE  Bound(n, cells)
  <2>1. RuleFor(n.profile.content, n.request.method) = None
    BY <1>1, <1>3, <1>4 DEF Bound, Bears, Deciding
  <2>2. Limits(n) \ {"Quota"} = {}
    BY <2>1 DEF Limits, LimitOf, Kinds
  <2> QED
    BY <1>1, <1>3, <1>4, <2>2 DEF Bound, Bears, Deciding, Decided
<1>5. ASSUME j.pc = "quota", n.pc = "lock",
             j.quota_rule = None \/ j.request.amount = 0
      PROVE  Bound(n, cells)
  <2>1. n.profile.content.quota = None \/ n.request.amount = 0
    BY <1>1, <1>3, <1>5 DEF Bound, Bears, Deciding
  <2>2. Limits(n) \ {"Quota"} = Limits(n)
    BY <2>1 DEF Limits, LimitOf
  <2>3. Limits(n) = Limits(j)
    BY <1>3 DEF Limits, Bears
  <2> QED
    BY <1>1, <1>3, <1>5, <2>2, <2>3 DEF Bound, Bears, Deciding, Decided
<1>6. ASSUME \/ n.pc \notin Deciding \cup Decided \cup {"profile"}
             \/ n.pc = j.pc
             \/ j.pc = "clock" /\ n.pc = "access"
             \/ j.pc \in Decided /\ n.pc \in Decided
      PROVE  Bound(n, cells)
  <2>1. Limits(n) = Limits(j)
    BY <1>3 DEF Limits, Bears
  <2>2. CASE n.pc \notin Deciding \cup Decided \cup {"profile"}
    BY <2>2 DEF Bound, Deciding, Decided
  <2>3. CASE n.pc = j.pc
    BY <1>1, <1>3, <2>1, <2>3 DEF Bound, Bears
  <2>4. CASE j.pc = "clock" /\ n.pc = "access"
    BY <1>1, <1>3, <2>4 DEF Bound, Bears, Deciding, Decided
  <2>5. CASE j.pc \in Decided /\ n.pc \in Decided
    BY <1>1, <1>3, <2>1, <2>5 DEF Bound, Bears, Deciding, Decided
  <2> QED
    BY <1>6, <2>2, <2>3, <2>4, <2>5
<1>7. Bound(n, cells)
  BY <1>3, <1>4, <1>5, <1>6 DEF Bears
<1> QED
  BY <1>2, <1>7, BoundBecomes

LEMMA AuthorizeBound ==
  ASSUME AccessInv, BoundInv, NEW l \in Loops, Authorize(l)
  PROVE  BoundInv'
<1> DEFINE m == job[l].request.method
           e == usage_profiles[job[l].request.client]
           n == [job[l] EXCEPT !.pc = "clock", !.profile = e,
                               !.access_rule = RuleFor(e.content, m),
                               !.quota_rule = e.content.quota]
<1>1. /\ job[l] \in Jobs /\ JobOK(job[l], cells)
      /\ Bound(job[l], cells) /\ job[l].pc = "profile"
  BY DEF AccessInv, JobInv, BoundInv, Authorize
<1>2. Becomes(l, n) /\ e # None /\ Permits(e.content, m) /\ GrantsFixed
  BY HandleFixed, Zenon DEF Authorize, Handle
<1>3. /\ n.pc = "clock" /\ n.request = job[l].request /\ n.profile = e
      /\ n.updates = job[l].updates
      /\ n.access_rule = RuleFor(e.content, m) /\ n.quota_rule = e.content.quota
  BY <1>1 DEF Jobs
<1> HIDE DEF n
<1>4. Bound(n, cells)
  BY <1>1, <1>2, <1>3 DEF Bound, Deciding, Decided
<1>5. \A k \in DOMAIN n.updates : n.updates[k].cell \in DOMAIN cells
  BY <1>1, <1>3 DEF JobOK
<1> QED
  BY <1>2, <1>4, <1>5, BoundBecomes

(* An update that is added is that of the limit being looked up.            *)
LEMMA UpdatedBound ==
  ASSUME AccessInv, BoundInv, NEW l \in Loops, GrantsFixed,
         NEW kind \in Kinds, NEW cell \in DOMAIN cells,
         job[l].pc = IF kind = "Method" THEN "access" ELSE "quota",
         NEW pc, pc = IF kind = "Method" THEN "quota" ELSE "lock",
         NEW rule, rule = LimitOf(job[l].profile.content, job[l].request, kind),
         rule # None,
         NEW amount, amount = CostOf(job[l].request, kind),
         cells[cell].client = job[l].request.client,
         cells[cell].name = NameOf(job[l].request, kind),
         Becomes(l, [job[l] EXCEPT !.pc = pc,
                       !.updates = WithUpdate(job[l], kind, cell, rule, amount)])
  PROVE  BoundInv'
<1> DEFINE j == job[l]
           u == WithUpdate(j, kind, cell, rule, amount)
           n == [j EXCEPT !.pc = pc, !.updates = u]
           v == [cell |-> cell, rule |-> rule, amount |-> amount]
<1>1. /\ j \in Jobs /\ JobOK(j, cells) /\ Bound(j, cells)
  BY DEF AccessInv, JobInv, BoundInv
<1>2. u = [k \in DOMAIN j.updates \cup {kind} |->
             IF k = kind THEN v ELSE j.updates[k]]
  BY DEF WithUpdate
<1>3. v.rule = rule /\ v.cell = cell /\ v.amount = amount
  OBVIOUS
<1> HIDE DEF v, u
<1>4. /\ DOMAIN u = DOMAIN j.updates \cup {kind}
      /\ \A k \in DOMAIN u : u[k] = IF k = kind THEN v ELSE j.updates[k]
  BY <1>2
<1>5. /\ n.pc = pc /\ n.updates = u /\ n.request = j.request
      /\ n.profile = j.profile
      /\ n.access_rule = j.access_rule /\ n.quota_rule = j.quota_rule
  BY <1>1 DEF Jobs
<1>6. Becomes(l, n)
  BY DEF u
<1> HIDE DEF n
<1>7. /\ j.pc = IF kind = "Method" THEN "access" ELSE "quota"
      /\ kind \in {"Method", "Quota"}
      /\ rule = LimitOf(j.profile.content, j.request, kind)
      /\ cells[cell].client = j.request.client
      /\ cells[cell].name = NameOf(j.request, kind)
      /\ amount = CostOf(j.request, kind)
  BY DEF Kinds
<1> HIDE DEF j
<1>8. Limits(n) = Limits(j) /\ Limits(j) \subseteq {"Method", "Quota"}
      /\ kind \in Limits(j)
  BY <1>5, <1>7 DEF Limits, Kinds
<1>9. \A k \in DOMAIN n.updates :
        /\ n.updates[k].amount = CostOf(n.request, k)
        /\ n.updates[k].rule = LimitOf(n.profile.content, n.request, k)
        /\ cells[n.updates[k].cell].client = n.request.client
        /\ cells[n.updates[k].cell].name = NameOf(n.request, k)
  BY <1>1, <1>3, <1>4, <1>5, <1>7 DEF Bound, Deciding
<1>10. DOMAIN n.updates = IF kind = "Method" THEN Limits(n) \ {"Quota"}
                          ELSE Limits(n)
  BY <1>1, <1>4, <1>5, <1>7, <1>8 DEF Bound
<1>11. Bound(n, cells)
  BY <1>1, <1>5, <1>7, <1>9, <1>10 DEF Bound, Deciding, Decided
<1>12. \A k \in DOMAIN n.updates : n.updates[k].cell \in DOMAIN cells
  BY <1>1, <1>3, <1>4, <1>5 DEF JobOK
<1> QED
  BY <1>6, <1>11, <1>12, BoundBecomes

LEMMA FetchBound ==
  ASSUME AccessInv, OwnedInv, BoundInv, NEW l \in Loops,
         FetchAccess(l) \/ FetchQuota(l)
  PROVE  BoundInv'
<1> DEFINE j == job[l]
           r == j.request
           p == j.profile.content
<1>1. /\ j \in Jobs /\ JobOK(j, cells) /\ Bound(j, cells)
      /\ j.pc \in {"access", "quota"}
      /\ r.client \in Clients /\ r.method \in RuleNames
  BY RequestsAssumption DEF AccessInv, JobInv, JobOK, BoundInv, FetchAccess,
     FetchQuota, RuleNames
<1>2. GrantsFixed
  BY HandleFixed DEF Handle
<1>3. j.access_rule = RuleFor(p, r.method) /\ j.quota_rule = p.quota
  BY <1>1 DEF Bound, Deciding
<1>4. ASSUME NEW code, Answer(l, code) PROVE BoundInv'
  <2>1. Bears(j, Answered(j, code))
    BY <1>1 DEF Bears, Answered, Jobs, Deciding, Decided
  <2> QED
    BY <1>2, <1>4, <2>1, BearsBound DEF Answer
<1>5. CASE FetchAccess(l)
  <2> DEFINE cell == access_rate[r.client][r.method]
  <2>1. CASE j.access_rule = None
    <3>1. Becomes(l, [j EXCEPT !.pc = "quota"]) /\ j.pc = "access"
      BY <1>5, <2>1 DEF FetchAccess
    <3>2. Bears(j, [j EXCEPT !.pc = "quota"])
      BY <1>1, <2>1, <3>1 DEF Bears, Jobs, Deciding, Decided
    <3> QED
      BY <1>2, <3>1, <3>2, BearsBound
  <2>2. CASE j.access_rule # None /\ cell = None
    BY <1>4, <1>5, <2>2 DEF FetchAccess
  <2>3. CASE j.access_rule # None /\ cell # None
    <3>1. /\ Becomes(l, [j EXCEPT !.pc = "quota",
               !.updates = WithUpdate(j, "Method", cell, j.access_rule, AccessCost)])
          /\ j.pc = "access"
      BY <1>5, <2>3 DEF FetchAccess
    <3>2. /\ cell \in DOMAIN cells /\ cells[cell].client = r.client
          /\ cells[cell].name = NameOf(r, "Method")
      BY <1>1, <2>3 DEF AccessInv, GrantsInv, MapInv, OwnedInv, NameOf
    <3>3. j.access_rule = LimitOf(p, r, "Method") /\ AccessCost = CostOf(r, "Method")
      BY <1>3 DEF LimitOf, CostOf
    <3> HIDE DEF cell
    <3> QED
      BY <1>2, <2>3, <3>1, <3>2, <3>3, UpdatedBound, Zenon DEF Kinds
  <2> QED
    BY <2>1, <2>2, <2>3
<1>6. CASE FetchQuota(l)
  <2> DEFINE cell == quota[r.client]
             free == j.quota_rule = None \/ r.amount = 0
  <2>1. CASE free
    <3>1. Becomes(l, [j EXCEPT !.pc = "lock"]) /\ j.pc = "quota"
      BY <1>6, <2>1 DEF FetchQuota
    <3>2. Bears(j, [j EXCEPT !.pc = "lock"])
      BY <1>1, <2>1, <3>1 DEF Bears, Jobs, Deciding, Decided
    <3> QED
      BY <1>2, <3>1, <3>2, BearsBound
  <2>2. CASE ~free /\ cell = None
    BY <1>4, <1>6, <2>2 DEF FetchQuota
  <2>3. CASE ~free /\ cell # None
    <3>1. /\ Becomes(l, [j EXCEPT !.pc = "lock",
               !.updates = WithUpdate(j, "Quota", cell, j.quota_rule, r.amount)])
          /\ j.pc = "quota"
      BY <1>6, <2>3 DEF FetchQuota
    <3>2. /\ cell \in DOMAIN cells /\ cells[cell].client = r.client
          /\ cells[cell].name = NameOf(r, "Quota")
      BY <1>1, <2>3 DEF AccessInv, GrantsInv, MapInv, OwnedInv, NameOf
    <3>3. /\ j.quota_rule = LimitOf(p, r, "Quota") /\ j.quota_rule # None
          /\ r.amount = CostOf(r, "Quota")
      BY <1>3, <2>3 DEF LimitOf, CostOf
    <3> HIDE DEF cell
    <3> QED
      BY <1>2, <3>1, <3>2, <3>3, UpdatedBound, Zenon DEF Kinds
  <2> QED
    BY <2>1, <2>2, <2>3
<1> QED
  BY <1>5, <1>6

LEMMA HandleBound ==
  ASSUME AccessInv, OwnedInv, BoundInv, NEW l \in Loops, Handle(l)
  PROVE  BoundInv'
<1> DEFINE j == job[l]
<1>1. /\ j \in Jobs /\ JobOK(j, cells) /\ Bound(j, cells)
  BY DEF AccessInv, JobInv, BoundInv
<1>2. GrantsFixed
  BY HandleFixed
<1>3. ASSUME NEW n, Becomes(l, n), Bears(j, n) PROVE BoundInv'
  BY <1>2, <1>3, BearsBound
<1>4. ASSUME NEW code, Answer(l, code) PROVE BoundInv'
  <2>1. Bears(j, Answered(j, code))
    BY <1>1 DEF Bears, Answered, Jobs, Deciding, Decided
  <2> QED
    BY <1>3, <1>4, <2>1 DEF Answer
<1>5. CASE \/ Unauthorized(l) \/ Restricted(l) \/ AnswerUnexecuted(l)
           \/ Succeed(l) \/ Refunded(l)
  BY <1>4, <1>5 DEF Unauthorized, Restricted, AnswerUnexecuted, Succeed, Refunded
<1>6. CASE Authorize(l)
  BY <1>6, AuthorizeBound
<1>7. CASE FetchAccess(l) \/ FetchQuota(l)
  BY <1>7, FetchBound
<1>8. CASE ReadClock(l)
  <2>1. Bears(j, [j EXCEPT !.pc = "access", !.now = clock])
    BY <1>1, <1>8 DEF ReadClock, Bears, Jobs
  <2> QED
    BY <1>3, <1>8, <2>1 DEF ReadClock
<1>9. ASSUME NEW k \in Kinds, Lock(l, k) PROVE BoundInv'
  <2>1. Bears(j, [j EXCEPT !.locked = @ \cup {k}])
    BY <1>1 DEF Bears, Jobs
  <2> QED
    BY <1>3, <1>9, <2>1 DEF Lock
<1>10. CASE Verify(l)
  <2>1. CASE AllCovered(l)
    <3>1. Bears(j, [j EXCEPT !.pc = "debit"])
      BY <1>1, <1>10 DEF Verify, Bears, Jobs, Decided
    <3> QED
      BY <1>3, <1>10, <2>1, <3>1 DEF Verify
  <2>2. CASE ~AllCovered(l)
    BY <1>4, <1>10, <2>2 DEF Verify
  <2> QED
    BY <2>1, <2>2
<1>11. ASSUME NEW k \in Kinds, Debit(l, k) PROVE BoundInv'
  <2>1. Bears(j, [j EXCEPT !.charged = @ \cup {k}])
    BY <1>1 DEF Bears, Jobs
  <2>2. Becomes(l, [j EXCEPT !.charged = @ \cup {k}])
    BY <1>11, DebitInv DEF Debit
  <2> QED
    BY <1>3, <2>1, <2>2
<1>12. ASSUME NEW k \in Kinds, RefundUpdate(l, k) PROVE BoundInv'
  <2>1. Bears(j, [j EXCEPT !.charged = @ \ {k}])
    BY <1>1 DEF Bears, Jobs
  <2> QED
    BY <1>3, <1>12, <2>1 DEF RefundUpdate
<1>13. CASE Admit(l)
  <2>1. Bears(j, [j EXCEPT !.pc = "dispatch", !.locked = {}])
    BY <1>1, <1>13 DEF Admit, Bears, Jobs, Decided
  <2> QED
    BY <1>3, <1>13, <2>1 DEF Admit
<1>14. CASE Start(l) \/ Fail(l)
  <2>1. /\ j.pc = "dispatch" => Bears(j, [j EXCEPT !.pc = "execute"])
        /\ Bears(j, [j EXCEPT !.pc = "refund"])
    BY <1>1 DEF Bears, Jobs, Deciding, Decided
  <2> QED
    BY <1>3, <1>14, <2>1 DEF Start, Fail
<1>15. CASE Respond(l)
  <2>1. Bound(NoJob, cells)
        /\ \A k \in DOMAIN NoJob.updates : NoJob.updates[k].cell \in DOMAIN cells
    BY DEF Bound, NoJob, NoUpdates, Deciding, Decided
  <2> QED
    BY <1>2, <1>15, <2>1, BoundBecomes DEF Respond
<1> QED
  BY <1>5, <1>6, <1>7, <1>8, <1>9, <1>10, <1>11, <1>12, <1>13, <1>14, <1>15
     DEF Handle

(* A counter is put in the maps for the client it was created for.          *)
LEMMA OwnedApply ==
  ASSUME GrantsInv, OwnedInv, NEW t \in Tasks, Apply(t)
  PROVE  OwnedInv'
<1>1. /\ \A i \in DOMAIN cells : cells'[i] = cells[i]
      /\ cells \in Seq(Cells) /\ quota \in [Clients -> Nat \cup {None}]
      /\ access_rate \in [Clients -> [RuleNames -> Nat \cup {None}]]
  BY NewCells DEF GrantsInv, TypeOK
<1>2. /\ \A c \in Clients, m \in RuleNames :
           access_rate[c][m] # None => access_rate[c][m] \in DOMAIN cells
      /\ \A c \in Clients : quota[c] # None => quota[c] \in DOMAIN cells
  BY DEF GrantsInv, MapInv
<1>3. CASE UNCHANGED <<access_rate, quota>>
  BY <1>1, <1>2, <1>3 DEF OwnedInv
<1>4. CASE ClearAccess(t)
  <2>1. /\ access_rate' = [access_rate EXCEPT ![task[t].event.target] = NoCounters]
        /\ quota' = quota
    BY <1>4 DEF ClearAccess
  <2> QED
    BY <1>1, <1>2, <2>1 DEF OwnedInv, NoCounters
<1>5. CASE ClearQuota(t)
  BY <1>1, <1>2, <1>5 DEF ClearQuota, OwnedInv
<1>6. ASSUME NEW m \in RuleNames, InitMethod(t, m) PROVE OwnedInv'
  <2> DEFINE d == task[t].event.target
             n == NewCell(t, m, task[t].event.content.methods[m])
  <2>1. /\ cells' = Append(cells, n) /\ quota' = quota
        /\ access_rate' = [access_rate EXCEPT ![d][m] = Len(cells) + 1]
    BY <1>6 DEF InitMethod
  <2>2. n.client = d
    BY DEF NewCell
  <2>3. cells'[Len(cells) + 1] = n
    BY <1>1, <2>1
  <2> HIDE DEF n, d
  <2>4. ASSUME NEW c \in Clients, NEW k \in RuleNames, access_rate'[c][k] # None
        PROVE  cells'[access_rate'[c][k]].client = c
    <3>1. CASE c = d /\ k = m
      BY <1>1, <2>1, <2>2, <2>3, <3>1
    <3>2. CASE ~(c = d /\ k = m)
      <4>1. access_rate'[c][k] = access_rate[c][k]
        BY <1>1, <2>1, <3>2
      <4> QED
        BY <1>1, <1>2, <2>4, <4>1 DEF OwnedInv
    <3> QED
      BY <3>1, <3>2
  <2> QED
    BY <1>1, <1>2, <2>1, <2>4 DEF OwnedInv
<1>7. CASE InitQuota(t) /\ quota' # quota
  <2> DEFINE d == task[t].event.target
             n == NewCell(t, None, task[t].event.content.quota)
  <2>1. /\ cells' = Append(cells, n) /\ access_rate' = access_rate
        /\ quota' = [quota EXCEPT ![d] = Len(cells) + 1]
    BY <1>7 DEF InitQuota
  <2>2. n.client = d
    BY DEF NewCell
  <2>3. cells'[Len(cells) + 1] = n
    BY <1>1, <2>1
  <2> HIDE DEF n
  <2> QED
    BY <1>1, <1>2, <2>1, <2>2, <2>3 DEF OwnedInv
<1>8. \/ ClearAccess(t) \/ ClearQuota(t) \/ UNCHANGED <<access_rate, quota>>
      \/ \E m \in RuleNames : InitMethod(t, m)
      \/ InitQuota(t) /\ quota' # quota
  BY DEF Apply, StartGrant, Skip, AcceptUnparseable, Accept, Upsert,
     StampCounters, InitQuota, UpsertProfile, storeVars
<1> QED
  BY <1>3, <1>4, <1>5, <1>6, <1>7, <1>8

ChargeInv == AccessInv /\ OwnedInv /\ BoundInv

LEMMA ChargeInvInit == Init => ChargeInv
<1> SUFFICES ASSUME Init PROVE ChargeInv
  OBVIOUS
<1>1. OwnedInv
  <2>1. \A c \in Clients, m \in RuleNames : access_rate[c][m] = None
    BY DEF Init, GrantsInit, NoAccessRate, NoCounters
  <2>2. \A c \in Clients : quota[c] = None
    BY DEF Init, GrantsInit, NoQuota
  <2> QED
    BY <2>1, <2>2 DEF OwnedInv
<1>2. BoundInv
  BY DEF Init, BoundInv, Bound, NoJob, NoUpdates, Deciding, Decided
<1> QED
  BY <1>1, <1>2, AccessInitInv DEF ChargeInv

LEMMA ChargeInvStep == ChargeInv /\ [Next]_vars => ChargeInv'
<1> SUFFICES ASSUME AccessInv, OwnedInv, BoundInv, [Next]_vars
             PROVE  OwnedInv' /\ BoundInv'
  BY AccessStep DEF ChargeInv
<1>1. CASE Environment
  <2>1. cells' = cells /\ job' = job /\ UNCHANGED <<access_rate, quota>>
    BY <1>1, EnvironmentInv
    DEF Environment, Tick, Relay, Publish, Deliver, Poll, storeVars, AccessInv
  <2> QED
    BY <2>1, BoundKept DEF OwnedInv
<1>2. CASE RestartService
  <2>1. OwnedInv'
    <3>1. \A c \in Clients, m \in RuleNames : access_rate'[c][m] = None
      BY <1>2 DEF RestartService, Restart, NoAccessRate, NoCounters
    <3>2. \A c \in Clients : quota'[c] = None
      BY <1>2 DEF RestartService, Restart, NoQuota
    <3> QED
      BY <3>1, <3>2 DEF OwnedInv
  <2>2. BoundInv'
    BY <1>2 DEF RestartService, BoundInv, Bound, NoJob, NoUpdates, Deciding, Decided
  <2> QED
    BY <2>1, <2>2
<1>3. ASSUME NEW t \in Tasks, ApplyGrant(t) PROVE OwnedInv' /\ BoundInv'
  <2>1. Apply(t) /\ job' = job /\ GrantsInv
    BY <1>3 DEF ApplyGrant, AccessInv
  <2>2. \A i \in DOMAIN cells : cells'[i] = cells[i]
    BY <2>1, NewCells
  <2> QED
    BY <2>1, <2>2, OwnedApply, BoundKept
<1>4. ASSUME NEW l \in Loops, Handle(l) PROVE OwnedInv' /\ BoundInv'
  BY <1>4, HandleFixed, OwnedFixed, HandleBound DEF AccessInv
<1>5. ASSUME NEW l \in Loops, NEW r \in pending, Receive(l, r)
      PROVE  OwnedInv' /\ BoundInv'
  <2> DEFINE n == [NoJob EXCEPT !.pc = "profile", !.request = r]
  <2>1. Becomes(l, n) /\ GrantsFixed
    BY <1>5 DEF Receive, grantVars, GrantsFixed, SameFor
  <2>2. n.pc = "profile" /\ DOMAIN n.updates = {}
    BY DEF NoJob, NoUpdates
  <2> HIDE DEF n
  <2>3. /\ Bound(n, cells)
        /\ \A k \in DOMAIN n.updates : n.updates[k].cell \in DOMAIN cells
    BY <2>2 DEF Bound, Deciding, Decided
  <2> QED
    BY <2>1, <2>3, OwnedFixed, BoundBecomes DEF AccessInv
<1>6. CASE UNCHANGED vars
  <2>1. cells' = cells /\ job' = job /\ UNCHANGED <<access_rate, quota>>
    BY <1>6 DEF vars, grantVars
  <2> QED
    BY <2>1, BoundKept DEF OwnedInv
<1> QED
  BY <1>1, <1>2, <1>3, <1>4, <1>5, <1>6 DEF Next

(* With any number of loops, and whatever grants replace one another, a     *)
(* request that is admitted has been charged for every limit that applies   *)
(* to it in the profile it was authorized by, and for no other, at its      *)
(* price and from counters of its own client and kind (verify_access,       *)
(* lib.rs:289-367).                                                         *)
THEOREM AdmittedCharged == Spec => []AdmittedIsCharged
<1>1. ASSUME ChargeInv PROVE AdmittedIsCharged
  <2> SUFFICES ASSUME NEW l \in Loops, job[l].pc \in {"dispatch", "execute"}
               PROVE  LET j == job[l] IN
                 /\ j.profile # None /\ Permits(j.profile.content, j.request.method)
                 /\ j.charged = Limits(j)
                 /\ \A k \in j.charged :
                      /\ j.updates[k].amount = CostOf(j.request, k)
                      /\ j.updates[k].rule = LimitOf(j.profile.content, j.request, k)
                      /\ cells[j.updates[k].cell].client = j.request.client
                      /\ cells[j.updates[k].cell].name = NameOf(j.request, k)
    BY DEF AdmittedIsCharged, Limits
  <2>1. Bound(job[l], cells) /\ job[l].charged = DOMAIN job[l].updates
    BY <1>1 DEF ChargeInv, BoundInv, AccessInv, JobInv, JobOK
  <2> QED
    BY <2>1 DEF Bound, Decided
<1> QED
  BY <1>1, ChargeInvInit, ChargeInvStep, PTL DEF Spec

(* What a request that is past its profile has read, and the counters it is *)
(* to update, are those of its client's grant.                              *)
Fits(j, up, cs) ==
  LET c == j.request.client
      p == up[c].content IN
  j.pc # "idle" =>
    /\ j.pc \in Deciding \cup Decided => up[c] # None
    /\ j.pc \in Deciding => /\ Permits(p, j.request.method)
                            /\ j.access_rule = RuleFor(p, j.request.method)
                            /\ j.quota_rule = p.quota
    /\ j.pc \in Decided /\ p.quota # None /\ j.request.amount # 0 =>
         "Quota" \in DOMAIN j.updates
    /\ \A k \in DOMAIN j.updates :
         /\ up[c] # None
         /\ cs[j.updates[k].cell].client = c
         /\ j.updates[k].rule = RuleOf(cs[j.updates[k].cell])
         /\ j.updates[k].amount = IF k = "Quota" THEN j.request.amount
                                  ELSE AccessCost
    /\ \A k \in j.charged : j.updates[k].amount <= MaxI64

FitsInv == \A l \in Loops : Fits(job[l], usage_profiles, cells)

OnlyGrantInv == OnceInv /\ ForceInv /\ OnlyInv /\ FitsInv

(* The profiles that are stored, and what cells were created for, stay.     *)
LEMMA FitsKept ==
  ASSUME AccessInv, FitsInv, job' = job,
         \A c \in Clients : usage_profiles[c] # None =>
           usage_profiles'[c] = usage_profiles[c],
         \A i \in DOMAIN cells : /\ cells'[i].event = cells[i].event
                                 /\ cells'[i].client = cells[i].client
                                 /\ cells'[i].name = cells[i].name
  PROVE  FitsInv'
<1> SUFFICES ASSUME NEW l \in Loops PROVE Fits(job[l], usage_profiles', cells')
  BY DEF FitsInv
<1>1. Fits(job[l], usage_profiles, cells) /\ JobOK(job[l], cells)
  BY DEF FitsInv, AccessInv, JobInv
<1>2. job[l].pc # "idle" => job[l].request.client \in Clients
  BY <1>1, RequestsAssumption DEF JobOK
<1> QED
  BY <1>1, <1>2, Zenon DEF Fits, JobOK, RuleOf

LEMMA FitsBecomes ==
  ASSUME AccessInv, FitsInv, NEW l \in Loops, GrantsFixed, NEW n, Becomes(l, n),
         Fits(n, usage_profiles, cells),
         \A k \in DOMAIN n.updates : n.updates[k].cell \in DOMAIN cells
  PROVE  FitsInv'
<1> SUFFICES ASSUME NEW o \in Loops PROVE Fits(job'[o], usage_profiles, cells')
  BY DEF FitsInv, GrantsFixed
<1>1. /\ job'[l] = n /\ \A a \in Loops : a # l => job'[a] = job[a]
  BY DEF AccessInv, Becomes
<1>2. \A i \in DOMAIN cells : /\ RuleOf(cells'[i]) = RuleOf(cells[i])
                              /\ cells'[i].client = cells[i].client
  BY DEF GrantsFixed, SameFor, RuleOf
<1>3. /\ Fits(job[o], usage_profiles, cells)
      /\ \A k \in DOMAIN job[o].updates : job[o].updates[k].cell \in DOMAIN cells
  BY DEF FitsInv, AccessInv, JobInv, JobOK
<1>4. \A j : /\ Fits(j, usage_profiles, cells)
             /\ \A k \in DOMAIN j.updates : j.updates[k].cell \in DOMAIN cells
             => Fits(j, usage_profiles, cells')
  BY <1>2 DEF Fits
<1> QED
  BY <1>1, <1>3, <1>4

(* A step that goes on with the same updates.                               *)
GoesOn(j, n) ==
  /\ j.pc # "idle" /\ n.request = j.request /\ n.updates = j.updates
  /\ n.pc \in Deciding => /\ j.pc \in Deciding /\ n.access_rule = j.access_rule
                          /\ n.quota_rule = j.quota_rule
  /\ n.pc \in Decided => \/ j.pc \in Decided
                         \/ /\ j.pc = "quota"
                            /\ j.quota_rule = None \/ j.request.amount = 0
  /\ \A k \in n.charged : k \in j.charged \/ j.updates[k].amount <= MaxI64

LEMMA GoesOnFits ==
  ASSUME AccessInv, FitsInv, NEW l \in Loops, GrantsFixed, NEW n, Becomes(l, n),
         GoesOn(job[l], n)
  PROVE  FitsInv'
<1>1. Fits(job[l], usage_profiles, cells) /\ JobOK(job[l], cells)
  BY DEF FitsInv, AccessInv, JobInv
<1>2. Fits(n, usage_profiles, cells)
  BY <1>1 DEF Fits, GoesOn, Deciding, Decided
<1>3. \A k \in DOMAIN n.updates : n.updates[k].cell \in DOMAIN cells
  BY <1>1 DEF GoesOn, JobOK
<1> QED
  BY <1>2, <1>3, FitsBecomes

LEMMA AuthorizeFits ==
  ASSUME AccessInv, OnlyGrantInv, NEW l \in Loops, Authorize(l)
  PROVE  FitsInv'
<1> DEFINE c == job[l].request.client
           m == job[l].request.method
           e == usage_profiles[c]
           n == [job[l] EXCEPT !.pc = "clock", !.profile = e,
                               !.access_rule = RuleFor(e.content, m),
                               !.quota_rule = e.content.quota]
<1>1. /\ job[l] \in Jobs /\ JobOK(job[l], cells)
      /\ Fits(job[l], usage_profiles, cells) /\ job[l].pc = "profile"
  BY DEF AccessInv, JobInv, OnlyGrantInv, FitsInv, Authorize
<1>2. Becomes(l, n) /\ e # None /\ Permits(e.content, m) /\ GrantsFixed
  BY HandleFixed, Zenon DEF Authorize, Handle
<1>3. /\ n.pc = "clock" /\ n.request = job[l].request
      /\ n.updates = job[l].updates /\ n.charged = job[l].charged
      /\ n.access_rule = RuleFor(e.content, m) /\ n.quota_rule = e.content.quota
  BY <1>1 DEF Jobs
<1> HIDE DEF n
<1>4. Fits(n, usage_profiles, cells)
  BY <1>1, <1>2, <1>3 DEF Fits, Deciding, Decided
<1>5. \A k \in DOMAIN n.updates : n.updates[k].cell \in DOMAIN cells
  BY <1>1, <1>3 DEF JobOK
<1> QED
  BY <1>2, <1>4, <1>5, FitsBecomes DEF OnlyGrantInv

(* A request whose client has a profile: no upsert of that client is under  *)
(* way, and its counters are those of the profile.                          *)
LEMMA InForce ==
  ASSUME AccessInv, OnlyGrantInv, NEW c \in Clients, usage_profiles[c] # None
  PROVE  LET e == usage_profiles[c] IN
         /\ e \in GrantEvents /\ e.target = c /\ IsProfile(e.content)
         /\ AccessOf(c, e, Rated(e.content)) /\ QuotaOf(c, e)
         /\ \A m \in RuleNames : access_rate[c][m] # None =>
              /\ access_rate[c][m] \in DOMAIN cells
              /\ cells[access_rate[c][m]].client = c
              /\ RuleOf(cells[access_rate[c][m]]) = e.content.methods[m]
              /\ m \in DOMAIN e.content.methods /\ e.content.methods # None
         /\ quota[c] # None =>
              /\ quota[c] \in DOMAIN cells
              /\ cells[quota[c]].client = c
              /\ RuleOf(cells[quota[c]]) = e.content.quota
<1> DEFINE e == usage_profiles[c]
<1>1. e \in GrantEvents /\ IsProfile(e.content) /\ e.target = c
  BY DEF AccessInv, ProfileInv, OnlyGrantInv, OnlyInv
<1>2. ~Applying(c)
  BY DEF OnlyGrantInv, OnlyInv, Applying, Busy
<1>3. AccessOf(c, e, Rated(e.content)) /\ QuotaOf(c, e)
  BY <1>2 DEF OnlyGrantInv, ForceInv, CountersMatchProfile
<1>4. \A i \in DOMAIN cells : cells[i].client = cells[i].event.target
  BY DEF OnlyGrantInv, OnceInv
<1>5. \A m \in RuleNames : access_rate[c][m] # None =>
        /\ access_rate[c][m] \in DOMAIN cells /\ m \in Rated(e.content)
        /\ cells[access_rate[c][m]].name = m /\ m # None
        /\ cells[access_rate[c][m]].event = e
  BY <1>3, NoneAssumption DEF AccessOf, AccessInv, GrantsInv, MapInv
<1>6. quota[c] # None => /\ quota[c] \in DOMAIN cells
                         /\ cells[quota[c]].name = None
                         /\ cells[quota[c]].event = e
  BY <1>3 DEF QuotaOf, AccessInv, GrantsInv, MapInv
<1> HIDE DEF e
<1>7. \A m \in RuleNames : access_rate[c][m] # None =>
        /\ access_rate[c][m] \in DOMAIN cells
        /\ cells[access_rate[c][m]].client = c
        /\ RuleOf(cells[access_rate[c][m]]) = e.content.methods[m]
        /\ m \in DOMAIN e.content.methods /\ e.content.methods # None
  BY <1>1, <1>4, <1>5 DEF RuleOf, Rated
<1>8. quota[c] # None =>
        /\ quota[c] \in DOMAIN cells
        /\ cells[quota[c]].client = c
        /\ RuleOf(cells[quota[c]]) = e.content.quota
  BY <1>1, <1>4, <1>6 DEF RuleOf
<1> QED
  BY <1>1, <1>3, <1>7, <1>8 DEF e

LEMMA UpdatedFits ==
  ASSUME AccessInv, OnlyGrantInv, NEW l \in Loops, NEW pc \in {"quota", "lock"},
         NEW kind \in Kinds, NEW cell \in DOMAIN cells, NEW rule, NEW amount,
         job[l].pc = IF kind = "Method" THEN "access" ELSE "quota",
         pc = IF kind = "Method" THEN "quota" ELSE "lock",
         rule = RuleOf(cells[cell]), cells[cell].client = job[l].request.client,
         amount = IF kind = "Quota" THEN job[l].request.amount ELSE AccessCost,
         Becomes(l, [job[l] EXCEPT !.pc = pc,
                       !.updates = WithUpdate(job[l], kind, cell, rule, amount)]),
         GrantsFixed
  PROVE  FitsInv'
<1> DEFINE j == job[l]
           u == WithUpdate(j, kind, cell, rule, amount)
           n == [j EXCEPT !.pc = pc, !.updates = u]
           v == [cell |-> cell, rule |-> rule, amount |-> amount]
<1>1. /\ j \in Jobs /\ JobOK(j, cells) /\ Fits(j, usage_profiles, cells)
      /\ j.charged = {}
  BY DEF AccessInv, JobInv, OnlyGrantInv, FitsInv, JobOK, Early, Kinds
<1>2. u = [k \in DOMAIN j.updates \cup {kind} |->
             IF k = kind THEN v ELSE j.updates[k]]
  BY DEF WithUpdate
<1>3. v.rule = rule /\ v.cell = cell /\ v.amount = amount
  OBVIOUS
<1> HIDE DEF v, u
<1>4. /\ DOMAIN u = DOMAIN j.updates \cup {kind}
      /\ \A k \in DOMAIN u : u[k] = IF k = kind THEN v ELSE j.updates[k]
  BY <1>2
<1>5. /\ n.pc = pc /\ n.updates = u /\ n.charged = {} /\ n.request = j.request
      /\ n.access_rule = j.access_rule /\ n.quota_rule = j.quota_rule
  BY <1>1 DEF Jobs
<1>6. Becomes(l, n)
  BY DEF u
<1> HIDE DEF n
<1>a. /\ j.pc = IF kind = "Method" THEN "access" ELSE "quota"
      /\ kind \in {"Method", "Quota"}
      /\ cells[cell].client = j.request.client
      /\ amount = IF kind = "Quota" THEN j.request.amount ELSE AccessCost
  BY DEF Kinds
<1> HIDE DEF j
<1>b. j.pc # "idle" /\ j.pc \in Deciding
  BY <1>a DEF Deciding
<1>c. \A k \in DOMAIN n.updates :
        /\ usage_profiles[n.request.client] # None
        /\ cells[n.updates[k].cell].client = n.request.client
        /\ n.updates[k].rule = RuleOf(cells[n.updates[k].cell])
        /\ n.updates[k].amount = IF k = "Quota" THEN n.request.amount
                                 ELSE AccessCost
  BY <1>1, <1>3, <1>4, <1>5, <1>a, <1>b DEF Fits
<1>7. Fits(n, usage_profiles, cells)
  BY <1>1, <1>4, <1>5, <1>a, <1>b, <1>c DEF Fits, Deciding, Decided
<1>8. \A k \in DOMAIN n.updates : n.updates[k].cell \in DOMAIN cells
  BY <1>1, <1>3, <1>4, <1>5 DEF JobOK
<1> QED
  BY <1>6, <1>7, <1>8, FitsBecomes DEF OnlyGrantInv

LEMMA FetchFits ==
  ASSUME AccessInv, OnlyGrantInv, NEW l \in Loops, FetchAccess(l) \/ FetchQuota(l)
  PROVE  FitsInv'
<1> DEFINE j == job[l]
           c == j.request.client
           p == usage_profiles[c].content
<1>1. /\ j \in Jobs /\ JobOK(j, cells) /\ j.pc \in {"access", "quota"}
      /\ Fits(j, usage_profiles, cells) /\ FitsInv
  BY DEF AccessInv, JobInv, OnlyGrantInv, FitsInv, FetchAccess, FetchQuota
<1>2. GrantsFixed
  BY HandleFixed DEF Handle
<1>3. c \in Clients /\ j.request.method \in RuleNames /\ usage_profiles[c] # None
  BY <1>1, RequestsAssumption DEF JobOK, Fits, Deciding, RuleNames
<1>4. /\ j.access_rule = RuleFor(p, j.request.method) /\ j.quota_rule = p.quota
      /\ j.charged = {}
  BY <1>1 DEF Fits, Deciding, JobOK, Early
<1>5. ASSUME NEW code, Answer(l, code) PROVE FitsInv'
  <2>1. GoesOn(j, Answered(j, code))
    BY <1>1, <1>4 DEF GoesOn, Answered, Jobs, Deciding, Decided
  <2> QED
    BY <1>1, <1>2, <1>5, <2>1, GoesOnFits DEF Answer
<1>6. CASE FetchAccess(l)
  <2> DEFINE cell == access_rate[c][j.request.method]
  <2>1. CASE j.access_rule = None
    <3>1. Becomes(l, [j EXCEPT !.pc = "quota"]) /\ j.pc = "access"
      BY <1>6, <2>1 DEF FetchAccess
    <3>2. GoesOn(j, [j EXCEPT !.pc = "quota"])
      BY <1>1, <3>1 DEF GoesOn, Jobs, Deciding, Decided
    <3> QED
      BY <1>1, <1>2, <3>1, <3>2, GoesOnFits
  <2>2. CASE j.access_rule # None /\ cell = None
    BY <1>5, <1>6, <2>2 DEF FetchAccess
  <2>3. CASE j.access_rule # None /\ cell # None
    <3>1. /\ Becomes(l, [j EXCEPT !.pc = "quota",
               !.updates = WithUpdate(j, "Method", cell, j.access_rule, AccessCost)])
          /\ j.pc = "access"
      BY <1>6, <2>3 DEF FetchAccess
    <3>2. /\ cell \in DOMAIN cells /\ cells[cell].client = c
          /\ RuleOf(cells[cell]) = p.methods[j.request.method]
          /\ j.request.method \in DOMAIN p.methods /\ p.methods # None
      BY <1>3, <2>3, InForce
    <3>3. j.access_rule = RuleOf(cells[cell])
      BY <1>4, <3>2 DEF RuleFor
    <3> HIDE DEF cell
    <3> QED
      BY <1>2, <3>1, <3>2, <3>3, UpdatedFits, Zenon DEF Kinds
  <2> QED
    BY <2>1, <2>2, <2>3
<1>7. CASE FetchQuota(l)
  <2> DEFINE cell == quota[c]
             free == j.quota_rule = None \/ j.request.amount = 0
  <2>1. CASE free
    <3>1. Becomes(l, [j EXCEPT !.pc = "lock"]) /\ j.pc = "quota"
      BY <1>7, <2>1 DEF FetchQuota
    <3>2. GoesOn(j, [j EXCEPT !.pc = "lock"])
      BY <1>1, <2>1, <3>1 DEF GoesOn, Jobs, Deciding, Decided
    <3> QED
      BY <1>1, <1>2, <3>1, <3>2, GoesOnFits
  <2>2. CASE ~free /\ cell = None
    BY <1>5, <1>7, <2>2 DEF FetchQuota
  <2>3. CASE ~free /\ cell # None
    <3>1. /\ Becomes(l, [j EXCEPT !.pc = "lock",
               !.updates = WithUpdate(j, "Quota", cell, j.quota_rule,
                                      j.request.amount)])
          /\ j.pc = "quota"
      BY <1>7, <2>3 DEF FetchQuota
    <3>2. /\ cell \in DOMAIN cells /\ cells[cell].client = c
          /\ RuleOf(cells[cell]) = p.quota
      BY <1>3, <2>3, InForce
    <3>3. j.quota_rule = RuleOf(cells[cell])
      BY <1>4, <3>2
    <3> HIDE DEF cell
    <3> QED
      BY <1>2, <3>1, <3>2, <3>3, UpdatedFits, Zenon DEF Kinds
  <2> QED
    BY <2>1, <2>2, <2>3
<1> QED
  BY <1>6, <1>7

LEMMA HandleFits ==
  ASSUME AccessInv, OnlyGrantInv, NEW l \in Loops, Handle(l)
  PROVE  FitsInv'
<1> DEFINE j == job[l]
<1>1. /\ j \in Jobs /\ JobOK(j, cells) /\ Fits(j, usage_profiles, cells) /\ FitsInv
  BY DEF AccessInv, JobInv, OnlyGrantInv, FitsInv
<1>2. GrantsFixed
  BY HandleFixed
<1>3. ASSUME NEW n, Becomes(l, n), GoesOn(j, n) PROVE FitsInv'
  BY <1>1, <1>2, <1>3, GoesOnFits
<1>4. ASSUME NEW code, Answer(l, code), j.pc # "idle" PROVE FitsInv'
  <2>1. GoesOn(j, Answered(j, code))
    BY <1>1, <1>4 DEF GoesOn, Answered, Jobs, Deciding, Decided
  <2> QED
    BY <1>3, <1>4, <2>1 DEF Answer
<1>5. CASE \/ Unauthorized(l) \/ Restricted(l) \/ AnswerUnexecuted(l)
           \/ Succeed(l) \/ Refunded(l)
  BY <1>4, <1>5 DEF Unauthorized, Restricted, AnswerUnexecuted, Succeed, Refunded
<1>6. CASE Authorize(l)
  BY <1>6, AuthorizeFits
<1>7. CASE FetchAccess(l) \/ FetchQuota(l)
  BY <1>7, FetchFits
<1>8. CASE ReadClock(l)
  <2>1. GoesOn(j, [j EXCEPT !.pc = "access", !.now = clock])
    BY <1>1, <1>8 DEF ReadClock, GoesOn, Jobs, Deciding, Decided
  <2> QED
    BY <1>3, <1>8, <2>1 DEF ReadClock
<1>9. ASSUME NEW k \in Kinds, Lock(l, k) PROVE FitsInv'
  <2>1. GoesOn(j, [j EXCEPT !.locked = @ \cup {k}])
    BY <1>1, <1>9 DEF Lock, GoesOn, Jobs, Deciding, Decided
  <2> QED
    BY <1>3, <1>9, <2>1 DEF Lock
<1>10. CASE Verify(l)
  <2>1. CASE AllCovered(l)
    <3>1. GoesOn(j, [j EXCEPT !.pc = "debit"])
      BY <1>1, <1>10 DEF Verify, GoesOn, Jobs, Deciding, Decided
    <3> QED
      BY <1>3, <1>10, <2>1, <3>1 DEF Verify
  <2>2. CASE ~AllCovered(l)
    BY <1>4, <1>10, <2>2 DEF Verify
  <2> QED
    BY <2>1, <2>2
<1>11. ASSUME NEW k \in Kinds, Debit(l, k) PROVE FitsInv'
  <2>1. Verdict(l, k) = "Ok" /\ j.pc = "debit" /\ k \in DOMAIN j.updates
    BY <1>11, DebitInv DEF Debit, Undebited
  <2>2. ~(j.updates[k].amount > MaxI64)
    BY <2>1 DEF Verdict, CheckWithdraw
  <2>3. j.updates[k].amount <= MaxI64
    BY <1>1, <2>1, <2>2, JobFields, WidthAssumption DEF Amounts
  <2>4. Becomes(l, [j EXCEPT !.charged = @ \cup {k}])
    BY <1>11, <2>1 DEF Debit
  <2>5. GoesOn(j, [j EXCEPT !.charged = @ \cup {k}])
    BY <1>1, <2>1, <2>3 DEF GoesOn, Jobs, Deciding, Decided
  <2> QED
    BY <1>3, <2>4, <2>5
<1>12. ASSUME NEW k \in Kinds, RefundUpdate(l, k) PROVE FitsInv'
  <2>1. GoesOn(j, [j EXCEPT !.charged = @ \ {k}])
    BY <1>1, <1>12 DEF RefundUpdate, GoesOn, Jobs, Deciding, Decided
  <2> QED
    BY <1>3, <1>12, <2>1 DEF RefundUpdate
<1>13. CASE Admit(l)
  <2>1. GoesOn(j, [j EXCEPT !.pc = "dispatch", !.locked = {}])
    BY <1>1, <1>13 DEF Admit, GoesOn, Jobs, Deciding, Decided
  <2> QED
    BY <1>3, <1>13, <2>1 DEF Admit
<1>14. CASE Start(l)
  <2>1. GoesOn(j, [j EXCEPT !.pc = "execute"])
    BY <1>1, <1>14 DEF Start, GoesOn, Jobs, Deciding, Decided
  <2> QED
    BY <1>3, <1>14, <2>1 DEF Start
<1>15. CASE Fail(l)
  <2>1. GoesOn(j, [j EXCEPT !.pc = "refund"])
    BY <1>1, <1>15 DEF Fail, GoesOn, Jobs, Deciding, Decided
  <2> QED
    BY <1>3, <1>15, <2>1 DEF Fail
<1>16. CASE Respond(l)
  <2>1. Fits(NoJob, usage_profiles, cells)
        /\ \A k \in DOMAIN NoJob.updates : NoJob.updates[k].cell \in DOMAIN cells
    BY DEF Fits, NoJob, NoUpdates
  <2> QED
    BY <1>1, <1>2, <1>16, <2>1, FitsBecomes DEF Respond
<1> QED
  BY <1>5, <1>6, <1>7, <1>8, <1>9, <1>10, <1>11, <1>12, <1>13, <1>14, <1>15,
     <1>16 DEF Handle

(* With one grant for each client, the invariant of its counters and its    *)
(* requests is inductive.                                                   *)
LEMMA OnlyGrantStep ==
  ASSUME OneGrantEach, AccessInv, OnlyGrantInv, [Next]_vars
  PROVE  OnlyGrantInv'
<1>1. GrantsInv /\ OnceInv /\ ForceInv /\ OnlyInv /\ FitsInv /\ ProfileInv /\ AccessInv'
  BY AccessStep DEF AccessInv, OnlyGrantInv
<1>2. ASSUME GrantsFixed PROVE OnceInv' /\ ForceInv' /\ OnlyInv'
  BY <1>1, <1>2, FixedOnce
<1>3. ASSUME GrantsFixed, job' = job PROVE OnlyGrantInv'
  <2>1. FitsInv'
    BY <1>1, <1>3, FitsKept DEF GrantsFixed, SameFor
  <2> QED
    BY <1>2, <1>3, <2>1 DEF OnlyGrantInv
<1>4. CASE UNCHANGED vars \/ Environment
  <2>1. GrantsFixed /\ job' = job
    BY <1>4 DEF vars, grantVars, Environment, Tick, Relay, Publish, Deliver,
       Poll, storeVars, GrantsFixed, SameFor
  <2> QED
    BY <1>3, <2>1
<1>5. CASE RestartService
  <2>1. /\ \A l \in Loops : job'[l] = NoJob
        /\ \A t \in Tasks : task'[t].pc = "idle"
        /\ \A c \in Clients : usage_profiles'[c] = None /\ applied'[c] = None
        /\ cells' = <<>>
    BY <1>5 DEF RestartService, Restart, NoTask, Idle, NoGrant
  <2>2. FitsInv'
    BY <2>1 DEF FitsInv, Fits, NoJob
  <2>3. OnceInv' /\ ForceInv' /\ OnlyInv'
    BY <2>1 DEF OnceInv, ForceInv, OnlyInv, Busy, CountersOncePerGrant,
       CountersMatchProfile
  <2> QED
    BY <2>2, <2>3 DEF OnlyGrantInv
<1>6. ASSUME NEW t \in Tasks, ApplyGrant(t) PROVE OnlyGrantInv'
  <2>1. Apply(t) /\ job' = job
    BY <1>6 DEF ApplyGrant
  <2>2. GrantsInv' /\ CellsGrow
    BY <1>1, <2>1, ApplyInv
  <2>3. OnceInv'
    BY <1>1, <2>1, GrantsOnce DEF GrantsNext
  <2>4. OneAtATime /\ OneAtATime'
    <3>1. OneAtATime
      BY <1>1, OneGrantOne
    <3>2. \A u \in Tasks : Busy(u)' => /\ task'[u].event \in GrantEvents
                                       /\ task'[u].event.target # None
      BY <2>2, NoneAssumption DEF GrantsInv, TaskInv, Busy
    <3>3. OneAtATime'
      BY <2>3, <3>2 DEF OneGrantEach, OnceInv, OneAtATime, Busy
    <3> QED
      BY <3>1, <3>3
  <2>5. ForceInv'
    BY <1>1, <2>1, <2>4, GrantsForce DEF GrantsNext
  <2>6. /\ OnlyInv'
        /\ \A c \in Clients : usage_profiles[c] # None =>
              usage_profiles'[c] = usage_profiles[c]
    BY <1>1, <2>1, ApplyOnly
  <2>7. FitsInv'
    BY <1>1, <2>1, <2>2, <2>6, FitsKept DEF CellsGrow
  <2> QED
    BY <2>3, <2>5, <2>6, <2>7 DEF OnlyGrantInv
<1>7. ASSUME NEW l \in Loops, Handle(l) PROVE OnlyGrantInv'
  <2>1. GrantsFixed /\ FitsInv'
    BY <1>7, HandleFixed, HandleFits
  <2> QED
    BY <1>2, <2>1 DEF OnlyGrantInv
<1>8. ASSUME NEW l \in Loops, NEW r \in pending, Receive(l, r) PROVE OnlyGrantInv'
  <2> DEFINE n == [NoJob EXCEPT !.pc = "profile", !.request = r]
  <2>1. GrantsFixed /\ Becomes(l, n)
    BY <1>8 DEF Receive, grantVars, GrantsFixed, SameFor
  <2>2. n.pc = "profile" /\ n.updates = NoUpdates /\ n.charged = {}
    BY DEF NoJob
  <2> HIDE DEF n
  <2>3. Fits(n, usage_profiles, cells) /\ DOMAIN n.updates = {}
    BY <2>2 DEF Fits, Deciding, Decided, NoUpdates
  <2>4. FitsInv'
    BY <1>1, <2>1, <2>3, FitsBecomes
  <2> QED
    BY <1>2, <2>1, <2>4 DEF OnlyGrantInv
<1> QED
  BY <1>4, <1>5, <1>6, <1>7, <1>8 DEF Next

LEMMA OnlyGrantInit == Init => OnlyGrantInv
<1> SUFFICES ASSUME Init PROVE OnlyGrantInv
  OBVIOUS
<1>1. /\ \A l \in Loops : job[l] = NoJob
      /\ \A t \in Tasks : task[t].pc = "idle"
      /\ \A c \in Clients : usage_profiles[c] = None /\ applied[c] = None
      /\ cells = <<>>
  BY DEF Init, GrantsInit, NoTask, Idle, NoGrant
<1>2. FitsInv
  BY <1>1 DEF FitsInv, Fits, NoJob
<1>3. OnceInv /\ ForceInv /\ OnlyInv
  BY <1>1 DEF OnceInv, ForceInv, OnlyInv, Busy, CountersOncePerGrant,
     CountersMatchProfile
<1> QED
  BY <1>2, <1>3 DEF OnlyGrantInv

----------------------------------------------------------------------------
(* No counter is missing.                                                  *)

(* No grant puts a rate under the method key "ALL": a request that falls    *)
(* back on it looks for a counter of its own method, which does not exist.  *)
AllUnrated ==
  \A e \in GrantEvents :
    IsProfile(e.content) /\ e.content.methods # None =>
      (ALL \in DOMAIN e.content.methods => e.content.methods[ALL] = None)

LEMMA NothingMissing ==
  ASSUME AllUnrated, AccessInv, OnlyGrantInv, NEW l \in Loops
  PROVE  /\ FetchAccess(l) /\ job[l].access_rule # None =>
              access_rate[job[l].request.client][job[l].request.method] # None
         /\ FetchQuota(l) /\ job[l].quota_rule # None =>
              quota[job[l].request.client] # None
<1> DEFINE j == job[l]
           c == j.request.client
           m == j.request.method
           e == usage_profiles[c]
           p == e.content
<1> SUFFICES ASSUME FetchAccess(l) \/ FetchQuota(l)
             PROVE  /\ j.pc = "access" /\ j.access_rule # None => access_rate[c][m] # None
                    /\ j.pc = "quota" /\ j.quota_rule # None => quota[c] # None
  BY DEF FetchAccess, FetchQuota
<1>1. /\ JobOK(j, cells) /\ j.pc \in {"access", "quota"}
      /\ Fits(j, usage_profiles, cells)
  BY DEF AccessInv, JobInv, OnlyGrantInv, FitsInv, FetchAccess, FetchQuota
<1>2. c \in Clients /\ m \in RuleNames /\ e # None
  BY <1>1, RequestsAssumption DEF JobOK, Fits, Deciding, RuleNames
<1>3. /\ Permits(p, m) /\ j.access_rule = RuleFor(p, m) /\ j.quota_rule = p.quota
  BY <1>1 DEF Fits, Deciding
<1>4. /\ e \in GrantEvents /\ IsProfile(p)
      /\ AccessOf(c, e, Rated(p)) /\ QuotaOf(c, e)
  BY <1>2, InForce
<1>5. p.methods # None /\ ALL \in DOMAIN p.methods => p.methods[ALL] = None
  BY <1>4 DEF AllUnrated
<1>6. RuleFor(p, m) # None => m \in Rated(p)
  BY <1>3, <1>5, Zenon DEF RuleFor, Permits, Rated
<1> QED
  BY <1>2, <1>3, <1>4, <1>6, Zenon DEF AccessOf, QuotaOf

LEMMA HandleMissing ==
  ASSUME AllUnrated, AccessInv, OnlyGrantInv, NeverMissingState,
         NEW l \in Loops, Handle(l)
  PROVE  NeverMissingState'
<1> DEFINE j == job[l]
<1>1. j \in Jobs /\ j.outcome # "MISSING_STATE" /\ job \in [Loops -> Jobs]
  BY DEF AccessInv, NeverMissingState
<1>2. ASSUME NEW n, Becomes(l, n), n.outcome # "MISSING_STATE"
      PROVE  NeverMissingState'
  BY <1>1, <1>2 DEF Becomes, NeverMissingState
<1>3. ASSUME NEW code, Answer(l, code), code # "MISSING_STATE"
      PROVE  NeverMissingState'
  <2>1. Answered(j, code).outcome = code
    BY <1>1 DEF Answered, Jobs
  <2> QED
    BY <1>2, <1>3, <2>1 DEF Answer
<1>4. CASE \/ Unauthorized(l) \/ Restricted(l) \/ AnswerUnexecuted(l)
           \/ Succeed(l) \/ Refunded(l)
  <2>1. \E code \in {"UNAUTHORIZED", "RESTRICTED", "NOT_IMPLEMENTED", "OK",
                     "INVALID", "FAILED"} : Answer(l, code)
    BY <1>4 DEF Unauthorized, Restricted, AnswerUnexecuted, UnexecutedCode,
       Succeed, Refunded
  <2> QED
    BY <1>3, <2>1
<1>5. CASE FetchAccess(l)
  <2>1. j.access_rule # None =>
          access_rate[j.request.client][j.request.method] # None
    BY <1>5, NothingMissing
  <2>2. \/ Becomes(l, [j EXCEPT !.pc = "quota"])
        \/ \E u : Becomes(l, [j EXCEPT !.pc = "quota", !.updates = u])
    BY <1>5, <2>1 DEF FetchAccess
  <2>3. /\ [j EXCEPT !.pc = "quota"].outcome = j.outcome
        /\ \A u : [j EXCEPT !.pc = "quota", !.updates = u].outcome = j.outcome
    BY <1>1 DEF Jobs
  <2> QED
    BY <1>1, <1>2, <2>2, <2>3
<1>6. CASE FetchQuota(l)
  <2>1. j.quota_rule # None => quota[j.request.client] # None
    BY <1>6, NothingMissing
  <2>2. \/ Becomes(l, [j EXCEPT !.pc = "lock"])
        \/ \E u : Becomes(l, [j EXCEPT !.pc = "lock", !.updates = u])
    BY <1>6, <2>1 DEF FetchQuota
  <2>3. /\ [j EXCEPT !.pc = "lock"].outcome = j.outcome
        /\ \A u : [j EXCEPT !.pc = "lock", !.updates = u].outcome = j.outcome
    BY <1>1 DEF Jobs
  <2> QED
    BY <1>1, <1>2, <2>2, <2>3
<1>7. CASE \/ Authorize(l) \/ ReadClock(l) \/ Admit(l) \/ Start(l) \/ Fail(l)
           \/ \E k \in Kinds : Lock(l, k) \/ RefundUpdate(l, k)
  <2>1. \/ \E e, a, q : Becomes(l, [j EXCEPT !.pc = "clock", !.profile = e,
                                         !.access_rule = a, !.quota_rule = q])
        \/ \E n : Becomes(l, [j EXCEPT !.pc = "access", !.now = n])
        \/ Becomes(l, [j EXCEPT !.pc = "dispatch", !.locked = {}])
        \/ \E s : Becomes(l, [j EXCEPT !.pc = s])
        \/ \E k : Becomes(l, [j EXCEPT !.locked = @ \cup {k}])
        \/ \E k : Becomes(l, [j EXCEPT !.charged = @ \ {k}])
    <3>1. CASE Authorize(l)
      BY <3>1 DEF Authorize
    <3>2. CASE ReadClock(l) \/ Admit(l)
      BY <3>2 DEF ReadClock, Admit
    <3>3. CASE Start(l) \/ Fail(l)
      BY <3>3 DEF Start, Fail
    <3>4. CASE \E k \in Kinds : Lock(l, k) \/ RefundUpdate(l, k)
      BY <3>4, Zenon DEF Lock, RefundUpdate
    <3> QED
      BY <1>7, <3>1, <3>2, <3>3, <3>4
  <2>2. /\ \A e, a, q : [j EXCEPT !.pc = "clock", !.profile = e, !.access_rule = a,
                                  !.quota_rule = q].outcome = j.outcome
        /\ \A n : [j EXCEPT !.pc = "access", !.now = n].outcome = j.outcome
        /\ [j EXCEPT !.pc = "dispatch", !.locked = {}].outcome = j.outcome
        /\ \A s : [j EXCEPT !.pc = s].outcome = j.outcome
        /\ \A k : [j EXCEPT !.locked = @ \cup {k}].outcome = j.outcome
        /\ \A k : [j EXCEPT !.charged = @ \ {k}].outcome = j.outcome
    BY <1>1 DEF Jobs
  <2>3. ASSUME NEW e, NEW a, NEW q,
               Becomes(l, [j EXCEPT !.pc = "clock", !.profile = e,
                                    !.access_rule = a, !.quota_rule = q])
        PROVE  NeverMissingState'
    <3> DEFINE n == [j EXCEPT !.pc = "clock", !.profile = e,
                              !.access_rule = a, !.quota_rule = q]
    <3>1. n.outcome = j.outcome /\ Becomes(l, n)
      BY <2>2, <2>3
    <3> HIDE DEF n
    <3> QED
      BY <1>1, <1>2, <3>1
  <2> QED
    BY <1>1, <1>2, <2>1, <2>2, <2>3
<1>8. CASE Verify(l) \/ \E k \in Kinds : Debit(l, k)
  <2>1. \/ Answer(l, "OVER_LIMIT")
        \/ Becomes(l, [j EXCEPT !.pc = "debit"])
        \/ \E k : Becomes(l, [j EXCEPT !.charged = @ \cup {k}])
    BY <1>8 DEF Verify, Debit
  <2>2. /\ [j EXCEPT !.pc = "debit"].outcome = j.outcome
        /\ \A k : [j EXCEPT !.charged = @ \cup {k}].outcome = j.outcome
    BY <1>1 DEF Jobs
  <2> QED
    BY <1>1, <1>2, <1>3, <2>1, <2>2
<1>9. CASE Respond(l)
  BY <1>2, <1>9 DEF Respond, NoJob
<1> QED
  BY <1>4, <1>5, <1>6, <1>7, <1>8, <1>9 DEF Handle

(* A client with a single grant, which rates no "ALL", is never told that a *)
(* counter is missing: its profile appears after its counters, and they     *)
(* stay, with any number of loops and pollers that apply grants meanwhile   *)
(* (lib.rs:291-321; usage_profile/service.rs:62-70).                        *)
THEOREM CountersFound ==
  OneGrantEach /\ AllUnrated => (Spec => []NeverMissingState)
<1> SUFFICES ASSUME OneGrantEach, AllUnrated PROVE Spec => []NeverMissingState
  OBVIOUS
<1>1. Init => NeverMissingState
  BY DEF Init, NeverMissingState, NoJob
<1>2. ASSUME AccessInv, OnlyGrantInv, NeverMissingState, [Next]_vars
      PROVE  NeverMissingState'
  <2>1. CASE UNCHANGED vars \/ Environment \/ \E t \in Tasks : ApplyGrant(t)
    BY <1>2, <2>1 DEF vars, Environment, ApplyGrant, NeverMissingState
  <2>2. CASE RestartService
    BY <2>2 DEF RestartService, NeverMissingState, NoJob
  <2>3. ASSUME NEW l \in Loops, NEW r \in pending, Receive(l, r)
        PROVE  NeverMissingState'
    BY <1>2, <2>3 DEF Receive, Becomes, NoJob, NeverMissingState, AccessInv
  <2> QED
    BY <1>2, <2>1, <2>2, <2>3, HandleMissing DEF Next
<1>3. AccessInv /\ OnlyGrantInv /\ [Next]_vars => OnlyGrantInv'
  BY OnlyGrantStep
<1> QED
  BY <1>1, <1>2, <1>3, OnlyGrantInit, AccessInitInv, AccessStep, PTL DEF Spec

----------------------------------------------------------------------------
(* Every token is accounted for.                                           *)

(* A request is handled once at a time, and no longer awaited.              *)
Single ==
  \A l \in Loops : job[l].pc # "idle" =>
    /\ job[l].request \in Requests \ pending
    /\ \A o \in Loops : o # l /\ job[o].pc # "idle" => job[o].request # job[l].request

Concluded == \A l \in Loops : job[l].outcome # "NONE" => job[l].pc = "respond"

(* What a step of a loop may do to its own job.                             *)
Turns(j, k) ==
  /\ j.pc # "idle"
  /\ k.pc # "idle" => k.request = j.request
  /\ k.outcome # "NONE" => k.pc = "respond"
  /\ k.pc = "refund" \/ k.outcome = "FAILED" => j.pc \in {"execute", "refund"}
  /\ k.outcome = "FAILED" => j.pc = "refund"
  /\ k.outcome = "OK" => \/ j.pc = "execute"
                         \/ j.request.method = Subscribe

LEMMA TurnsAnswered ==
  ASSUME NEW j \in Jobs, j.pc # "idle", NEW code \in Outcomes,
         code = "FAILED" => j.pc = "refund",
         code = "OK" => j.pc = "execute" \/ j.request.method = Subscribe
  PROVE  Turns(j, Answered(j, code))
BY DEF Turns, Answered, Jobs

LEMMA TurnsMoved ==
  ASSUME NEW j \in Jobs, NEW k, j.pc # "idle", j.outcome = "NONE",
         k.outcome = "NONE", k.request = j.request,
         k.pc = "refund" => j.pc \in {"execute", "refund"}
  PROVE  Turns(j, k)
BY DEF Turns

LEMMA HandleTurns ==
  ASSUME AccessInv, Concluded, NEW l \in Loops, Handle(l)
  PROVE  \E k : /\ Turns(job[l], k)
                /\ job' = [job EXCEPT ![l] = k] /\ pending' = pending
<1>1. job[l] \in Jobs /\ job \in [Loops -> Jobs]
  BY DEF AccessInv
<1>2. job[l].pc \notin {"idle", "respond"} => job[l].outcome = "NONE"
  BY DEF Concluded
<1>3. ASSUME NEW code \in Outcomes, Answer(l, code), job[l].pc # "idle",
             pending' = pending,
             code = "FAILED" => job[l].pc = "refund",
             code = "OK" => job[l].pc = "execute" \/ job[l].request.method = Subscribe
      PROVE  \E k : /\ Turns(job[l], k)
                    /\ job' = [job EXCEPT ![l] = k] /\ pending' = pending
  BY <1>1, <1>3, TurnsAnswered DEF Answer, Becomes
<1>4. ASSUME NEW k, Becomes(l, k), job[l].pc \notin {"idle", "respond"},
             pending' = pending,
             k.outcome = "NONE", k.request = job[l].request,
             k.pc = "refund" => job[l].pc \in {"execute", "refund"}
      PROVE  \E kk : /\ Turns(job[l], kk)
                     /\ job' = [job EXCEPT ![l] = kk] /\ pending' = pending
  BY <1>1, <1>2, <1>4, TurnsMoved DEF Becomes
<1>5. CASE Unauthorized(l)
  BY <1>3, <1>5 DEF Unauthorized, Outcomes, Refusals
<1>6. CASE Restricted(l)
  BY <1>3, <1>6 DEF Restricted, Outcomes, Refusals
<1>7. CASE Authorize(l)
  BY <1>1, <1>2, <1>4, <1>7 DEF Authorize, Jobs
<1>8. CASE ReadClock(l)
  BY <1>1, <1>2, <1>4, <1>8 DEF ReadClock, Jobs
<1>9. CASE FetchAccess(l)
  BY <1>1, <1>2, <1>3, <1>4, <1>9 DEF FetchAccess, Jobs, Outcomes, Refusals
<1>10. CASE FetchQuota(l)
  BY <1>1, <1>2, <1>3, <1>4, <1>10 DEF FetchQuota, Jobs, Outcomes, Refusals
<1>11. CASE \E k \in Kinds : Lock(l, k)
  BY <1>1, <1>2, <1>4, <1>11 DEF Lock, Jobs
<1>12. CASE \E k \in Kinds : Debit(l, k)
  BY <1>1, <1>2, <1>3, <1>4, <1>12 DEF Debit, Jobs, Outcomes, Refusals
<1>13. CASE \E k \in Kinds : RefundUpdate(l, k)
  BY <1>1, <1>2, <1>4, <1>13 DEF RefundUpdate, Jobs
<1>14. CASE Verify(l)
  BY <1>1, <1>2, <1>3, <1>4, <1>14 DEF Verify, Jobs, Outcomes, Refusals
<1>15. CASE Admit(l)
  BY <1>1, <1>2, <1>4, <1>15 DEF Admit, Jobs
<1>16. CASE AnswerUnexecuted(l)
  BY <1>3, <1>16 DEF AnswerUnexecuted, UnexecutedCode, Outcomes
<1>17. CASE Start(l)
  BY <1>1, <1>2, <1>4, <1>17 DEF Start, Jobs
<1>18. CASE Succeed(l)
  BY <1>3, <1>18 DEF Succeed, Outcomes
<1>19. CASE Fail(l)
  BY <1>1, <1>2, <1>4, <1>19 DEF Fail, Jobs
<1>20. CASE Refunded(l)
  BY <1>3, <1>20 DEF Refunded, Outcomes
<1>21. CASE Respond(l)
  <2>1. Turns(job[l], NoJob)
    BY <1>21 DEF Respond, Turns, NoJob
  <2> QED
    BY <1>21, <2>1 DEF Respond, Becomes
<1> QED
  BY <1>5, <1>6, <1>7, <1>8, <1>9, <1>10, <1>11, <1>12, <1>13, <1>14, <1>15,
     <1>16, <1>17, <1>18, <1>19, <1>20, <1>21 DEF Handle


(* Requests are told apart, whatever the loops do.                          *)
OneHandled == pending \subseteq Requests /\ Single /\ Concluded

LEMMA OneHandledStep ==
  ASSUME AccessInv, OneHandled, [Next]_vars
  PROVE  OneHandled'
<1>1. DOMAIN job = Loops
  BY DEF AccessInv
<1>2. ASSUME UNCHANGED <<pending, job>> PROVE OneHandled'
  BY <1>2 DEF OneHandled, Single, Concluded
<1>3. CASE UNCHANGED vars \/ Environment \/ \E t \in Tasks : ApplyGrant(t)
  BY <1>2, <1>3 DEF vars, Environment, ApplyGrant
<1>4. CASE RestartService
  BY <1>4 DEF RestartService, OneHandled, Single, Concluded, NoJob
<1>5. ASSUME NEW l \in Loops, NEW r \in pending, Receive(l, r) PROVE OneHandled'
  <2> DEFINE k == [NoJob EXCEPT !.pc = "profile", !.request = r]
  <2>1. /\ k.pc = "profile" /\ k.request = r /\ k.outcome = "NONE"
        /\ job[l].pc = "idle" /\ pending' = pending \ {r}
        /\ job' = [job EXCEPT ![l] = k]
    BY <1>5 DEF Receive, Becomes, NoJob
  <2> HIDE DEF k
  <2>2. job'[l] = k /\ \A o \in Loops : o # l => job'[o] = job[o]
    BY <1>1, <2>1
  <2> QED
    BY <2>1, <2>2 DEF OneHandled, Single, Concluded
<1>6. ASSUME NEW l \in Loops, Handle(l) PROVE OneHandled'
  <2>1. PICK k : /\ Turns(job[l], k)
                 /\ job' = [job EXCEPT ![l] = k] /\ pending' = pending
    BY <1>6, HandleTurns DEF OneHandled
  <2>2. job'[l] = k /\ \A o \in Loops : o # l => job'[o] = job[o]
    BY <1>1, <2>1
  <2> QED
    BY <2>1, <2>2 DEF OneHandled, Single, Concluded, Turns
<1> QED
  BY <1>3, <1>4, <1>5, <1>6 DEF Next

LEMMA OneHandledInit == Init => OneHandled
BY DEF Init, OneHandled, Single, Concluded, NoJob

----------------------------------------------------------------------------
(* What a counter has given out covers what is charged to it.               *)

(* The requests that are being handled and have a debit in counter i.       *)
ChargedTo(i, jobs) ==
  {r \in Requests : \E l \in Loops : /\ jobs[l].pc # "idle" /\ jobs[l].request = r
                                     /\ \E k \in jobs[l].charged :
                                          jobs[l].updates[k].cell = i}

(* What each request takes from a cell: its amount from a quota, the cost   *)
(* of a call from a rate.                                                   *)
Price(cell) == [r \in Requests |-> IF cell.name = None THEN r.amount ELSE AccessCost]

(* The counters have given out what these requests, and others whose debits *)
(* are final (`more`, by cell), have taken.                                 *)
Backed(jobs, cs, more) ==
  \A i \in DOMAIN cs :
    SumFunctionOnSet(Price(cs[i]), ChargedTo(i, jobs) \cup more[i]) <= cs[i].spent

LEMMA PriceType ==
  ASSUME NEW cell, NEW R \in SUBSET Requests
  PROVE  /\ \A r \in R : Price(cell)[r] \in Nat
         /\ SumFunctionOnSet(Price(cell), R) \in Nat
         /\ IsFiniteSet(R)
<1>1. \A r \in Requests : r.amount \in Nat /\ AccessCost \in Nat
  BY RequestsAssumption, WidthAssumption DEF Amounts
<1>2. \A r \in R : Price(cell)[r] \in Nat
  BY <1>1 DEF Price
<1>3. IsFiniteSet(R)
  BY FiniteAssumption, FS_Subset
<1> QED
  BY <1>2, <1>3, SumType

LEMMA BackedFewer ==
  ASSUME NEW jobs, NEW js, NEW cs, NEW ds, NEW more, NEW less, Backed(jobs, cs, more),
         DOMAIN ds \subseteq DOMAIN cs,
         \A i \in DOMAIN ds :
           /\ ds[i].name = cs[i].name /\ ds[i].spent = cs[i].spent /\ cs[i].spent \in Int
           /\ more[i] \subseteq Requests
           /\ ChargedTo(i, js) \cup less[i] \subseteq ChargedTo(i, jobs) \cup more[i]
  PROVE  Backed(js, ds, less)
<1> SUFFICES ASSUME NEW i \in DOMAIN ds
             PROVE  SumFunctionOnSet(Price(ds[i]), ChargedTo(i, js) \cup less[i])
                      <= ds[i].spent
  BY DEF Backed
<1> DEFINE S == ChargedTo(i, jobs) \cup more[i]
           T == ChargedTo(i, js) \cup less[i]
           F == Price(cs[i])
<1>1. S \in SUBSET Requests /\ T \in SUBSET S /\ Price(ds[i]) = F
  BY DEF ChargedTo, Price
<1>2. SumFunctionOnSet(F, S) <= cs[i].spent
  BY DEF Backed
<1> HIDE DEF F, S, T
<1>3. /\ SumFunctionOnSet(F, S) \in Nat /\ SumFunctionOnSet(F, T) \in Nat
      /\ SumFunctionOnSet(F, T) <= SumFunctionOnSet(F, S)
  BY <1>1, PriceType, SumOfMore DEF F
<1>4. SumFunctionOnSet(F, T) <= ds[i].spent
  BY <1>2, <1>3
<1> QED
  BY <1>1, <1>4 DEF T

(* One request more, or one less.                                           *)
LEMMA SumOneMore ==
  ASSUME NEW cell, NEW S \in SUBSET Requests, NEW r \in Requests,
         NEW T \in SUBSET (S \cup {r})
  PROVE  SumFunctionOnSet(Price(cell), T)
           <= SumFunctionOnSet(Price(cell), S) + Price(cell)[r]
<1> DEFINE F == Price(cell)
           U == S \cup {r}
<1>1. U \in SUBSET Requests /\ T \in SUBSET U
  OBVIOUS
<1> HIDE DEF F
<1>2. /\ SumFunctionOnSet(F, T) <= SumFunctionOnSet(F, U)
      /\ SumFunctionOnSet(F, T) \in Nat /\ SumFunctionOnSet(F, S) \in Nat
      /\ SumFunctionOnSet(F, U) \in Nat /\ F[r] \in Nat
  <2>1. IsFiniteSet(U) /\ (\A x \in U : F[x] \in Nat)
    BY <1>1, PriceType DEF F
  <2>2. SumFunctionOnSet(F, T) <= SumFunctionOnSet(F, U)
    BY <1>1, <2>1, SumOfMore
  <2> QED
    BY <1>1, <2>1, <2>2, PriceType DEF F
<1>3. CASE r \in S
  <2>1. SumFunctionOnSet(F, T) <= SumFunctionOnSet(F, S)
    <3>1. U = S
      BY <1>3
    <3> QED
      BY <1>2, <3>1
  <2>2. SumFunctionOnSet(F, T) <= SumFunctionOnSet(F, S) + F[r]
    BY <1>2, <2>1
  <2> QED
    BY <2>2 DEF F
<1>4. CASE r \notin S
  <2>1. IsFiniteSet(S) /\ (\A x \in S \cup {r} : F[x] \in Nat)
    BY <1>1, PriceType DEF F
  <2>2. SumFunctionOnSet(F, U) = SumFunctionOnSet(F, S) + F[r]
    BY <1>4, <2>1, SumPutIn
  <2>3. SumFunctionOnSet(F, T) <= SumFunctionOnSet(F, S) + F[r]
    BY <1>2, <2>2
  <2> QED
    BY <2>3 DEF F
<1> QED
  BY <1>3, <1>4

LEMMA SumOneLess ==
  ASSUME NEW cell, NEW S \in SUBSET Requests, NEW r \in S,
         NEW T \in SUBSET (S \ {r})
  PROVE  SumFunctionOnSet(Price(cell), T)
           <= SumFunctionOnSet(Price(cell), S) - Price(cell)[r]
<1> DEFINE F == Price(cell)
           U == S \ {r}
<1>1. U \in SUBSET Requests /\ T \in SUBSET U
  OBVIOUS
<1> HIDE DEF F
<1>2. IsFiniteSet(S) /\ IsFiniteSet(U) /\ (\A x \in S : F[x] \in Nat)
  BY <1>1, PriceType DEF F
<1>3. SumFunctionOnSet(F, S) = F[r] + SumFunctionOnSet(F, U)
  BY <1>2, SumTakeOut
<1>4. SumFunctionOnSet(F, T) <= SumFunctionOnSet(F, U)
  <2>1. \A x \in U : F[x] \in Nat
    BY <1>2
  <2> QED
    BY <1>1, <1>2, <2>1, SumOfMore
<1>5. /\ SumFunctionOnSet(F, T) \in Nat /\ SumFunctionOnSet(F, U) \in Nat
      /\ F[r] \in Nat
  BY <1>1, <1>2, PriceType DEF F
<1>6. SumFunctionOnSet(F, T) <= SumFunctionOnSet(F, S) - F[r]
  BY <1>3, <1>4, <1>5
<1> QED
  BY <1>6 DEF F

LEMMA ChargeBacked ==
  ASSUME AccessInv, NEW i \in DOMAIN cells, NEW s \in Counters, NEW n \in Int,
         Charge(i, s, n), NEW r \in Requests, NEW more, NEW less, NEW js,
         Backed(job, cells, more), \A h \in DOMAIN cells : more[h] \subseteq Requests,
         \A h \in DOMAIN cells : h # i =>
           ChargedTo(h, js) \cup less[h] \subseteq ChargedTo(h, job) \cup more[h],
         LET S == ChargedTo(i, job) \cup more[i]
             T == ChargedTo(i, js) \cup less[i] IN
           \/ n = Price(cells[i])[r] /\ T \subseteq S \cup {r}
           \/ n = -Price(cells[i])[r] /\ r \in S /\ T \subseteq S \ {r}
  PROVE  Backed(js, cells', less)
<1> DEFINE S == ChargedTo(i, job) \cup more[i]
           T == ChargedTo(i, js) \cup less[i]
           F == Price(cells[i])
<1>1. cells \in Seq(Cells)
  BY DEF AccessInv, GrantsInv, TypeOK
<1>2. \A h \in DOMAIN cells : cells[h].spent \in Int
  <2>1. \A h \in DOMAIN cells : cells[h] \in Cells
    BY <1>1
  <2> QED
    BY <2>1 DEF Cells
<1>3. /\ DOMAIN cells' = DOMAIN cells
      /\ \A h \in DOMAIN cells : /\ cells'[h].name = cells[h].name
                                 /\ h # i => cells'[h].spent = cells[h].spent
      /\ cells'[i].spent = cells[i].spent + n
  BY <1>1, ChargedCells
<1>4. ASSUME NEW h \in DOMAIN cells, h # i
      PROVE  SumFunctionOnSet(Price(cells'[h]), ChargedTo(h, js) \cup less[h])
               <= cells'[h].spent
  <2> DEFINE A == ChargedTo(h, job) \cup more[h]
             B == ChargedTo(h, js) \cup less[h]
             G == Price(cells[h])
  <2>1. A \in SUBSET Requests /\ B \in SUBSET A /\ Price(cells'[h]) = G
    BY <1>3, <1>4 DEF ChargedTo, Price
  <2>2. SumFunctionOnSet(G, A) <= cells[h].spent
    BY <1>4 DEF Backed
  <2> HIDE DEF A, B, G
  <2>3. /\ SumFunctionOnSet(G, A) \in Nat /\ SumFunctionOnSet(G, B) \in Nat
        /\ SumFunctionOnSet(G, B) <= SumFunctionOnSet(G, A)
    BY <2>1, PriceType, SumOfMore DEF G
  <2>4. SumFunctionOnSet(G, B) <= cells'[h].spent
    BY <1>2, <1>3, <1>4, <2>2, <2>3
  <2> QED
    BY <2>1, <2>4 DEF B
<1>5. SumFunctionOnSet(Price(cells'[i]), ChargedTo(i, js) \cup less[i])
        <= cells'[i].spent
  <2>1. S \in SUBSET Requests /\ Price(cells'[i]) = F
    BY <1>3 DEF ChargedTo, Price
  <2>2. SumFunctionOnSet(F, S) <= cells[i].spent
    BY DEF Backed
  <2>3. \/ n = F[r] /\ T \in SUBSET (S \cup {r})
        \/ n = -F[r] /\ r \in S /\ T \in SUBSET (S \ {r})
    OBVIOUS
  <2> HIDE DEF S, T, F
  <2>4. T \in SUBSET Requests
    BY <2>1, <2>3
  <2>5. /\ SumFunctionOnSet(F, S) \in Nat /\ SumFunctionOnSet(F, T) \in Nat
        /\ F[r] \in Nat
    <3>1. {r} \in SUBSET Requests /\ r \in {r}
      OBVIOUS
    <3> QED
      BY <2>1, <2>4, <3>1, PriceType DEF F
  <2>6. SumFunctionOnSet(F, T) <= SumFunctionOnSet(F, S) + n
    <3>1. CASE n = F[r] /\ T \in SUBSET (S \cup {r})
      BY <2>1, <3>1, SumOneMore DEF F
    <3>2. CASE n = -F[r] /\ r \in S /\ T \in SUBSET (S \ {r})
      <4>1. SumFunctionOnSet(F, T) <= SumFunctionOnSet(F, S) - F[r]
        BY <2>1, <3>2, SumOneLess DEF F
      <4> QED
        BY <2>5, <3>2, <4>1
    <3> QED
      BY <2>3, <3>1, <3>2
  <2>7. SumFunctionOnSet(F, T) <= cells'[i].spent
    BY <1>2, <1>3, <2>2, <2>5, <2>6
  <2> QED
    BY <2>1, <2>7 DEF T
<1> QED
  BY <1>3, <1>4, <1>5 DEF Backed

(* A step that charges nothing: the same updates, or none charged.          *)
Quiet(j, n) ==
  \/ n.charged = {}
  \/ /\ j.pc # "idle" /\ n.request = j.request /\ n.updates = j.updates
     /\ n.charged \subseteq j.charged

LEMMA QuietCharges ==
  ASSUME job \in [Loops -> Jobs], NEW l \in Loops, NEW n, Becomes(l, n),
         Quiet(job[l], n)
  PROVE  \A i : ChargedTo(i, job') \subseteq ChargedTo(i, job)
<1>1. job'[l] = n /\ \A o \in Loops : o # l => job'[o] = job[o]
  BY DEF Becomes
<1> QED
  BY <1>1 DEF ChargedTo, Quiet

Quietly(l) == \E n : Becomes(l, n) /\ Quiet(job[l], n)

LEMMA HandleQuiet ==
  ASSUME AccessInv, NEW l \in Loops, Handle(l),
         \A k \in Kinds : ~Debit(l, k) /\ ~RefundUpdate(l, k)
  PROVE  Quietly(l) /\ cells' = cells
<1> DEFINE j == job[l]
<1>0. ASSUME NEW n, Becomes(l, n), Quiet(j, n) PROVE Quietly(l)
  BY <1>0 DEF Quietly
<1>1. j \in Jobs /\ JobOK(j, cells)
  BY DEF AccessInv, JobInv
<1>2. cells' = cells
  BY DEF Handle, Unauthorized, Restricted, Authorize, ReadClock,
     FetchAccess, FetchQuota, Lock, Verify, Admit, AnswerUnexecuted, Start,
     Succeed, Fail, Refunded, Respond, grantVars
<1> SUFFICES Quietly(l)
  BY <1>2
<1>3. ASSUME NEW code, Answer(l, code), j.pc # "idle"
      PROVE  Quietly(l)
  <2>1. Quiet(j, Answered(j, code))
    BY <1>1, <1>3 DEF Quiet, Answered, Jobs
  <2> QED
    BY <1>0, <1>3, <2>1 DEF Answer
<1>4. CASE \/ Unauthorized(l) \/ Restricted(l) \/ AnswerUnexecuted(l)
           \/ Succeed(l) \/ Refunded(l)
  BY <1>3, <1>4 DEF Unauthorized, Restricted, AnswerUnexecuted, Succeed, Refunded
<1>5. CASE Authorize(l) \/ ReadClock(l) \/ Start(l) \/ Fail(l) \/ Admit(l)
  <2>1. \/ \E e, a, q : Becomes(l, [j EXCEPT !.pc = "clock", !.profile = e,
                                         !.access_rule = a, !.quota_rule = q])
        \/ \E n : Becomes(l, [j EXCEPT !.pc = "access", !.now = n])
        \/ \E s : Becomes(l, [j EXCEPT !.pc = s])
        \/ Becomes(l, [j EXCEPT !.pc = "dispatch", !.locked = {}])
    <3>1. CASE Authorize(l)
      BY <3>1 DEF Authorize
    <3>2. CASE ReadClock(l) \/ Admit(l)
      BY <3>2 DEF ReadClock, Admit
    <3>3. CASE Start(l) \/ Fail(l)
      BY <3>3 DEF Start, Fail
    <3> QED
      BY <1>5, <3>1, <3>2, <3>3
  <2>2. j.pc # "idle"
    BY <1>5 DEF Authorize, ReadClock, Start, Fail, Admit
  <2>3. /\ \A e, a, q : Quiet(j, [j EXCEPT !.pc = "clock", !.profile = e,
                                     !.access_rule = a, !.quota_rule = q])
        /\ \A n : Quiet(j, [j EXCEPT !.pc = "access", !.now = n])
        /\ \A s : Quiet(j, [j EXCEPT !.pc = s])
        /\ Quiet(j, [j EXCEPT !.pc = "dispatch", !.locked = {}])
    BY <1>1, <2>2 DEF Quiet, Jobs
  <2> QED
    BY <1>0, <2>1, <2>3
<1>6. CASE FetchAccess(l) \/ FetchQuota(l)
  <2>1. j.charged = {} /\ j.pc # "idle"
    BY <1>1, <1>6 DEF JobOK, Early, FetchAccess, FetchQuota
  <2>2. \/ Answer(l, "MISSING_STATE")
        \/ \E s : Becomes(l, [j EXCEPT !.pc = s])
        \/ \E s, u : Becomes(l, [j EXCEPT !.pc = s, !.updates = u])
    BY <1>6 DEF FetchAccess, FetchQuota
  <2>3. /\ \A s : Quiet(j, [j EXCEPT !.pc = s])
        /\ \A s, u : Quiet(j, [j EXCEPT !.pc = s, !.updates = u])
    BY <1>1, <2>1 DEF Quiet, Jobs
  <2> QED
    BY <1>0, <1>3, <2>1, <2>2, <2>3
<1>7. CASE Verify(l) \/ \E k \in Kinds : Lock(l, k)
  <2>1. j.pc # "idle"
    BY <1>7 DEF Verify, Lock
  <2>2. \/ Answer(l, "OVER_LIMIT")
        \/ Becomes(l, [j EXCEPT !.pc = "debit"])
        \/ \E k : Becomes(l, [j EXCEPT !.locked = @ \cup {k}])
    BY <1>7 DEF Verify, Lock
  <2>3. /\ Quiet(j, [j EXCEPT !.pc = "debit"])
        /\ \A k : Quiet(j, [j EXCEPT !.locked = @ \cup {k}])
    BY <1>1, <2>1 DEF Quiet, Jobs
  <2> QED
    BY <1>0, <1>3, <2>1, <2>2, <2>3
<1>8. CASE Respond(l)
  <2>1. Becomes(l, NoJob) /\ Quiet(j, NoJob)
    BY <1>8 DEF Respond, Quiet, NoJob
  <2> QED
    BY <1>0, <2>1
<1> QED
  BY <1>4, <1>5, <1>6, <1>7, <1>8 DEF Handle

LEMMA DebitCharges ==
  ASSUME AccessInv, NEW l \in Loops, NEW k \in Kinds, Debit(l, k)
  PROVE  LET u == job[l].updates[k] IN
         /\ k \in DOMAIN job[l].updates /\ job[l].request \in Requests
         /\ Charge(u.cell, Withdraw(cells[u.cell].state, u.amount,
                                    job[l].now, u.rule), u.amount)
         /\ Verdict(l, k) = "Ok"
         /\ \A i : i # u.cell => ChargedTo(i, job') \subseteq ChargedTo(i, job)
         /\ ChargedTo(u.cell, job') \subseteq ChargedTo(u.cell, job) \cup {job[l].request}
<1> DEFINE j == job[l]
           u == j.updates[k]
           n == [j EXCEPT !.charged = @ \cup {k}]
<1>1. j \in Jobs /\ JobOK(j, cells) /\ job \in [Loops -> Jobs] /\ j.pc = "debit"
  BY DEF AccessInv, JobInv, Debit
<1>2. Verdict(l, k) = "Ok" /\ k \in DOMAIN j.updates
  BY DebitInv DEF Debit, Undebited
<1>3. /\ Becomes(l, n)
      /\ Charge(u.cell, Withdraw(cells[u.cell].state, u.amount, j.now, u.rule),
                u.amount)
  BY <1>2 DEF Debit
<1>4. /\ n.pc = j.pc /\ n.request = j.request /\ n.updates = j.updates
      /\ n.charged = j.charged \cup {k}
  BY <1>1 DEF Jobs
<1>5. job'[l] = n /\ \A o \in Loops : o # l => job'[o] = job[o]
  BY <1>1, <1>3 DEF Becomes
<1> HIDE DEF n
<1>6. \A i : i # u.cell => ChargedTo(i, job') \subseteq ChargedTo(i, job)
  BY <1>1, <1>4, <1>5 DEF ChargedTo
<1>7. ChargedTo(u.cell, job') \subseteq ChargedTo(u.cell, job) \cup {j.request}
  BY <1>1, <1>4, <1>5 DEF ChargedTo
<1>8. j.request \in Requests
  BY <1>1 DEF JobOK
<1> QED
  BY <1>2, <1>3, <1>6, <1>7, <1>8

LEMMA RefundCharges ==
  ASSUME AccessInv, OneHandled, NEW l \in Loops, NEW k \in Kinds,
         RefundUpdate(l, k)
  PROVE  LET u == job[l].updates[k] IN
         /\ k \in DOMAIN job[l].updates /\ k \in job[l].charged
         /\ job[l].request \in Requests
         /\ Charge(u.cell, Refund(cells[u.cell].state, u.amount, u.rule), -u.amount)
         /\ \A i : ChargedTo(i, job') \subseteq ChargedTo(i, job)
         /\ job[l].request \in ChargedTo(u.cell, job)
         /\ job[l].request \notin ChargedTo(u.cell, job')
<1> DEFINE j == job[l]
           u == j.updates[k]
           n == [j EXCEPT !.charged = @ \ {k}]
<1>1. /\ j \in Jobs /\ JobOK(j, cells) /\ job \in [Loops -> Jobs]
      /\ j.pc = "refund" /\ k \in j.charged
  BY DEF AccessInv, JobInv, RefundUpdate
<1>2. k \in DOMAIN j.updates /\ j.request \in Requests
  BY <1>1 DEF JobOK
<1>3. Becomes(l, n) /\ Charge(u.cell, Refund(cells[u.cell].state, u.amount,
                                             u.rule), -u.amount)
  BY DEF RefundUpdate
<1>4. /\ n.pc = j.pc /\ n.request = j.request /\ n.updates = j.updates
      /\ n.charged = j.charged \ {k}
  BY <1>1 DEF Jobs
<1>5. job'[l] = n /\ \A o \in Loops : o # l => job'[o] = job[o]
  BY <1>1, <1>3 DEF Becomes
<1> HIDE DEF n
<1>6. \A i : ChargedTo(i, job') \subseteq ChargedTo(i, job)
  BY <1>1, <1>4, <1>5 DEF ChargedTo
<1>7. j.request \in ChargedTo(u.cell, job)
  BY <1>1, <1>2 DEF ChargedTo
<1>8. \A o \in Loops : o # l /\ job[o].pc # "idle" => job[o].request # j.request
  BY <1>1 DEF OneHandled, Single
<1>9. \A m \in n.charged : n.updates[m].cell # u.cell
  <2>1. DOMAIN j.updates \subseteq {"Method", "Quota"}
    BY <1>1, JobFields DEF Kinds
  <2>2. \A m \in DOMAIN j.updates :
          cells[j.updates[m].cell].name = None <=> m = "Quota"
    BY <1>1 DEF JobOK
  <2>3. n.charged \subseteq DOMAIN j.updates \ {k}
    BY <1>1, <1>4 DEF JobOK
  <2> QED
    BY <1>2, <1>4, <2>1, <2>2, <2>3
<1>10. j.request \notin ChargedTo(u.cell, job')
  BY <1>5, <1>8, <1>9 DEF ChargedTo
<1> QED
  BY <1>1, <1>2, <1>3, <1>6, <1>7, <1>10

(* The update k of request r, and its counter.                              *)
LEMMA UpdateFields ==
  ASSUME AccessInv, OnlyGrantInv, NEW l \in Loops, NEW k \in DOMAIN job[l].updates,
         job[l].pc # "idle", job[l].request \in Requests
  PROVE  LET u == job[l].updates[k] IN
         /\ u.cell \in DOMAIN cells /\ u.rule \in Rules /\ u.amount \in Amounts
         /\ job[l].now \in Times
         /\ u.amount \in Nat /\ -u.amount \in Int
         /\ cells[u.cell].state \in Counters /\ cells[u.cell].spent \in Int
         /\ u.amount = Price(cells[u.cell])[job[l].request]
         /\ u.rule = RuleOf(cells[u.cell])
         /\ k \in job[l].charged => u.amount <= MaxI64
<1> DEFINE j == job[l]
           u == j.updates[k]
<1>1. /\ j \in Jobs /\ JobOK(j, cells) /\ Fits(j, usage_profiles, cells)
      /\ cells \in Seq(Cells)
  BY DEF AccessInv, JobInv, GrantsInv, TypeOK, OnlyGrantInv, FitsInv
<1>2. u.cell \in DOMAIN cells /\ (cells[u.cell].name = None <=> k = "Quota")
  BY <1>1 DEF JobOK
<1>3. cells[u.cell] \in Cells
  BY <1>1, <1>2
<1>4. cells[u.cell].state \in Counters /\ cells[u.cell].spent \in Int
  BY <1>3 DEF Cells
<1>5. u.rule \in Rules /\ u.amount \in Amounts /\ j.now \in Times
  BY <1>1, JobFields
<1>6. u.amount \in Nat /\ -u.amount \in Int
  BY <1>5, WidthAssumption DEF Amounts
<1>7. /\ u.rule = RuleOf(cells[u.cell])
      /\ u.amount = IF k = "Quota" THEN j.request.amount ELSE AccessCost
      /\ k \in j.charged => u.amount <= MaxI64
  BY <1>1 DEF Fits
<1>8. u.amount = Price(cells[u.cell])[j.request]
  BY <1>2, <1>7 DEF Price
<1> QED
  BY <1>2, <1>4, <1>5, <1>6, <1>7, <1>8

LEMMA HandleBacked ==
  ASSUME AccessInv, OnlyGrantInv, OneHandled, NEW l \in Loops, Handle(l),
         NEW more, NEW less, Backed(job, cells, more),
         \A i \in DOMAIN cells :
           /\ more[i] \subseteq Requests
           /\ less[i] \subseteq ChargedTo(i, job) \cup more[i]
           /\ job[l].pc = "refund" => job[l].request \notin less[i]
  PROVE  Backed(job', cells', less)
<1> DEFINE j == job[l]
           r == j.request
<1>1. cells \in Seq(Cells) /\ job \in [Loops -> Jobs]
  BY DEF AccessInv, GrantsInv, TypeOK
<1>2. ASSUME NEW k \in Kinds, Debit(l, k) PROVE Backed(job', cells', less)
  <2> DEFINE u == j.updates[k]
             s == Withdraw(cells[u.cell].state, u.amount, j.now, u.rule)
  <2>1. /\ k \in DOMAIN j.updates /\ r \in Requests /\ j.pc # "idle"
        /\ Charge(u.cell, s, u.amount)
        /\ \A i : i # u.cell => ChargedTo(i, job') \subseteq ChargedTo(i, job)
        /\ ChargedTo(u.cell, job') \subseteq ChargedTo(u.cell, job) \cup {r}
    BY <1>2, DebitCharges DEF Debit
  <2>2. /\ u.cell \in DOMAIN cells /\ u.amount \in Int /\ s \in Counters
        /\ u.amount = Price(cells[u.cell])[r]
    <3>1. /\ u.cell \in DOMAIN cells /\ u.rule \in Rules /\ u.amount \in Amounts
          /\ j.now \in Times /\ cells[u.cell].state \in Counters
          /\ u.amount \in Nat /\ u.amount = Price(cells[u.cell])[r]
      BY <2>1, UpdateFields, Zenon
    <3> HIDE DEF u
    <3>2. s \in Counters
      BY <3>1, WithdrawType
    <3> QED
      BY <3>1, <3>2
  <2> HIDE DEF u, s
  <2> QED
    BY <2>1, <2>2, ChargeBacked
<1>3. ASSUME NEW k \in Kinds, RefundUpdate(l, k) PROVE Backed(job', cells', less)
  <2> DEFINE u == j.updates[k]
             s == Refund(cells[u.cell].state, u.amount, u.rule)
  <2>1. /\ k \in DOMAIN j.updates /\ r \in Requests /\ j.pc = "refund"
        /\ Charge(u.cell, s, -u.amount)
        /\ \A i : ChargedTo(i, job') \subseteq ChargedTo(i, job)
        /\ r \in ChargedTo(u.cell, job) /\ r \notin ChargedTo(u.cell, job')
    BY <1>3, RefundCharges, Zenon DEF RefundUpdate
  <2>2. /\ u.cell \in DOMAIN cells /\ -u.amount \in Int /\ s \in Counters
        /\ u.amount = Price(cells[u.cell])[r]
    BY <2>1, UpdateFields, RefundType, Zenon
  <2> HIDE DEF u, s
  <2>3. /\ r \in ChargedTo(u.cell, job) \cup more[u.cell]
        /\ ChargedTo(u.cell, job') \cup less[u.cell]
             \subseteq (ChargedTo(u.cell, job) \cup more[u.cell]) \ {r}
    BY <2>1, <2>2
  <2>4. -u.amount = -Price(cells[u.cell])[r]
    BY <2>2
  <2> QED
    BY <2>1, <2>2, <2>3, <2>4, ChargeBacked
<1>4. CASE \A k \in Kinds : ~Debit(l, k) /\ ~RefundUpdate(l, k)
  <2>1. PICK n : Becomes(l, n) /\ Quiet(j, n)
    BY <1>4, HandleQuiet DEF Quietly
  <2>2. \A i : ChargedTo(i, job') \subseteq ChargedTo(i, job)
    BY <1>1, <2>1, QuietCharges
  <2>3. cells' = cells
    BY <1>4, HandleQuiet
  <2>4. \A i \in DOMAIN cells : cells[i].spent \in Int
    <3>1. \A i \in DOMAIN cells : cells[i] \in Cells
      BY <1>1
    <3> QED
      BY <3>1 DEF Cells
  <2> QED
    BY <2>2, <2>3, <2>4, BackedFewer
<1> QED
  BY <1>2, <1>3, <1>4

(* A step that creates counters.                                            *)
LEMMA ApplyBacked ==
  ASSUME AccessInv, NEW t \in Tasks, Apply(t), job' = job, NEW more, NEW less,
         Backed(job, cells, more),
         \A i \in DOMAIN cells :
           /\ more[i] \subseteq Requests
           /\ less[i] \subseteq ChargedTo(i, job) \cup more[i],
         \A i \in DOMAIN cells' \ DOMAIN cells : less[i] = {}
  PROVE  Backed(job', cells', less)
<1>1. cells \in Seq(Cells) /\ GrantsInv
  BY DEF AccessInv, GrantsInv, TypeOK
<1>2. /\ \A i \in DOMAIN cells : cells'[i] = cells[i]
      /\ \A i \in DOMAIN cells' \ DOMAIN cells : cells'[i].spent = 0
  BY <1>1, NewCells
<1>3. \A i \in DOMAIN cells : cells[i].spent \in Int
  <2>1. \A i \in DOMAIN cells : cells[i] \in Cells
    BY <1>1
  <2> QED
    BY <2>1 DEF Cells
<1>4. \A i \in DOMAIN cells : SumFunctionOnSet(Price(cells[i]),
                                ChargedTo(i, job) \cup less[i]) <= cells[i].spent
  BY <1>3, BackedFewer DEF Backed
<1>5. ASSUME NEW i \in DOMAIN cells' \ DOMAIN cells
      PROVE  ChargedTo(i, job) \cup less[i] = {}
  BY <1>5 DEF AccessInv, JobInv, JobOK, ChargedTo
<1>6. ASSUME NEW i \in DOMAIN cells' \ DOMAIN cells
      PROVE  SumFunctionOnSet(Price(cells'[i]), ChargedTo(i, job) \cup less[i])
               <= cells'[i].spent
  <2> DEFINE F == Price(cells'[i])
             T == ChargedTo(i, job) \cup less[i]
  <2>1. T = {} /\ cells'[i].spent = 0
    BY <1>2, <1>5, <1>6
  <2> HIDE DEF F, T
  <2>2. SumFunctionOnSet(F, T) = 0
    BY <2>1, SumStep, FS_EmptySet
  <2>3. SumFunctionOnSet(F, T) <= cells'[i].spent
    BY <2>1, <2>2
  <2> QED
    BY <2>3 DEF F, T
<1> QED
  BY <1>2, <1>4, <1>6 DEF Backed

LEMMA CapacityIs ==
  ASSUME GrantsInv, NEW i \in DOMAIN cells
  PROVE  CapacityOf(i) = RuleOf(cells[i]).max_capacity /\ CapacityOf(i) \in Nat
<1>1. RuleOf(cells[i]) \in Rules
  BY DEF GrantsInv, CellInv
<1>2. CapacityOf(i) = RuleOf(cells[i]).max_capacity
  BY DEF CapacityOf, RuleOf
<1> QED
  BY <1>1, <1>2, WidthAssumption DEF Rules

(* A counter has given out at least what one of the requests took.          *)
LEMMA SpentCovers ==
  ASSUME AccessInv, NEW more, Backed(job, cells, more), NEW i \in DOMAIN cells,
         more[i] \subseteq Requests
  PROVE  /\ cells[i].spent \in Nat
         /\ \A r \in ChargedTo(i, job) : Price(cells[i])[r] <= cells[i].spent
<1> DEFINE S == ChargedTo(i, job) \cup more[i]
           F == Price(cells[i])
<1>1. cells[i].spent \in Int
  <2>1. cells[i] \in Cells
    BY DEF AccessInv, GrantsInv, TypeOK
  <2> QED
    BY <2>1 DEF Cells
<1>2. S \in SUBSET Requests /\ SumFunctionOnSet(F, S) <= cells[i].spent
  BY DEF ChargedTo, Backed
<1>3. \A r \in ChargedTo(i, job) : r \in S
  OBVIOUS
<1> HIDE DEF S, F
<1>4. SumFunctionOnSet(F, S) \in Nat
  BY <1>2, PriceType DEF F
<1>5. ASSUME NEW r \in S PROVE F[r] <= cells[i].spent
  <2>1. SumFunctionOnSet(F, {}) <= SumFunctionOnSet(F, S) - F[r]
    <3>1. {} \in SUBSET (S \ {r})
      OBVIOUS
    <3> QED
      BY <1>2, <3>1, SumOneLess DEF F
  <2>2. SumFunctionOnSet(F, {}) = 0
    BY SumStep, FS_EmptySet
  <2>3. F[r] \in Nat
    BY <1>2, PriceType DEF F
  <2> QED
    BY <1>1, <1>2, <1>4, <2>1, <2>2, <2>3
<1>6. cells[i].spent \in Nat
  BY <1>1, <1>2, <1>4
<1> QED
  BY <1>3, <1>5, <1>6 DEF F

LEMMA ChargeKept ==
  ASSUME AccessInv, NothingLost, NEW i \in DOMAIN cells, NEW s \in Counters,
         NEW n \in Int, Charge(i, s, n), s.balance + n + cells[i].spent >= CapacityOf(i)
  PROVE  NothingLost'
<1>1. cells \in Seq(Cells) /\ GrantsInv
  BY DEF AccessInv, GrantsInv, TypeOK
<1>2. /\ DOMAIN cells' = DOMAIN cells
      /\ \A h \in DOMAIN cells : /\ cells'[h].name = cells[h].name
                                 /\ cells'[h].event = cells[h].event
                                 /\ h # i => cells'[h] = cells[h]
      /\ cells'[i].spent = cells[i].spent + n /\ cells'[i].state = s
  BY <1>1, ChargedCells
<1>3. \A h \in DOMAIN cells : CapacityOf(h)' = CapacityOf(h)
  BY <1>2 DEF CapacityOf
<1>4. cells[i].spent \in Int /\ s.balance \in Int
  <2>1. cells[i] \in Cells
    BY <1>1
  <2> QED
    BY <2>1, WidthAssumption DEF Cells, Counters
<1>5. cells'[i].state.balance + cells'[i].spent >= CapacityOf(i)'
  BY <1>1, <1>2, <1>3, <1>4, CapacityIs
<1>6. \A h \in DOMAIN cells : h # i =>
        cells'[h].state.balance + cells'[h].spent >= CapacityOf(h)'
  BY <1>2, <1>3 DEF NothingLost
<1> QED
  BY <1>2, <1>5, <1>6 DEF NothingLost

LEMMA HandleKept ==
  ASSUME AccessInv, OnlyGrantInv, OneHandled, NothingLost, NEW l \in Loops, Handle(l),
         NEW more, Backed(job, cells, more), \A i \in DOMAIN cells : more[i] \subseteq Requests
  PROVE  NothingLost'
<1> DEFINE j == job[l]
           r == j.request
<1>1. GrantsInv
  BY DEF AccessInv
<1>2. ASSUME NEW k \in Kinds, Debit(l, k) PROVE NothingLost'
  <2> DEFINE u == j.updates[k]
             c == cells[u.cell]
             s == Withdraw(c.state, u.amount, j.now, u.rule)
             f == CalculateRefill(c.state, j.now, u.rule)
  <2>1. /\ k \in DOMAIN j.updates /\ r \in Requests /\ j.pc # "idle"
        /\ Charge(u.cell, s, u.amount)
        /\ CheckWithdraw(c.state, u.amount, j.now, u.rule) = "Ok"
    BY <1>2, DebitCharges DEF Debit, Verdict
  <2>2. /\ u.cell \in DOMAIN cells /\ u.rule \in Rules /\ u.amount \in Amounts
        /\ j.now \in Times /\ c.state \in Counters /\ u.amount \in Nat
        /\ u.rule = RuleOf(c)
    BY <2>1, UpdateFields, Zenon
  <2>3. /\ c.spent \in Nat /\ CapacityOf(u.cell) = u.rule.max_capacity
        /\ CapacityOf(u.cell) \in Nat
        /\ c.state.balance + c.spent >= CapacityOf(u.cell)
    BY <1>1, <2>2, SpentCovers, CapacityIs DEF NothingLost
  <2> HIDE DEF u, c
  <2>4. s \in Counters /\ s.balance = f - u.amount
    BY <2>1, <2>2, WithdrawType
  <2>5. f >= c.state.balance + Accrued(c.state, j.now, u.rule) \/ f = u.rule.max_capacity
    <3>1. /\ Accrued(c.state, j.now, u.rule) \in Nat
          /\ c.state.balance \in 0..MaxI64
      BY <2>2, AccruedType, WidthAssumption DEF Counters
    <3> QED
      BY <2>2, <3>1, CreditAll DEF CalculateRefill
  <2>6. /\ f \in Int /\ Accrued(c.state, j.now, u.rule) \in Nat
        /\ c.state.balance \in Int
    BY <2>2, RefillType, AccruedType, WidthAssumption DEF Counters
  <2> HIDE DEF s, f
  <2>7. s.balance + u.amount + c.spent >= CapacityOf(u.cell)
    BY <2>2, <2>3, <2>4, <2>5, <2>6
  <2> QED
    BY <2>1, <2>2, <2>4, <2>7, ChargeKept DEF c
<1>3. ASSUME NEW k \in Kinds, RefundUpdate(l, k) PROVE NothingLost'
  <2> DEFINE u == j.updates[k]
             c == cells[u.cell]
             s == Refund(c.state, u.amount, u.rule)
  <2>1. /\ k \in DOMAIN j.updates /\ k \in j.charged /\ r \in Requests /\ j.pc # "idle"
        /\ Charge(u.cell, s, -u.amount) /\ r \in ChargedTo(u.cell, job)
    BY <1>3, RefundCharges, Zenon DEF RefundUpdate
  <2>2. /\ u.cell \in DOMAIN cells /\ u.rule \in Rules /\ u.amount \in Amounts
        /\ c.state \in Counters /\ u.amount \in Nat /\ -u.amount \in Int
        /\ u.rule = RuleOf(c) /\ u.amount = Price(c)[r] /\ u.amount <= MaxI64
    BY <2>1, UpdateFields, Zenon
  <2>3. /\ c.spent \in Nat /\ u.amount <= c.spent
        /\ CapacityOf(u.cell) = u.rule.max_capacity
        /\ CapacityOf(u.cell) \in Nat
        /\ c.state.balance + c.spent >= CapacityOf(u.cell)
    BY <1>1, <2>1, <2>2, SpentCovers, CapacityIs, Zenon DEF NothingLost
  <2> HIDE DEF u, c
  <2>4. s \in Counters
    BY <2>2, RefundType
  <2>5. c.state.balance \in 0..MaxI64 /\ c.state.balance \in Int
    BY <2>2, WidthAssumption DEF Counters
  <2>6. s.balance = Credit(c.state.balance, u.amount, u.rule)
    <3>1. ~(u.amount > MaxI64)
      BY <2>2, WidthAssumption
    <3> QED
      BY <2>2, <3>1 DEF Refund, Counters
  <2>7. \/ s.balance >= c.state.balance + u.amount
        \/ s.balance = u.rule.max_capacity
    BY <2>2, <2>5, <2>6, CreditAll
  <2>8. s.balance \in Int
    BY <2>4, WidthAssumption DEF Counters
  <2> HIDE DEF s
  <2>9. s.balance + (-u.amount) + c.spent >= CapacityOf(u.cell)
    BY <2>2, <2>3, <2>5, <2>7, <2>8
  <2> QED
    BY <2>1, <2>2, <2>4, <2>9, ChargeKept DEF c
<1>4. CASE \A k \in Kinds : ~Debit(l, k) /\ ~RefundUpdate(l, k)
  <2>1. cells' = cells
    BY <1>4, HandleQuiet
  <2> QED
    BY <2>1 DEF NothingLost, CapacityOf
<1> QED
  BY <1>2, <1>3, <1>4

LEMMA ApplyKeptAll ==
  ASSUME GrantsInv, NothingLost, NEW t \in Tasks, Apply(t)
  PROVE  NothingLost'
<1>1. \A i \in DOMAIN cells :
        cells'[i].state.balance + cells'[i].spent >= CapacityOf(i)'
  BY NewCells DEF NothingLost, CapacityOf
<1>2. ASSUME NEW i \in DOMAIN cells' \ DOMAIN cells
      PROVE  cells'[i].state.balance + cells'[i].spent >= CapacityOf(i)'
  <2>1. /\ cells'[i].state.balance = RuleOf(cells'[i]).max_capacity
        /\ cells'[i].state.balance \in Nat /\ cells'[i].spent = 0
    BY NewCells
  <2>2. CapacityOf(i)' = RuleOf(cells'[i]).max_capacity
    BY DEF CapacityOf, RuleOf
  <2> QED
    BY <2>1, <2>2
<1> QED
  BY <1>1, <1>2 DEF NothingLost

Nobody == [i \in Nat |-> {}]
KeptInv == OneHandled /\ Backed(job, cells, Nobody) /\ NothingLost

LEMMA KeptStep ==
  ASSUME AccessInv, OnlyGrantInv, KeptInv, [Next]_vars
  PROVE  KeptInv'
<1>1. /\ OneHandled' /\ OneHandled /\ Backed(job, cells, Nobody) /\ NothingLost
      /\ GrantsInv /\ cells \in Seq(Cells) /\ Nobody' = Nobody
  BY OneHandledStep DEF KeptInv, AccessInv, GrantsInv, TypeOK, Nobody
<1>2. \A i \in DOMAIN cells : i \in Nat /\ Nobody[i] = {} /\ cells[i].spent \in Int
  <2>1. \A i \in DOMAIN cells : i \in Nat /\ cells[i] \in Cells
    BY <1>1
  <2> QED
    BY <2>1 DEF Nobody, Cells
<1>3. CASE UNCHANGED vars \/ Environment
  <2>1. job' = job /\ cells' = cells
    BY <1>3 DEF vars, grantVars, Environment, Tick, Relay, Publish, Deliver,
       Poll, storeVars
  <2> QED
    BY <1>1, <2>1 DEF KeptInv, Backed, NothingLost, CapacityOf
<1>4. CASE RestartService
  <2>1. cells' = <<>>
    BY <1>4 DEF RestartService, Restart
  <2> QED
    BY <1>1, <2>1 DEF KeptInv, Backed, NothingLost
<1>5. ASSUME NEW t \in Tasks, ApplyGrant(t) PROVE KeptInv'
  <2>1. Apply(t) /\ job' = job
    BY <1>5 DEF ApplyGrant
  <2>2. NothingLost'
    BY <1>1, <2>1, ApplyKeptAll
  <2>3. \A i \in DOMAIN cells' : Nobody[i] = {}
    <3>1. cells' \in Seq(Cells)
      BY <1>1, <2>1, ApplyInv DEF GrantsInv, TypeOK
    <3> QED
      BY <3>1 DEF Nobody
  <2>4. Backed(job', cells', Nobody)
    BY <1>1, <1>2, <2>1, <2>3, ApplyBacked
  <2> QED
    BY <1>1, <2>2, <2>4 DEF KeptInv
<1>6. ASSUME NEW l \in Loops, Handle(l) PROVE KeptInv'
  <2>1. NothingLost'
    BY <1>1, <1>2, <1>6, HandleKept
  <2>2. Backed(job', cells', Nobody)
    BY <1>1, <1>2, <1>6, HandleBacked
  <2> QED
    BY <1>1, <2>1, <2>2 DEF KeptInv
<1>7. ASSUME NEW l \in Loops, NEW r \in pending, Receive(l, r) PROVE KeptInv'
  <2> DEFINE n == [NoJob EXCEPT !.pc = "profile", !.request = r]
  <2>1. cells' = cells /\ Becomes(l, n)
    BY <1>7 DEF Receive, grantVars
  <2>2. Quiet(job[l], n)
    BY DEF Quiet, NoJob
  <2>3. \A i : ChargedTo(i, job') \subseteq ChargedTo(i, job)
    BY <2>1, <2>2, QuietCharges DEF AccessInv
  <2>4. Backed(job', cells', Nobody)
    BY <1>1, <1>2, <2>1, <2>3, BackedFewer
  <2> QED
    BY <1>1, <2>1, <2>4 DEF KeptInv, NothingLost, CapacityOf
<1> QED
  BY <1>3, <1>4, <1>5, <1>6, <1>7 DEF Next

(* A client with a single grant: no counter ever loses a token that no      *)
(* request took, with any rates, any number of concurrent requests and any  *)
(* failures: a refund always returns what the debit took, because it goes   *)
(* to the counter and under the rule of the debit (lib.rs:372-393).         *)
THEOREM NoTokenLost == OneGrantEach => (Spec => []NothingLost)
<1> SUFFICES ASSUME OneGrantEach PROVE Spec => []NothingLost
  OBVIOUS
<1>1. Init => KeptInv
  BY OneHandledInit DEF Init, GrantsInit, KeptInv, Backed, NothingLost
<1>2. AccessInv /\ OnlyGrantInv /\ KeptInv /\ [Next]_vars => KeptInv'
  BY KeptStep
<1>3. AccessInv /\ OnlyGrantInv /\ [Next]_vars => OnlyGrantInv'
  BY OnlyGrantStep
<1>4. KeptInv => NothingLost
  BY DEF KeptInv
<1> QED
  BY <1>1, <1>2, <1>3, <1>4, OnlyGrantInit, AccessInitInv, AccessStep, PTL DEF Spec
=============================================================================
