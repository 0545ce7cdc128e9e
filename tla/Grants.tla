-------------------------------- MODULE Grants --------------------------------
(****************************************************************************)
(* Access grants: from the events on the relay to the profile and the       *)
(* counters of a client.  Two kinds of task apply grants, concurrently and  *)
(* with the same code: the poller, which fetches every grant event from the *)
(* relay every 30 seconds (lib.rs:769-793), and the notification loop of a  *)
(* service, to which the relay pushes them (lib.rs:795-830).  Applying one  *)
(* is not atomic: should_apply_grant_event, the two clears, every insertion *)
(* of a counter and the final store of the profile are separate critical    *)
(* sections.  All of this state is in memory only.                          *)
(*                                                                          *)
(* A counter lives in a cell, which Arc handles share: access_rate and      *)
(* quota hold indices into `cells`, and a request keeps using an index it   *)
(* read after the maps have dropped it.                                     *)
(****************************************************************************)
EXTENDS RateState, Sequences

CONSTANTS
  Clients,      \* user pubkeys that grants name
  Methods,      \* NIP-47 methods that rules and requests name
  ALL,          \* the method key "ALL"
  GrantEvents,  \* the kind-30078 events that are ever published
  Pollers,      \* tasks that fetch grants periodically
  Loops,        \* notification loops, one per running service
  None,         \* Option::None
  Unparseable,  \* a content that is not a UsageProfile
  MaxTime,      \* bound: the clock stops here
  MaxRestarts   \* bound: process restarts in a behaviour

Tasks == Pollers \cup Loops
RuleNames == Methods \cup {ALL}

(* UsageProfile: an optional map from method name to an optional access     *)
(* rate, an optional quota, and an optional map of control methods, of      *)
(* which only the keys are ever read.                                       *)
IsProfile(p) ==
  /\ p = [methods |-> p.methods, quota |-> p.quota, control |-> p.control]
  /\ p.control = None \/ p.control \subseteq STRING
  /\ p.quota \in Rules \cup {None}
  /\ \/ p.methods = None
     \/ /\ DOMAIN p.methods \subseteq RuleNames
        /\ p.methods \in [DOMAIN p.methods -> Rules \cup {None}]

(* A grant event: the client its d tag names (None if parse_grant_target    *)
(* refuses the tag), its time in seconds, its id and its content.           *)
ASSUME GrantEventsAssumption ==
  \A e \in GrantEvents :
    /\ e \in [target: Clients \cup {None}, created_at: Nat, id: Nat,
              content: {e.content}]
    /\ e.content = Unparseable \/ IsProfile(e.content)
    /\ \A f \in GrantEvents : e.id = f.id => e = f
ASSUME NoneAssumption == /\ None \notin Clients /\ None \notin Rules
                         /\ None \notin Nat /\ None \notin GrantEvents
                         /\ None \notin RuleNames
ASSUME GrantBoundsAssumption == MaxTime \in Times /\ MaxRestarts \in Nat

VARIABLES
  clock,           \* now_micros()
  published,       \* grant events the relay has stored
  inbox,           \* per task, the events it has been given and not looked at
  task,            \* per task, the grant it is applying and how far it is
  applied,         \* APPLIED_GRANT_EVENTS: per client, the last event accepted
  usage_profiles,  \* USAGE_PROFILES: per client, the event whose content is stored
  access_rate,     \* ACCESS_STATE.access_rate: per client and rule name, a cell
  quota,           \* ACCESS_STATE.quota: per client, a cell
  cells,           \* every RateState allocated since the process started
  restarts         \* process restarts so far
grantVars == <<clock, published, inbox, task, applied, usage_profiles,
               access_rate, quota, cells, restarts>>

(* A cell is a RateState and, for the properties only, what it was created  *)
(* for (event, client, rule name or None for the quota) and the net of the  *)
(* debits and refunds made on it.                                           *)
Cells == [state: Counters, event: GrantEvents, client: Clients,
          name: RuleNames \cup {None}, spent: Int]

Phases == {"idle", "clear_access", "clear_quota", "stamp", "init",
           "upsert"}
Idle == [pc |-> "idle", event |-> None, now |-> 0, todo |-> {}]

TypeOK ==
  /\ clock \in 0..MaxTime
  /\ published \in SUBSET GrantEvents
  /\ inbox \in [Tasks -> SUBSET GrantEvents]
  /\ task \in [Tasks -> [pc: Phases, event: GrantEvents \cup {None},
                         now: Times, todo: SUBSET RuleNames]]
  /\ applied \in [Clients -> GrantEvents \cup {None}]
  /\ usage_profiles \in [Clients -> GrantEvents \cup {None}]
  /\ cells \in Seq(Cells)
  /\ access_rate \in [Clients -> [RuleNames -> Nat \cup {None}]]
  /\ quota \in [Clients -> Nat \cup {None}]
  /\ restarts \in 0..MaxRestarts

(* The process starts with empty statics.                                   *)
NoInbox == [t \in Tasks |-> {}]
NoTask == [t \in Tasks |-> Idle]
NoGrant == [c \in Clients |-> None]
NoCounters == [m \in RuleNames |-> None]
NoAccessRate == [c \in Clients |-> NoCounters]
NoQuota == [c \in Clients |-> None]

GrantsInit ==
  /\ clock = 0 /\ published = {} /\ restarts = 0
  /\ inbox = NoInbox /\ task = NoTask
  /\ applied = NoGrant /\ usage_profiles = NoGrant
  /\ access_rate = NoAccessRate /\ quota = NoQuota /\ cells = <<>>

----------------------------------------------------------------------------
(* The relay and the clock.                                                 *)

storeVars == <<applied, usage_profiles, access_rate, quota, cells>>

Tick ==
  /\ clock < MaxTime
  /\ clock' = clock + 1
  /\ UNCHANGED <<published, inbox, task, storeVars, restarts>>

Publish(e) ==
  /\ e \notin published
  /\ published' = published \cup {e}
  /\ UNCHANGED <<clock, inbox, task, storeVars, restarts>>

(* The subscription hands a loop an event it stored: newly published, or    *)
(* replayed when a subscription starts; in any order, or never.             *)
Deliver(t, e) ==
  /\ t \in Loops /\ e \in published /\ e \notin inbox[t]
  /\ inbox' = [inbox EXCEPT ![t] = @ \cup {e}]
  /\ UNCHANGED <<clock, published, task, storeVars, restarts>>

(* fetch_events: the poller gets all the events, and looks at each of them  *)
(* before it fetches again.                                                 *)
Poll(t) ==
  /\ t \in Pollers /\ task[t].pc = "idle" /\ inbox[t] = {}
  /\ published # {}
  /\ inbox' = [inbox EXCEPT ![t] = published]
  /\ UNCHANGED <<clock, published, task, storeVars, restarts>>

----------------------------------------------------------------------------
(* should_apply_grant_event: newer in (created_at, id), against an entry    *)
(* that the same critical section replaces.                                 *)
NewerOrSame(e, f) ==                                   \* mutant: >= on the id
  \/ e.created_at > f.created_at
  \/ e.created_at = f.created_at /\ e.id >= f.id
Newer(e, f) ==
  \/ e.created_at > f.created_at
  \/ e.created_at = f.created_at /\ e.id > f.id

ShouldApplyByTime(e) ==                                \* mutant: no tie-break
  /\ e.target # None
  /\ applied[e.target] # None => e.created_at > applied[e.target].created_at
ShouldApply(e) ==
  /\ e.target # None
  /\ applied[e.target] # None => Newer(e, applied[e.target])

Look(t, e) ==
  /\ task[t].pc = "idle" /\ e \in inbox[t]
  /\ inbox' = [inbox EXCEPT ![t] = @ \ {e}]

(* No target, or not newer than what was accepted before: continue.         *)
Skip(t, e) ==
  /\ Look(t, e)
  /\ ~ShouldApply(e)
  /\ UNCHANGED <<clock, published, task, storeVars, restarts>>

(* Accepted, but from_str::<UsageProfile> fails: recorded as applied only.  *)
AcceptUnparseable(t, e) ==
  /\ Look(t, e)
  /\ ShouldApply(e) /\ e.content = Unparseable
  /\ applied' = [applied EXCEPT ![e.target] = e]
  /\ UNCHANGED <<clock, published, task, usage_profiles, access_rate, quota,
                 cells, restarts>>

Accept(t, e) ==
  /\ Look(t, e)
  /\ ShouldApply(e) /\ e.content # Unparseable
  /\ applied' = [applied EXCEPT ![e.target] = e]
  /\ task' = [task EXCEPT ![t] = [pc |-> "clear_access", event |-> e,
                                  now |-> 0, todo |-> {}]]
  /\ UNCHANGED <<clock, published, usage_profiles, access_rate, quota, cells,
                 restarts>>

----------------------------------------------------------------------------
(* upsert_usage_profile_and_reset_states, one step per critical section.    *)

Rated(p) == IF p.methods = None THEN {}
            ELSE {m \in DOMAIN p.methods : p.methods[m] # None}

(* retain_access_rate_states: drop the client's method counters.            *)
ProfileFirst(t) ==                \* mutant: the profile before its counters
  /\ task[t].pc = "clear_access"
  /\ access_rate' = [access_rate EXCEPT ![task[t].event.target] = NoCounters]
  /\ usage_profiles' = [usage_profiles EXCEPT ![task[t].event.target] =
                          task[t].event]
  /\ task' = [task EXCEPT ![t].pc = "clear_quota"]
  /\ UNCHANGED <<clock, published, inbox, applied, quota, cells, restarts>>
ClearNothing(t) ==                              \* mutant: old counters survive
  /\ task[t].pc = "clear_access"
  /\ task' = [task EXCEPT ![t].pc = "clear_quota"]
  /\ UNCHANGED <<clock, published, inbox, storeVars, restarts>>
ClearAccess(t) ==
  /\ task[t].pc = "clear_access"
  /\ access_rate' = [access_rate EXCEPT ![task[t].event.target] = NoCounters]
  /\ task' = [task EXCEPT ![t].pc = "clear_quota"]
  /\ UNCHANGED <<clock, published, inbox, applied, usage_profiles, quota,
                 cells, restarts>>

(* retain_quota_states: drop the client's quota counter.                    *)
ClearQuota(t) ==
  /\ task[t].pc = "clear_quota"
  /\ quota' = [quota EXCEPT ![task[t].event.target] = None]
  /\ task' = [task EXCEPT ![t].pc = "stamp"]
  /\ UNCHANGED <<clock, published, inbox, applied, usage_profiles,
                 access_rate, cells, restarts>>

(* now_micros() for the counters to come, the argument with which           *)
(* initialize_states_for_profile is entered.                                *)
StampCounters(t) ==
  /\ task[t].pc = "stamp"
  /\ task' = [task EXCEPT ![t] = [pc |-> "init", event |-> @.event,
                         now |-> clock, todo |-> Rated(@.event.content)]]
  /\ UNCHANGED <<clock, published, inbox, storeVars, restarts>>

NewCell(t, name, rule) ==
  [state |-> FromRule(task[t].now, rule), event |-> task[t].event,
   client |-> task[t].event.target, name |-> name, spent |-> 0]

(* insert_access_rate_state, for one entry of the methods map.              *)
InitMethod(t, m) ==
  /\ task[t].pc = "init" /\ m \in task[t].todo
  /\ cells' = Append(cells, NewCell(t, m, task[t].event.content.methods[m]))
  /\ access_rate' = [access_rate EXCEPT ![task[t].event.target][m] =
                       Len(cells) + 1]
  /\ task' = [task EXCEPT ![t].todo = @ \ {m}]
  /\ UNCHANGED <<clock, published, inbox, applied, usage_profiles, quota,
                 restarts>>

(* insert_quota_state, when the profile has a quota, after the methods.     *)
InitQuota(t) ==
  /\ task[t].pc = "init" /\ task[t].todo = {}
  /\ LET rule == task[t].event.content.quota IN
       IF rule = None THEN UNCHANGED <<cells, quota>>
       ELSE /\ cells' = Append(cells, NewCell(t, None, rule))
            /\ quota' = [quota EXCEPT ![task[t].event.target] = Len(cells) + 1]
  /\ task' = [task EXCEPT ![t].pc = "upsert"]
  /\ UNCHANGED <<clock, published, inbox, applied, usage_profiles,
                 access_rate, restarts>>

(* upsert_usage_profile, last.                                              *)
ForgetProfile(t) ==                             \* mutant: the map is not written
  /\ task[t].pc = "upsert"
  /\ task' = [task EXCEPT ![t] = Idle]
  /\ UNCHANGED <<clock, published, inbox, storeVars, restarts>>
UpsertProfile(t) ==
  /\ task[t].pc = "upsert"
  /\ usage_profiles' = [usage_profiles EXCEPT ![task[t].event.target] =
                          task[t].event]
  /\ task' = [task EXCEPT ![t] = Idle]
  /\ UNCHANGED <<clock, published, inbox, applied, access_rate, quota, cells,
                 restarts>>

Upsert(t) == \/ ClearAccess(t) \/ ClearQuota(t) \/ StampCounters(t)
             \/ \E m \in RuleNames : InitMethod(t, m)
             \/ InitQuota(t) \/ UpsertProfile(t)

(* What one task may do next, given that it is not busy with anything else. *)
StartGrant(t) == \E e \in inbox[t] : \/ Skip(t, e)
                                     \/ AcceptUnparseable(t, e)
                                     \/ Accept(t, e)
Apply(t) == StartGrant(t) \/ Upsert(t)

Relay == \/ \E e \in GrantEvents : Publish(e)
         \/ \E t \in Tasks, e \in GrantEvents : Deliver(t, e)
         \/ \E t \in Tasks : Poll(t)

(* A crash or a restart: the statics are gone, the relay keeps its events.  *)
Restart ==
  /\ restarts < MaxRestarts
  /\ restarts' = restarts + 1
  /\ inbox' = NoInbox /\ task' = NoTask
  /\ applied' = NoGrant /\ usage_profiles' = NoGrant
  /\ access_rate' = NoAccessRate /\ quota' = NoQuota /\ cells' = <<>>
  /\ UNCHANGED <<clock, published>>

GrantsNext == Tick \/ Relay \/ Restart \/ \E t \in Tasks : Apply(t)
GrantsSpec == GrantsInit /\ [][GrantsNext]_grantVars

----------------------------------------------------------------------------
(* Properties.                                                              *)

Targeted == {e \in GrantEvents : e.target # None}
Applying(c) == \E t \in Tasks : task[t].pc # "idle" /\ task[t].event.target = c

(* No two tasks apply grants of one client at once.                         *)
OneAtATime ==
  \A t, u \in Tasks :
    /\ task[t].pc # "idle" /\ task[u].pc # "idle"
    /\ task[t].event.target = task[u].event.target
    => t = u

(* However often a grant is delivered, by whichever tasks, its counters are *)
(* created once, so a redelivery never gives back what was spent            *)
(* (should_apply_grant_event, lib.rs:117-152).                              *)
CountersOncePerGrant ==
  \A i, j \in DOMAIN cells :
    /\ cells[i].event = cells[j].event
    /\ cells[i].client = cells[j].client
    /\ cells[i].name = cells[j].name
    => i = j

(* Between upserts the stored profile of a client is the grant accepted     *)
(* last (lib.rs:779-786, 810-819): "the latest replaceable event per        *)
(* controller pubkey" is the active grant (nip document, :38-39).           *)
LatestGrantActive ==
  \A c \in Clients :
    applied[c] # None /\ ~Applying(c) /\ applied[c].content # Unparseable
      => usage_profiles[c] = applied[c]

(* The client's method counters, or its quota's, are those of grant e.      *)
AccessOf(c, e, names) ==
  \A m \in RuleNames :
    IF m \in names
    THEN access_rate[c][m] # None /\ cells[access_rate[c][m]].event = e
    ELSE access_rate[c][m] = None
QuotaOf(c, e) == IF e.content.quota = None THEN quota[c] = None
                 ELSE quota[c] # None /\ cells[quota[c]].event = e

(* Between upserts the counters of a client are those of its profile: one   *)
(* per rated rule and none besides (usage_profile/service.rs:16-52).        *)
CountersMatchProfile ==
  \A c \in Clients : usage_profiles[c] # None /\ ~Applying(c) =>
    LET e == usage_profiles[c] IN
      AccessOf(c, e, Rated(e.content)) /\ QuotaOf(c, e)

(* Where upserts of a client do not overlap, a published grant becomes the  *)
(* stored profile, unless a newer one is published, though its push was     *)
(* lost or the process restarted: the poller of lib.rs:769-793 recovers it. *)
PublishedGrantActive ==
  \A e \in Targeted :
    e.content # Unparseable /\ e \in published
      ~> \/ usage_profiles[e.target] = e
         \/ \E f \in published : f.target = e.target /\ Newer(f, e)
=============================================================================
