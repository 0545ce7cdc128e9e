------------------------------- MODULE Control -------------------------------
(****************************************************************************)
(* Control requests (kind 23198, CONTROL_REQUEST_KIND): a client with a     *)
(* `control` section in its grant opens, closes and re-prices channels and  *)
(* connects peers.  The loops of AccessControl handle them between wallet   *)
(* requests and grants (lib.rs:795-830), with authorize_control_method in   *)
(* the place of verify_access: no counter is touched, whatever rates the    *)
(* section states.  The node runs on while a handler does, and keeps its    *)
(* channels and peers across restarts.                                      *)
(****************************************************************************)
EXTENDS AccessControl

CONSTANTS Commands,    \* the control requests that clients may send
          Peers,       \* other lightning nodes
          Channels,    \* channels that exist at some time
          Fees,        \* values of a base fee and of a fee rate
          DefaultFees, \* the configuration LDK Node gives a new channel
          OldNodes,    \* what the node may have kept from earlier processes
          MaxCommands  \* bound: commands handled in a behaviour

Changing == {"open_channel", "close_channel", "set_channel_fees",
             "connect_peer", "disconnect_peer"}
Reading == {"list_channels", "list_peers", "get_channel_fees",
            "list_network_nodes", "get_network_node", "get_network_stats",
            "get_network_channel", "get_forwarding_history", "query_routes",
            "subscribe_notifications"}
(* These look for something the node may not know.                          *)
Lookups == {"get_network_node", "get_network_channel", "query_routes"}
SUPPORTED_CONTROL_METHODS == Changing \cup Reading \cup {"get_pending_htlcs"}

FeePairs == [base: Fees, rate: Fees]

PeerStates == {"unknown", "stored", "connected"}
ChannelStates == {"none", "open", "closing", "gone"}
ChannelRecords == [status: ChannelStates, peer: Peers, fees: FeePairs]

(* What the event is found to be: a request, a payload that is not one, or  *)
(* something encrypted in a way that the service does not know.             *)
Forms == {"request", "unparseable", "unsupported"}

(* A command: `valid` says whether its parameters are accepted; `host`      *)
(* whether open_channel names an address; `base` and `rate` are the fees    *)
(* that set_channel_fees names.                                             *)
ASSUME CommandsAssumption ==
  /\ Commands \subseteq [id: Nat, client: Clients, form: Forms,
                         method: STRING, valid: BOOLEAN, peer: Peers, host: BOOLEAN,
                         channel: Channels, force: BOOLEAN,
                         base: Fees \cup {None}, rate: Fees \cup {None}]
  /\ None \notin Commands /\ None \notin Fees /\ DefaultFees \in FeePairs
  /\ OldNodes \subseteq [peers: [Peers -> PeerStates],
                          channels: [Channels -> ChannelRecords]]
  /\ MaxCommands \in Nat

VARIABLES
  received,  \* how many control requests loops have taken
  command,   \* per loop, the control request it is handling
  peers,     \* the node's peers
  channels,  \* the node's channels
  feesSet    \* for the properties: the fees last set, by component
nodeVars == <<peers, channels, feesSet>>
controlVars == <<received, command, nodeVars>>
allControlVars == <<vars, controlVars>>

CommandSteps == {"idle", "authorize", "dispatch", "open", "apply", "respond"}
CommandOutcomes == {"NONE", "UNSUPPORTED_ENCRYPTION", "UNAUTHORIZED",
                    "RESTRICTED", "NOT_IMPLEMENTED", "NOT_FOUND", "OTHER",
                    "OK"}
NoCommand == [pc |-> "idle", request |-> None, details |-> None,
              outcome |-> "NONE", acted |-> FALSE, grants |-> {}]

(* `details` is the copy that find() in list_channels() returned; `acted`   *)
(* and `grants`, for the properties, say that the node was told to do       *)
(* something, and which grants were stored for the client since receipt.    *)
CommandRecords == [pc: CommandSteps, request: Commands \cup {None},
                   details: ChannelRecords \cup {None},
                   outcome: CommandOutcomes, acted: BOOLEAN,
                   grants: SUBSET (GrantEvents \cup {None})]

ControlTypeOK == /\ AccessTypeOK
                 /\ received \in 0..MaxCommands
                 /\ command \in [Loops -> CommandRecords]
                 /\ peers \in [Peers -> PeerStates]
                 /\ channels \in [Channels -> ChannelRecords]
                 /\ feesSet \in [Channels -> FeePairs]

ControlInit ==
  /\ Init
  /\ received = 0
  /\ command = [l \in Loops |-> NoCommand]
  /\ \E n \in OldNodes : peers = n.peers /\ channels = n.channels
  /\ feesSet = [c \in Channels |-> channels[c].fees]

----------------------------------------------------------------------------
(* handle_control_request.                                                  *)

IdleLoop(l) == /\ task[l].pc = "idle" /\ job[l].pc = "idle"
               /\ command[l].pc = "idle"

Advance(l, c) == command' = [command EXCEPT ![l] = c]
Reply(l, code) ==
  Advance(l, [command[l] EXCEPT !.pc = "respond", !.outcome = code])
Did(l) == Advance(l, [command[l] EXCEPT !.pc = "respond", !.outcome = "OK",
                                        !.acted = TRUE])

(* What does not decrypt is dropped without an answer, as if it had been    *)
(* lost.                                                                    *)
ReceiveCommand(l, r) ==
  /\ IdleLoop(l) /\ received < MaxCommands
  /\ received' = received + 1
  /\ Advance(l, [NoCommand EXCEPT !.pc = "authorize", !.request = r,
                                  !.grants = {usage_profiles[r.client]}])
  /\ UNCHANGED <<vars, nodeVars>>

(* Answered before anyone asks for the grant.                               *)
RefuseUnread(l) ==
  /\ command[l].pc = "authorize" /\ command[l].request.form # "request"
  /\ Reply(l, IF command[l].request.form = "unsupported"
              THEN "UNSUPPORTED_ENCRYPTION" ELSE "OTHER")
  /\ UNCHANGED <<vars, received, nodeVars>>

(* authorize_control_method.                                                *)
PermitsAsMethods(p, m) ==         \* mutant: no section, no restriction
  p.control # None => p.control \cap {m, "ALL"} # {}
PermitsControl(p, m) ==
  /\ p.control # None
  /\ p.control \cap {m, "ALL"} # {}

Authorizing(l) == /\ command[l].pc = "authorize"
                  /\ command[l].request.form = "request"
StoredGrant(l) == usage_profiles[command[l].request.client]
Authorized(l) == /\ StoredGrant(l) # None
                 /\ PermitsControl(StoredGrant(l).content,
                                   command[l].request.method)

RefuseCommand(l) ==
  /\ Authorizing(l) /\ ~Authorized(l)
  /\ Reply(l, IF StoredGrant(l) = None THEN "UNAUTHORIZED" ELSE "RESTRICTED")
  /\ UNCHANGED <<vars, received, nodeVars>>

PermitCommand(l) ==
  /\ Authorizing(l) /\ Authorized(l)
  /\ Advance(l, [command[l] EXCEPT !.pc = "dispatch"])
  /\ UNCHANGED <<vars, received, nodeVars>>

----------------------------------------------------------------------------
(* process_control_request: the chain of `if request.method == ..`.         *)

Dispatching(l, m) == /\ command[l].pc = "dispatch"
                     /\ command[l].request.method = m
                     /\ command[l].request.valid

(* What needs no step of the node: a method that is not in the list, or is  *)
(* in it without a branch of its own; parameters that are refused; a query, *)
(* answered from what the node and the stores hold, which a lookup may not  *)
(* find or fail on.                                                         *)
CodesAtOnce(r) ==
  CASE r.method \notin Changing \cup Reading -> {"NOT_IMPLEMENTED"}
    [] ~r.valid -> {"OTHER"}
    [] r.method \in Lookups -> {"OK", "NOT_FOUND", "OTHER"}
    [] OTHER -> {"OK"}

AnswerAtOnce(l) ==
  /\ command[l].pc = "dispatch"
  /\ command[l].request.method \in Changing => ~command[l].request.valid
  /\ \E code \in CodesAtOnce(command[l].request) : Reply(l, code)
  /\ UNCHANGED <<vars, received, nodeVars>>

(* open_channel without a host needs the address of a connected peer.       *)
AwaitPeer(l) ==                           \* mutant: waits until it is connected
  /\ Dispatching(l, "open_channel")
  /\ LET r == command[l].request IN r.host \/ peers[r.peer] = "connected"
  /\ Advance(l, [command[l] EXCEPT !.pc = "open"])
  /\ UNCHANGED <<vars, received, nodeVars>>
LookUpPeer(l) ==
  /\ Dispatching(l, "open_channel")
  /\ LET r == command[l].request IN
       IF r.host \/ peers[r.peer] = "connected"
       THEN Advance(l, [command[l] EXCEPT !.pc = "open"])
       ELSE Reply(l, "OTHER")
  /\ UNCHANGED <<vars, received, nodeVars>>

(* The node connects first, if it has to; then a channel exists, or not.    *)
OpenChannel(l) ==
  /\ command[l].pc = "open"
  /\ LET p == command[l].request.peer IN
       /\ peers' = [peers EXCEPT ![p] = "connected"]
       /\ \E c \in Channels :
            /\ channels[c].status = "none"
            /\ channels' = [channels EXCEPT ![c] =
                 [status |-> "open", peer |-> p, fees |-> DefaultFees]]
            /\ feesSet' = [feesSet EXCEPT ![c] = DefaultFees]
  /\ Did(l)
  /\ UNCHANGED <<vars, received>>

FailToOpen(l) ==
  /\ command[l].pc = "open"
  /\ \E s \in {peers[command[l].request.peer], "connected"} :
       peers' = [peers EXCEPT ![command[l].request.peer] = s]
  /\ Reply(l, "OTHER")
  /\ UNCHANGED <<vars, received, channels, feesSet>>

ConnectPeer(l) ==
  /\ Dispatching(l, "connect_peer")
  /\ \/ /\ peers' = [peers EXCEPT ![command[l].request.peer] = "connected"]
        /\ Did(l)
     \/ Reply(l, "OTHER") /\ UNCHANGED peers
  /\ UNCHANGED <<vars, received, channels, feesSet>>

(* The key may not parse, or the node refuse.                               *)
DisconnectPeer(l) ==
  /\ Dispatching(l, "disconnect_peer")
  /\ \/ /\ peers' = [peers EXCEPT ![command[l].request.peer] = "unknown"]
        /\ Did(l)
     \/ Reply(l, "OTHER") /\ UNCHANGED peers
  /\ UNCHANGED <<vars, received, channels, feesSet>>

(* close_channel and set_channel_fees find the channel in a list, and then  *)
(* act on what they found.                                                  *)
Listed(c) == channels[c].status \in {"open", "closing"}
FindChannel(l) ==
  /\ Dispatching(l, "close_channel") \/ Dispatching(l, "set_channel_fees")
  /\ LET c == command[l].request.channel IN
       IF Listed(c)
       THEN Advance(l, [command[l] EXCEPT !.pc = "apply",
                                          !.details = channels[c]])
       ELSE Reply(l, "OTHER")
  /\ UNCHANGED <<vars, received, nodeVars>>

Acting(l, m) == command[l].pc = "apply" /\ command[l].request.method = m

(* A forced close takes the channel off the list; the other one waits for   *)
(* the peer.                                                                *)
CloseChannel(l) ==
  /\ Acting(l, "close_channel") /\ Listed(command[l].request.channel)
  /\ LET r == command[l].request IN
       channels' = [channels EXCEPT ![r.channel].status =
                      IF r.force THEN "gone" ELSE "closing"]
  /\ Did(l)
  /\ UNCHANGED <<vars, received, peers, feesSet>>

Or(value, other) == IF value = None THEN other ELSE value
Overwritten(fees, r) == [base |-> r.base, rate |-> r.rate] \* mutant: no merge
MergedWith(fees, r) == [base |-> Or(r.base, fees.base),
                        rate |-> Or(r.rate, fees.rate)]

OverDefaults(l) ==                      \* mutant: ChannelConfig::default()
  MergedWith(DefaultFees, command[l].request)
NewFees(l) == MergedWith(command[l].details.fees, command[l].request)
SetChannelFees(l) ==
  /\ Acting(l, "set_channel_fees") /\ Listed(command[l].request.channel)
  /\ LET c == command[l].request.channel IN
       /\ channels' = [channels EXCEPT ![c].fees = NewFees(l)]
       /\ feesSet' = [feesSet EXCEPT ![c] =
                        MergedWith(@, command[l].request)]
  /\ Did(l)
  /\ UNCHANGED <<vars, received, peers>>

(* The channel has gone since it was found, or the node refuses.            *)
FailToApply(l) ==
  /\ command[l].pc = "apply"
  /\ Reply(l, "OTHER")
  /\ UNCHANGED <<vars, received, nodeVars>>

RespondCommand(l) ==
  /\ command[l].pc = "respond"
  /\ Advance(l, NoCommand)
  /\ UNCHANGED <<vars, received, nodeVars>>

Command(l) ==
  \/ RefuseUnread(l) \/ RefuseCommand(l) \/ PermitCommand(l)
  \/ AnswerAtOnce(l)
  \/ LookUpPeer(l) \/ OpenChannel(l) \/ FailToOpen(l)
  \/ ConnectPeer(l) \/ DisconnectPeer(l)
  \/ FindChannel(l) \/ CloseChannel(l) \/ SetChannelFees(l) \/ FailToApply(l)
  \/ RespondCommand(l)

----------------------------------------------------------------------------
(* The node: a connection breaks or comes back, a channel is closed by the  *)
(* peer or has finished closing.                                            *)
PeerMoves(p) ==
  /\ \/ peers[p] = "connected" /\ peers' = [peers EXCEPT ![p] = "stored"]
     \/ peers[p] = "stored" /\ peers' = [peers EXCEPT ![p] = "connected"]
  /\ UNCHANGED <<vars, received, command, channels, feesSet>>

ChannelGone(c) ==
  /\ Listed(c)
  /\ channels' = [channels EXCEPT ![c].status = "gone"]
  /\ UNCHANGED <<vars, received, command, peers, feesSet>>

NodeMoves == \/ \E p \in Peers : PeerMoves(p)
             \/ \E c \in Channels : ChannelGone(c)

(* The other work of a loop waits for a command, and the command for it.    *)
Remembering == [l \in Loops |->
  IF command[l].pc = "idle" THEN command[l]
  ELSE [command[l] EXCEPT !.grants =
          @ \cup {usage_profiles'[command[l].request.client]}]]

GrantStep(t) == /\ t \in Loops => command[t].pc = "idle"
                /\ ApplyGrant(t)
                /\ command' = Remembering
                /\ UNCHANGED <<received, nodeVars>>

WalletStep(l) == /\ \/ Handle(l)
                    \/ \E r \in pending : IdleLoop(l) /\ Receive(l, r)
                 /\ UNCHANGED controlVars

(* The node keeps its channels and its peers, and connects to them again.   *)
RestartControl ==
  /\ RestartService
  /\ command' = [l \in Loops |-> NoCommand]
  /\ peers' = [p \in Peers |-> IF peers[p] = "unknown" THEN "unknown"
                               ELSE "stored"]
  /\ UNCHANGED <<received, channels, feesSet>>

ControlNext ==
  \/ Environment /\ UNCHANGED controlVars
  \/ \E t \in Tasks : GrantStep(t)
  \/ \E l \in Loops : WalletStep(l) \/ Command(l)
                      \/ \E r \in Commands : ReceiveCommand(l, r)
  \/ NodeMoves
  \/ RestartControl

ControlSpec == ControlInit /\ [][ControlNext]_allControlVars

(* As in AccessControl: the runtime runs a loop that can go on.             *)
ControlFairSpec == ControlSpec /\ \A l \in Loops : WF_allControlVars(Command(l))

----------------------------------------------------------------------------
(* Properties.                                                              *)

(* The node is told to do something only under a grant that was stored for  *)
(* the client, and had that method or "ALL" in its control section, at some *)
(* time since the command was received: not under one replaced before, nor  *)
(* under its wallet methods (lib.rs:2617-2638).                             *)
ActsUnderGrant ==
  \A l \in Loops : command[l].acted =>
    \E e \in command[l].grants \ {None} :
      e.content.control # None
        /\ \E m \in e.content.control :
             m = "ALL" \/ m = command[l].request.method

(* While one loop handles commands, the fees of a listed channel are those  *)
(* last set, component by component, though set_channel_fees writes a whole *)
(* configuration that it read before (ldk_service.rs:637-667).              *)
FeesAsSet == \A c \in Channels : Listed(c) => channels[c].fees = feesSet[c]

(* Every command a loop takes is answered, whatever the node and the grants *)
(* do meanwhile, unless the process stops.                                  *)
EveryCommandAnswered ==
  \A l \in Loops : command[l].pc # "idle" ~> command[l].pc = "idle"
=============================================================================
