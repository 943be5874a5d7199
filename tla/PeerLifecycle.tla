---------------------------- MODULE PeerLifecycle ----------------------------
(***************************************************************************)
(* PeerLifecycleManager: the table of peers, its slots, and how outbound,  *)
(* feeler and inbound connections enter and leave it.                      *)
(*                                                                         *)
(* peer_states_ locks each access by itself, so what is read in one access *)
(* can be stale in the next.  Three threads work on the table: "reactor"   *)
(* (timers, posted connect callbacks), "rpc" (addnode, and main at startup *)
(* with the anchors) and "transport" (accepts, messages).  An address      *)
(* stands for an IP, and for outbound peers for its endpoint.  Bans change *)
(* at any time (see BanManager), so a check of them is a free choice.      *)
(***************************************************************************)
EXTENDS Integers, Sequences, FiniteSets

CONSTANTS
    Addresses,
    max_outbound_peers,     \* also target_outbound_peers
    max_inbound_peers,
    MAX_INBOUND_PER_IP,
    MaxPeerId               \* bound: peer ids

ASSUME SlotsAssumption ==
    /\ max_outbound_peers \in Nat \ {0} /\ max_inbound_peers \in Nat
    /\ MAX_INBOUND_PER_IP \in Nat
    /\ MaxPeerId \in Nat

Connectors == {"reactor", "rpc"}
Threads == Connectors \cup {"transport"}

\* allocate_peer_id starts at 1; 0 is for no peer.
NoPeer == 0

PeerInfo == [addr : Addresses, kind : {"inbound", "outbound", "feeler"},
             by : Threads]

VARIABLES
    info,     \* address, type and creating thread of each peer, by id
    peers,    \* peer_states_: the ids in the table
    started,  \* Peer::start() was called
    dialing,  \* outbound connections the transport still works on
    posted,   \* connect callbacks posted to the reactor: id and success
    checked,  \* per thread, the peer whose checks it passed on the way to
              \* connect and add it
    adding    \* per thread, the peer that it is about to insert

vars == <<info, peers, started, dialing, posted, checked, adding>>

Allocated == 1..Len(info)

TypeOK ==
    /\ info \in Seq(PeerInfo) /\ Len(info) <= MaxPeerId
    /\ peers \subseteq Allocated /\ started \subseteq peers
    /\ dialing \subseteq Allocated
    /\ posted \subseteq Allocated \X BOOLEAN
    /\ checked \in [Threads -> Allocated \cup {NoPeer}]
    /\ adding \in [Threads -> Allocated \cup {NoPeer}]

Init ==
    /\ info = <<>> /\ peers = {} /\ started = {}
    /\ dialing = {} /\ posted = {}
    /\ checked = [t \in Threads |-> NoPeer]
    /\ adding = [t \in Threads |-> NoPeer]

Idle(t) == checked[t] = NoPeer /\ adding[t] = NoPeer

-----------------------------------------------------------------------------
(* Counting.                                                               *)

\* Mutant: a peer takes a slot only when it is started.
OutboundStarted == {id \in started : info[id].kind = "outbound"}

\* outbound_count and the count of add_peer_with_id: feelers take no slot.
\* No code creates a manual peer.
Outbound == {id \in peers : info[id].kind = "outbound"}

Inbound == {id \in peers : info[id].kind = "inbound"}

NeedsMoreOutbound == Cardinality(Outbound) < max_outbound_peers

InboundFrom(a) == {id \in Inbound : info[id].addr = a}

\* Mutant: the limit per IP is not tested.
CanAcceptInbound(a) == Cardinality(Inbound) < max_inbound_peers

\* can_accept_inbound_from.
CanAcceptInboundFrom(a) ==
    /\ Cardinality(Inbound) < max_inbound_peers
    /\ Cardinality(InboundFrom(a)) < MAX_INBOUND_PER_IP

\* find_peer_by_address compares the port too, so it never meets an inbound
\* peer, whose port is the remote side's own choice.
FindPeerByAddress(a) ==
    {id \in peers : info[id].addr = a /\ info[id].kind # "inbound"}

-----------------------------------------------------------------------------
(* Outbound peers and feelers: check, connect, add.                        *)

\* allocate_peer_id.
Allocate(t, a, kind) ==
    /\ Idle(t)
    /\ Len(info) < MaxPeerId
    /\ info' = Append(info, [addr |-> a, kind |-> kind, by |-> t])
    /\ checked' = [checked EXCEPT ![t] = Len(info')]
    /\ UNCHANGED <<peers, started, posted, adding>>

\* ConnectTo of an address that is neither banned nor discouraged: called by
\* AttemptOutboundConnections on the reactor, by addnode and by
\* ConnectToAnchors.  transport->connect comes before the peer is added.
ConnectTo(t, a) ==
    /\ FindPeerByAddress(a) = {}
    /\ NeedsMoreOutbound
    /\ Allocate(t, a, "outbound")
    /\ dialing' = dialing \cup {Len(info')}

\* AttemptFeelerConnection asks for nothing before it connects.
AttemptFeelerConnection(a) ==
    /\ Allocate("reactor", a, "feeler")
    /\ dialing' = dialing \cup {Len(info')}

\* The checks of add_peer_with_id: the ban list again, and the slots.  When
\* they fail the connection is closed and its callback will find no peer.
AddPeerWithId(t) ==
    LET id == checked[t] IN
    /\ t \in Connectors /\ id # NoPeer
    /\ \/ /\ info[id].kind = "outbound" => NeedsMoreOutbound
          /\ adding' = [adding EXCEPT ![t] = id]
       \/ UNCHANGED adding
    /\ checked' = [checked EXCEPT ![t] = NoPeer]
    /\ UNCHANGED <<info, peers, started, dialing, posted>>

\* peer_states_.Insert of add_peer_with_id.
InsertPeer(t) ==
    /\ adding[t] # NoPeer
    /\ peers' = peers \cup {adding[t]}
    /\ adding' = [adding EXCEPT ![t] = NoPeer]
    /\ UNCHANGED <<info, started, dialing, posted, checked>>

\* Mutant: the callback does its work on the transport thread.
DialResultAtOnce(id, ok) ==
    /\ Idle("transport") /\ id \in dialing
    /\ dialing' = dialing \ {id}
    /\ started' = IF id \in peers /\ ok THEN started \cup {id} ELSE started \ {id}
    /\ peers' = IF ok THEN peers ELSE peers \ {id}
    /\ UNCHANGED <<info, posted, checked, adding>>

\* The connect callback of the transport posts its work to the reactor.
DialResult(id, ok) ==
    /\ Idle("transport") /\ id \in dialing
    /\ dialing' = dialing \ {id}
    /\ posted' = posted \cup {<<id, ok>>}
    /\ UNCHANGED <<info, peers, started, checked, adding>>

\* The posted callback.  A peer that is not in the table, not yet or no
\* longer, is forgotten; one whose connection failed is removed.
ConnectCallback(id, ok) ==
    /\ Idle("reactor") /\ <<id, ok>> \in posted
    /\ posted' = posted \ {<<id, ok>>}
    /\ started' = IF id \in peers /\ ok THEN started \cup {id} ELSE started \ {id}
    /\ peers' = IF ok THEN peers ELSE peers \ {id}
    /\ UNCHANGED <<info, dialing, checked, adding>>

-----------------------------------------------------------------------------
(* Inbound peers, on the transport thread.                                 *)

\* HandleInboundConnection.  A connection it refuses is closed.
HandleInboundConnection(a) ==
    /\ CanAcceptInboundFrom(a)
    /\ Allocate("transport", a, "inbound")
    /\ UNCHANGED dialing

\* add_peer and start(): the ban list again.  The slots were counted before by
\* the only thread that adds inbound peers, so add_peer finds one free and its
\* eviction has nothing to do.
AddPeer ==
    LET id == checked["transport"] IN
    /\ id # NoPeer
    /\ \/ peers' = peers \cup {id} /\ started' = started \cup {id}
       \/ UNCHANGED <<peers, started>>
    /\ checked' = [checked EXCEPT !["transport"] = NoPeer]
    /\ UNCHANGED <<info, dialing, posted, adding>>

-----------------------------------------------------------------------------
\* remove_peer.  On the reactor process_periodic, for a peer whose connection
\* ended (which a started peer's may at any time), a penalised one or an old
\* feeler; on the transport thread a penalty or a nonce collision; on the RPC
\* thread addnode remove.  When two threads remove a peer the second finds
\* nothing to erase.
RemovePeer(t, id) ==
    /\ Idle(t) /\ id \in peers
    /\ t = "reactor" => id \in started \/ info[id].kind = "feeler"
    /\ t = "transport" => id \in started
    /\ peers' = peers \ {id}
    /\ started' = started \ {id}
    /\ UNCHANGED <<info, dialing, posted, checked, adding>>

Next ==
    \/ \E a \in Addresses :
          \/ \E t \in Connectors : ConnectTo(t, a)
          \/ AttemptFeelerConnection(a) \/ HandleInboundConnection(a)
    \/ \E t \in Threads : AddPeerWithId(t) \/ InsertPeer(t)
    \/ AddPeer
    \/ \E id \in Allocated :
          \/ \E ok \in BOOLEAN : DialResult(id, ok) \/ ConnectCallback(id, ok)
          \/ \E t \in Threads : RemovePeer(t, id)

Spec == Init /\ [][Next]_vars

-----------------------------------------------------------------------------
(* Properties.                                                             *)

\* Inbound peers never exceed their limits, although no lock is kept from the
\* count to the insertion: one thread adds them.
InboundBounded ==
    /\ Cardinality(Inbound) <= max_inbound_peers
    /\ \A a \in Addresses : Cardinality(InboundFrom(a)) <= MAX_INBOUND_PER_IP

\* Outbound peers exceed theirs by at most one: two threads add them, and each
\* counts before it inserts.
OutboundBounded ==
    Cardinality(Outbound) <= max_outbound_peers + Cardinality(Connectors) - 1

\* A peer that the reactor connects is never stranded in the table: as long as
\* it is not started its connect callback is still to come, although the
\* connection may complete before the peer is added.
DialsFollowedUp ==
    \A id \in peers : info[id].by = "reactor" =>
        \/ id \in started \/ id \in dialing
        \/ \E ok \in BOOLEAN : <<id, ok>> \in posted
=============================================================================
