----------------------------- MODULE HeaderSync -----------------------------
(***************************************************************************)
(* HeaderSyncManager, the INV handler of BlockRelayManager that shares its *)
(* sync peer, and what they use of MisbehaviorManager and of               *)
(* PeerLifecycleManager.                                                   *)
(*                                                                         *)
(* Two threads run this code.  RealTransport owns an io_context and a      *)
(* thread of its own, and the receive callbacks run there: "transport"     *)
(* below.  NetworkManager owns another io_context, whose thread runs the   *)
(* timers and the posted disconnects: "reactor" below.  A message handler  *)
(* is one step of the transport thread.  A timer handler of the reactor is *)
(* two steps, what it reads and what it does.                              *)
(***************************************************************************)
EXTENDS Integers, FiniteSets, Sequences, FiniteSetsExt

CONSTANTS
    Outbound, Inbound, Feelers, \* peer ids by connection type
    NoBan,                      \* peers with NetPermissionFlags::NoBan
    Honest,      \* peers that answer every request in time and never close
    LowWork,     \* peers that, once the initial download is over, may answer
                 \* from a long branch far below the anti-DoS work threshold
    Unsolicited, \* kinds of message a peer may send without being asked
    MaxChunk,    \* bound: messages in one chunk of received data
    BestHeight,  \* height of the heaviest chain of the network
    IbdHeight,   \* height at which the initial block download is over
    MAX_HEADERS_SIZE,
    kMaxUnsolicitedAnnouncement,
    kHeadersSyncTimeout,
    DISCOURAGEMENT_THRESHOLD,
    MAX_UNCONNECTING_HEADERS,
    Severe,      \* penalty of an invalid header or proof of work, of too
                 \* many orphans and of too many unconnecting messages
    Minor        \* penalty of headers that are not continuous

Peers == Outbound \cup Inbound \cup Feelers

NO_SYNC_PEER == -1

Kinds == {"empty", "unconnecting", "orphans", "invalid", "noncontinuous",
          "refused", "announce", "inv"}

ASSUME PeersAssumption ==
    /\ Peers \subseteq Nat
    /\ Outbound \cap Inbound = {}
    /\ Feelers \cap (Outbound \cup Inbound) = {}
    /\ NoBan \subseteq Peers /\ Honest \subseteq Peers
    /\ LowWork \subseteq Peers /\ Honest \cap LowWork = {}

ASSUME LimitsAssumption ==
    /\ BestHeight \in Nat /\ IbdHeight \in Nat
    /\ MAX_HEADERS_SIZE \in Nat \ {0, 1}
    /\ kMaxUnsolicitedAnnouncement \in Nat \ {0}
    /\ kHeadersSyncTimeout \in Nat
    /\ MAX_UNCONNECTING_HEADERS \in Nat \ {0}
    /\ Minor \in Nat /\ Severe \in Nat
    /\ DISCOURAGEMENT_THRESHOLD \in Nat \ {0}
    /\ DISCOURAGEMENT_THRESHOLD <= Severe
    /\ Unsolicited \subseteq Kinds
    /\ MaxChunk \in Nat

VARIABLES
    peers,        \* peer_states_: the connected peers
    conn,         \* Peer::state_: "absent", "handshake", "ready", "closed"
    verack,       \* Peer::successfully_connected_
    closing,      \* peers whose do_disconnect is posted to the reactor
    score,        \* misbehavior_score, capped at the threshold
    unconnecting, \* num_unconnecting_headers_msgs, capped at its limit
    syncPeer,     \* sync_state_.sync_peer_id
    syncStarted,  \* Peer::sync_started_
    age,          \* time since sync_state_.last_headers_received_us, capped
    late,         \* history: a peer that remove_peer had erased became sync peer
    height,       \* height of our tip
    pending,      \* per peer, the fork points of unanswered GETHEADERS
    rx,           \* transport: whose chunk it processes and what is left
    timer         \* reactor: the timer handler it is in and the peer it read

peerVars == <<peers, conn, verack, closing, score, unconnecting>>
syncVars == <<syncPeer, syncStarted, age, late>>
vars == <<peerVars, syncVars, height, pending, rx, timer>>

Message == [kind : Kinds, first : {0}, count : {0, 1}]
    \cup [kind : {"headers", "fork"}, first : 1..(BestHeight + 1),
          count : 0..MAX_HEADERS_SIZE]

TypeOK ==
    /\ peers \subseteq Peers /\ verack \subseteq Peers
    /\ closing \subseteq Peers /\ syncStarted \subseteq Peers
    /\ conn \in [Peers -> {"absent", "handshake", "ready", "closed"}]
    /\ score \in [Peers -> 0..DISCOURAGEMENT_THRESHOLD]
    /\ unconnecting \in [Peers -> 0..MAX_UNCONNECTING_HEADERS]
    /\ syncPeer \in Peers \cup {NO_SYNC_PEER}
    /\ age \in 0..(kHeadersSyncTimeout + 1) /\ late \in BOOLEAN
    /\ height \in 0..BestHeight
    /\ pending \in [Peers -> SUBSET (0..BestHeight)]
    /\ rx.peer \in Peers \cup {NO_SYNC_PEER} /\ rx.msgs \in Seq(Message)
    /\ timer.at \in {"idle", "select", "stall", "notify"}
    /\ timer.peer \in Peers \cup {NO_SYNC_PEER}

IdleTimer == [at |-> "idle", peer |-> NO_SYNC_PEER]

Init ==
    /\ peers = {} /\ verack = {} /\ closing = {}
    /\ conn = [p \in Peers |-> "absent"]
    /\ score = [p \in Peers |-> 0]
    /\ unconnecting = [p \in Peers |-> 0]
    /\ syncPeer = NO_SYNC_PEER /\ syncStarted = {} /\ age = 0 /\ late = FALSE
    /\ height = 0
    /\ pending = [p \in Peers |-> {}]
    /\ rx = [peer |-> NO_SYNC_PEER, msgs |-> <<>>]
    /\ timer = IdleTimer

-----------------------------------------------------------------------------
(* Helpers of the two handlers. *)

\* The latch of IsInitialBlockDownload: our height never falls here, so the
\* latch is the comparison.
IsInitialBlockDownload == height < IbdHeight

\* Mutant: the parent of the tip without the test for genesis.
LocatorForkUnchecked(h) == h - 1

\* GetLocatorFromPrev: the locator starts at the tip's parent, so this is the
\* fork point an honest peer answers from.
LocatorFork(h) == IF h > 0 THEN h - 1 ELSE 0

\* RequestHeadersFromPeer; send_message drops what is for a closed peer.
RequestHeaders(pend, p, h) ==
    IF conn[p] = "closed" THEN pend
    ELSE [pend EXCEPT ![p] = @ \cup {LocatorFork(h)}]

\* HandleGetHeadersMessage of an honest peer: what follows the fork point.
Answer(f) ==
    [kind |-> "headers", first |-> f + 1,
     count |-> Min({MAX_HEADERS_SIZE, BestHeight - f})]

\* The same handler on the long light branch: a full batch from the fork.
ForkAnswer(f) == [kind |-> "fork", first |-> f + 1, count |-> MAX_HEADERS_SIZE]

Misbehaving(p, penalty) ==
    IF p \in peers
    THEN [score EXCEPT ![p] = Min({@ + penalty, DISCOURAGEMENT_THRESHOLD})]
    ELSE score

\* IncrementUnconnectingHeaders, whose latch never shows: it is set when the
\* score reaches the threshold, and a score there has no further effect.
IncrementUnconnecting(p) ==
    IF p \in peers
    THEN [unconnecting EXCEPT ![p] = Min({@ + 1, MAX_UNCONNECTING_HEADERS})]
    ELSE unconnecting

ResetUnconnecting(p) ==
    IF p \in peers THEN [unconnecting EXCEPT ![p] = 0] ELSE unconnecting

\* Mutant: the threshold itself is still tolerated.
ShouldDisconnectAbove(sc, p) ==
    p \in peers /\ p \notin NoBan /\ sc[p] > DISCOURAGEMENT_THRESHOLD

\* ShouldDisconnect: only the crossing of the threshold sets should_discourage,
\* and every crossing is followed by this test.
ShouldDisconnect(sc, p) ==
    /\ p \in peers
    /\ p \notin NoBan
    /\ sc[p] >= DISCOURAGEMENT_THRESHOLD

\* Mutant: the sync peer outlives its connection.
SyncPeerKept(p) == syncPeer

\* OnPeerDisconnected, given the map from which peer p is already erased.
SyncPeerAfter(p) == IF syncPeer = p THEN NO_SYNC_PEER ELSE syncPeer

SyncStartedAfter(p, remaining) ==
    IF syncPeer = p THEN syncStarted \ (remaining \cap (Outbound \cup Feelers))
                    ELSE syncStarted

\* remove_peer called by a message handler: erase, notify, and post the
\* disconnect, because the transport thread is not the reactor's.
DropIf(disconnect, p) ==
    /\ peers' = IF disconnect THEN peers \ {p} ELSE peers
    /\ closing' = IF disconnect THEN closing \cup {p} ELSE closing
    /\ syncStarted' = IF disconnect THEN SyncStartedAfter(p, peers \ {p})
                                    ELSE syncStarted

-----------------------------------------------------------------------------
(* HandleHeadersMessage, by what the message turns out to be. *)

\* Large batches of other peers are ignored during the initial download.
Gated(p, m) ==
    /\ IsInitialBlockDownload
    /\ m.count > kMaxUnsolicitedAnnouncement
    /\ syncPeer # p

\* A batch that is penalised: the sender may be dropped, and the sync peer is
\* cleared whoever sent the batch.
PenalisedHeaders(p, penalty, connects) ==
    /\ score' = Misbehaving(p, penalty)
    /\ unconnecting' = IF connects THEN ResetUnconnecting(p)
                                   ELSE IncrementUnconnecting(p)
    /\ DropIf(ShouldDisconnect(score', p), p)
    /\ syncPeer' = NO_SYNC_PEER
    /\ UNCHANGED <<height, pending>>

\* The first header's parent is unknown; the headers are kept as orphans.
UnconnectingHeaders(p) ==
    /\ unconnecting' = IncrementUnconnecting(p)
    /\ score' = IF unconnecting'[p] = MAX_UNCONNECTING_HEADERS
                THEN Misbehaving(p, Severe) ELSE score
    /\ DropIf(ShouldDisconnect(score', p), p)
    /\ syncPeer' = IF ShouldDisconnect(score', p) THEN SyncPeerAfter(p)
                                                  ELSE syncPeer
    /\ UNCHANGED <<height, pending>>

\* Mutant: asks again after every batch, not only after a full one.
AcceptedHeadersAskAgain(p, last, full) ==
    /\ height' = Max({height, last})
    /\ pending' = RequestHeaders(pending, p, height')
    /\ unconnecting' = ResetUnconnecting(p)
    /\ UNCHANGED <<peers, closing, score, syncPeer, syncStarted>>

\* A batch that is accepted: activation, and a further request if it was full.
AcceptedHeaders(p, last, full) ==
    /\ height' = Max({height, last})
    /\ pending' = IF full THEN RequestHeaders(pending, p, height') ELSE pending
    /\ unconnecting' = ResetUnconnecting(p)
    /\ UNCHANGED <<peers, closing, score, syncPeer, syncStarted>>

\* A refused ActivateBestChain or an unknown reject reason ends the batch.
RefusedHeaders(p) ==
    /\ syncPeer' = NO_SYNC_PEER
    /\ unconnecting' = ResetUnconnecting(p)
    /\ UNCHANGED <<peers, closing, score, syncStarted, height, pending>>

HandleHeadersMessage(p, m) ==
    IF Gated(p, m)
    THEN UNCHANGED <<peers, closing, score, unconnecting, syncVars, height,
                     pending>>
    ELSE /\ age' = 0 /\ UNCHANGED late
         /\ \/ /\ m.count = 0
               /\ UNCHANGED <<peers, closing, score, unconnecting, syncPeer,
                              syncStarted, height, pending>>
            \/ m.kind = "unconnecting" /\ UnconnectingHeaders(p)
            \/ m.kind = "orphans" /\ PenalisedHeaders(p, Severe, FALSE)
            \/ m.kind = "invalid" /\ PenalisedHeaders(p, Severe, TRUE)
            \/ m.kind = "noncontinuous" /\ PenalisedHeaders(p, Minor, TRUE)
            \/ m.kind = "refused" /\ RefusedHeaders(p)
            \/ /\ m.kind = "announce"
               /\ AcceptedHeaders(p, Min({height + 1, BestHeight}), FALSE)
            \/ /\ m.kind = "headers" /\ m.count > 0
               /\ AcceptedHeaders(p, m.first + m.count - 1,
                                  m.count = MAX_HEADERS_SIZE)
            \/ /\ m.kind = "fork" \* too little work: skipped, not stored
               /\ AcceptedHeaders(p, 0, m.count = MAX_HEADERS_SIZE)

\* Mutant: whoever announces is adopted.
AdoptAnyone(p) == p \in Peers

\* Only a connection we opened is adopted as sync peer.
Adoptable(p) == p \notin Inbound

\* SetSyncPeerUnlocked, the flag of the peer and its request.  Neither caller
\* looks whether the peer is still in the map.
SetSyncPeerUnlocked(p) ==
    /\ syncPeer' = p /\ age' = 0
    /\ syncStarted' = syncStarted \cup {p}
    /\ pending' = RequestHeaders(pending, p, height)
    /\ late' = (late \/ p \notin peers)

\* HandleInvMessage for a message that announces the network's best block.
HandleInvMessage(p) ==
    /\ UNCHANGED <<peers, closing, score, unconnecting, height>>
    /\ IF height = BestHeight \* already in the index
       THEN UNCHANGED <<syncVars, pending>>
       ELSE IF IsInitialBlockDownload /\ syncPeer = NO_SYNC_PEER /\ Adoptable(p)
       THEN SetSyncPeerUnlocked(p)
       ELSE /\ UNCHANGED syncVars
            /\ pending' = IF IsInitialBlockDownload /\ syncPeer # p THEN pending
                          ELSE RequestHeaders(pending, p, height)

-----------------------------------------------------------------------------
(* The transport thread. *)

\* allocate_peer_id hands out ids in order, so a peer connects once.
Connect(p) ==
    /\ conn[p] = "absent"
    /\ \A q \in Peers : q < p => conn[q] # "absent"
    /\ conn' = [conn EXCEPT ![p] = "handshake"]
    /\ peers' = peers \cup {p}
    /\ UNCHANGED <<verack, closing, score, unconnecting, syncVars, height,
                   pending, rx, timer>>

Busy == rx.msgs # <<>>

\* handle_verack; a feeler asks to be disconnected instead.
HandleVerack(p) ==
    /\ ~Busy /\ conn[p] = "handshake"
    /\ p \in Feelers => p \notin closing
    /\ IF p \in Feelers
       THEN closing' = closing \cup {p} /\ UNCHANGED <<conn, verack>>
       ELSE /\ conn' = [conn EXCEPT ![p] = "ready"]
            /\ verack' = verack \cup {p}
            /\ UNCHANGED closing
    /\ UNCHANGED <<peers, score, unconnecting, syncVars, height, pending, rx,
                   timer>>

\* INV or HEADERS before VERACK: the dispatcher's gate, or the handshake
\* timeout, asks for a disconnect, and a VERACK may still come before it.
AbortHandshake(p) ==
    /\ ~Busy /\ conn[p] = "handshake" /\ p \notin Honest \cup closing
    /\ closing' = closing \cup {p}
    /\ UNCHANGED <<peers, conn, verack, score, unconnecting, syncVars, height,
                   pending, rx, timer>>

\* on_transport_disconnect: the remote side closed.
TransportDisconnect(p) ==
    /\ ~Busy /\ conn[p] \in {"handshake", "ready"} /\ p \notin Honest
    /\ conn' = [conn EXCEPT ![p] = "closed"]
    /\ pending' = [pending EXCEPT ![p] = {}]
    /\ UNCHANGED <<peers, verack, closing, score, unconnecting, syncVars,
                   height, rx, timer>>

\* A chunk of data arrives; the receive callback is cleared on disconnect.
ReceiveAnswer(p) ==
    /\ ~Busy /\ conn[p] = "ready"
    /\ \E f \in pending[p] :
        /\ \/ rx' = [peer |-> p, msgs |-> <<Answer(f)>>]
           \/ /\ p \in LowWork /\ ~IsInitialBlockDownload
              /\ rx' = [peer |-> p, msgs |-> <<ForkAnswer(f)>>]
        /\ pending' = [pending EXCEPT ![p] = @ \ {f}]
    /\ UNCHANGED <<peerVars, syncVars, height, timer>>

\* Anything a peer sends of its own accord; its HEADERS are small ones, the
\* larger ones are answers.
ReceiveUnsolicited(p) ==
    /\ ~Busy /\ conn[p] = "ready" /\ p \notin Honest
    /\ \E n \in 1..MaxChunk : \E kinds \in [1..n -> Unsolicited] :
        rx' = [peer |-> p,
               msgs |-> [i \in 1..n |->
                    [kind |-> kinds[i], first |-> 0,
                     count |-> IF kinds[i] = "empty" THEN 0 ELSE 1]]]
    /\ UNCHANGED <<peerVars, syncVars, height, pending, timer>>

\* An honest peer announces the block it has and we have not.
ReceiveInv(p) ==
    /\ ~Busy /\ conn[p] = "ready" /\ p \in Honest /\ height < BestHeight
    /\ rx' = [peer |-> p, msgs |-> <<[kind |-> "inv", first |-> 0, count |-> 1]>>]
    /\ UNCHANGED <<peerVars, syncVars, height, pending, timer>>

\* The loop of process_received_data: the next message of the chunk goes to
\* its handler, also when an earlier one had the peer removed.
ProcessMessage ==
    /\ Busy
    /\ LET m == Head(rx.msgs) IN
       IF m.kind = "inv" THEN HandleInvMessage(rx.peer)
                         ELSE HandleHeadersMessage(rx.peer, m)
    /\ rx' = [peer |-> IF Len(rx.msgs) = 1 THEN NO_SYNC_PEER ELSE rx.peer,
              msgs |-> Tail(rx.msgs)]
    /\ UNCHANGED <<conn, verack, timer>>

-----------------------------------------------------------------------------
(* The reactor thread. *)

Selectable == {p \in peers \cap Outbound : p \in verack /\ p \notin syncStarted}

\* CheckInitialSync up to its choice of a peer ...
CheckInitialSync ==
    /\ timer.at = "idle"
    /\ syncPeer = NO_SYNC_PEER
    /\ Selectable # {}
    /\ timer' = [at |-> "select", peer |-> Min(Selectable)]
    /\ UNCHANGED <<peerVars, syncVars, height, pending, rx>>

\* ... and what it does with it.
SetSyncPeer ==
    /\ timer.at = "select"
    /\ SetSyncPeerUnlocked(timer.peer)
    /\ timer' = IdleTimer
    /\ UNCHANGED <<peerVars, height, rx>>

\* ProcessTimers up to its decision ...
ProcessTimers ==
    /\ timer.at = "idle"
    /\ syncPeer # NO_SYNC_PEER
    /\ age > kHeadersSyncTimeout
    /\ timer' = [at |-> "stall", peer |-> syncPeer]
    /\ UNCHANGED <<peerVars, syncVars, height, pending, rx>>

\* ... and its call of remove_peer, which ignores a peer it does not find.
RemoveStalledPeer ==
    /\ timer.at = "stall"
    /\ peers' = peers \ {timer.peer}
    /\ timer' = IF timer.peer \in peers THEN [timer EXCEPT !.at = "notify"]
                                        ELSE IdleTimer
    /\ UNCHANGED <<conn, verack, closing, score, unconnecting, syncVars,
                   height, pending, rx>>

\* process_periodic removes closed connections and feelers that live too long.
ProcessPeriodic(p) ==
    /\ timer.at = "idle"
    /\ p \in peers
    /\ conn[p] = "closed" \/ p \in Feelers
    /\ peers' = peers \ {p}
    /\ timer' = [at |-> "notify", peer |-> p]
    /\ UNCHANGED <<conn, verack, closing, score, unconnecting, syncVars,
                   height, pending, rx>>

\* The rest of remove_peer: OnPeerDisconnected, then do_disconnect.
NotifyPeerDisconnected ==
    /\ timer.at = "notify"
    /\ syncPeer' = SyncPeerAfter(timer.peer)
    /\ syncStarted' = SyncStartedAfter(timer.peer, peers)
    /\ conn' = [conn EXCEPT ![timer.peer] = "closed"]
    /\ pending' = [pending EXCEPT ![timer.peer] = {}]
    /\ timer' = IdleTimer
    /\ UNCHANGED <<peers, verack, closing, score, unconnecting, age, late, height, rx>>

\* A posted do_disconnect runs.
DoDisconnect(p) ==
    /\ timer.at = "idle"
    /\ p \in closing
    /\ closing' = closing \ {p}
    /\ conn' = [conn EXCEPT ![p] = "closed"]
    /\ pending' = [pending EXCEPT ![p] = {}]
    /\ UNCHANGED <<peers, verack, score, unconnecting, syncVars, height, rx,
                   timer>>

-----------------------------------------------------------------------------

\* An honest peer's answer takes less than the timeout.
AnswersAreIn ==
    \A p \in Honest : conn[p] = "ready" =>
        /\ pending[p] = {}
        /\ ~(rx.peer = p /\ Head(rx.msgs).kind = "headers")

ClockTick ==
    /\ age <= kHeadersSyncTimeout
    /\ Honest # {} /\ age = kHeadersSyncTimeout => AnswersAreIn
    /\ age' = age + 1
    /\ UNCHANGED <<peerVars, syncPeer, syncStarted, late, height, pending, rx, timer>>

Transport ==
    \/ \E p \in Peers :
        \/ Connect(p)
        \/ HandleVerack(p)
        \/ AbortHandshake(p)
        \/ TransportDisconnect(p)
        \/ ReceiveAnswer(p)
        \/ ReceiveUnsolicited(p)
        \/ ReceiveInv(p)
    \/ ProcessMessage

Reactor ==
    \/ CheckInitialSync
    \/ SetSyncPeer
    \/ ProcessTimers
    \/ RemoveStalledPeer
    \/ NotifyPeerDisconnected
    \/ \E p \in Peers : ProcessPeriodic(p) \/ DoDisconnect(p)

Next == Transport \/ Reactor \/ ClockTick

Spec == Init /\ [][Next]_vars

\* Timers fire again and again, the reactor ends the handler it is in, the
\* transport thread works off its chunk, we keep connecting, time passes.  The
\* one transport thread serves every socket (strong fairness: it is busy in
\* between): an honest outbound peer completes its handshake, announces its tip
\* again and again (AnnounceTipToAllPeers of the remote node), and an honest
\* peer answers what it is asked.  The reactor runs posted handlers in order, so
\* DoDisconnect is not put off for ever by timers (strong fairness again).  Of
\* the other peers nothing is assumed.
Fairness ==
    /\ WF_vars(ProcessMessage)
    /\ WF_vars(CheckInitialSync) /\ WF_vars(ProcessTimers)
    /\ WF_vars(SetSyncPeer \/ RemoveStalledPeer \/ NotifyPeerDisconnected)
    /\ WF_vars(ClockTick)
    /\ WF_vars(\E p \in Peers : Connect(p))
    /\ WF_vars(\E p \in Peers : ProcessPeriodic(p))
    /\ SF_vars(\E p \in Peers : DoDisconnect(p))
    /\ \A p \in Honest \cap Outbound :
        SF_vars(HandleVerack(p)) /\ SF_vars(ReceiveInv(p))
    /\ SF_vars(\E p \in Honest : ReceiveAnswer(p))

FairSpec == Spec /\ Fairness

-----------------------------------------------------------------------------
(* What holds. *)

\* The sync peer is a full outbound connection that completed its handshake,
\* whichever of CheckInitialSync and HandleInvMessage adopted it, and although
\* the choice of CheckInitialSync may be old when it is carried out.
SyncPeerOutbound == syncPeer # NO_SYNC_PEER => syncPeer \in Outbound \cap verack

\* No peer without NoBan stays connected once its penalties have reached the
\* threshold, whatever mixture of messages they came from.
MisbehavingPeersRemoved ==
    \A p \in peers \ NoBan : score[p] < DISCOURAGEMENT_THRESHOLD

\* A batch that costs its sender nothing and holds up the download all the
\* same: an empty one restarts the stall timer, a refused one clears the sync
\* peer.
Unpenalised == Busy /\ Head(rx.msgs).kind \in {"empty", "refused"}

\* We reach the best chain although peers misbehave, stall or leave in the
\* middle of the download: the stall timer, OnPeerDisconnected, the next
\* CheckInitialSync and the adoption by INV find an honest peer.  Two things
\* only can prevent it: batches without a penalty that never end, and a sync
\* peer that was already erased when it was adopted.  remove_peer does not find
\* that one, so the stall timer never gets rid of it.
HeadersSynced ==
    \/ <>(height = BestHeight)
    \/ []<>Unpenalised
    \/ <>[](late /\ syncPeer # NO_SYNC_PEER /\ syncPeer \notin peers)

\* Unless batches without a penalty never end, the exchange of requests and
\* answers with an honest peer does, although every full batch makes a new
\* request.  It need not with a peer that answers below the work threshold: its
\* full batch is not stored, and is asked for again.
RequestsSettle ==
    <>[](\A p \in Honest : pending[p] = {}) \/ []<>Unpenalised
=============================================================================
