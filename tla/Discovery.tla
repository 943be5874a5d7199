------------------------------ MODULE Discovery ------------------------------
(***************************************************************************)
(* PeerDiscoveryManager with its AddressManager and AnchorManager, and the *)
(* connections that use and feed them: outbound dials and feelers on the   *)
(* reactor, addnode, ADDR and GETADDR on the transport thread, the save    *)
(* thread, shutdown, crashes and restarts.                                 *)
(*                                                                         *)
(* An outbound peer is named by its address.  An inbound peer has only an  *)
(* endpoint, the remote address and port of its socket: the port it dials  *)
(* from, not the one it listens on.  Others may gossip it all the same.    *)
(*                                                                         *)
(* remove_peer erases the PerPeerState first and disconnects later, with a *)
(* post to the reactor when it runs elsewhere: in between the messages of  *)
(* the peer are handled, but nothing is kept for it.                       *)
(*                                                                         *)
(* Ages are abstracted: of the entries of a LearnedMap that are younger    *)
(* than ECHO_SUPPRESS_TTL_SEC, those with the latest last_seen_s, a time   *)
(* in whole seconds, are told from the older ones; EchoExpires is their    *)
(* ageing.                                                                 *)
(***************************************************************************)
EXTENDS AddrManager, Sequences, SequencesExt

CONSTANTS
    Inbound,               \* inbound peers
    Endpoint,              \* where each connects from: peer->address(), port()
    FixedSeeds,
    max_outbound_peers,
    MAX_ADDR_SIZE, MAX_LEARNED_PER_PEER, RECENT_ADDRS_MAX,
    MAX_ANCHORS,
    NoReply,
    MaxRestarts            \* bound on crashes and shutdowns

Peers == Inbound \cup Addresses

ASSUME DiscoveryAssumption ==
    /\ Inbound \cap Addresses = {}
    /\ FixedSeeds \subseteq Addresses
    /\ max_outbound_peers \in Nat /\ MAX_ADDR_SIZE \in Nat
    /\ MAX_LEARNED_PER_PEER \in Nat /\ MAX_LEARNED_PER_PEER >= MAX_ADDR_SIZE
    /\ RECENT_ADDRS_MAX \in Nat /\ MaxRestarts \in Nat
    /\ MAX_ANCHORS \in 0..max_outbound_peers

VARIABLES
    running,   \* the process is up
    dialing,   \* outbound peers whose connection is not made yet
    feelers,   \* the same for feelers
    ready,     \* peers past VERACK; of the outbound ones no feeler
    removed,   \* inbound peers that remove_peer erased but has not disconnected
    learned,   \* LearnedMap of each peer: its latest and its older entries
    recent,    \* recent_addrs_
    sent,      \* what HandleGetAddr answered on this connection; of a peer
               \* in ready this is also its getaddr_replied
    anchors,   \* anchors.json
    restarts,
    told,      \* history: what inbound peers told us in the last second in
               \* which they did, while young enough
    reached    \* history: addresses that we did connect to

connVars == <<dialing, feelers, ready, removed>>
gossipVars == <<learned, recent, sent, told>>
vars == <<bookVars, running, connVars, gossipVars, anchors, restarts, reached>>

LearnedMap == [now : SUBSET Addresses, old : SUBSET Addresses]
NothingLearned == [now |-> {}, old |-> {}]
Entries(m) == m.now \cup m.old

TypeOK ==
    /\ book \in Book /\ file \in Book \cup {NoFile, Torn}
    /\ tmp \in Book \cup {NoFile, Torn}
    /\ saving \in {"idle", "written", "synced", "removed"}
    /\ running \in BOOLEAN /\ restarts \in 0..MaxRestarts
    /\ dialing \subseteq Addresses /\ feelers \subseteq Addresses
    /\ ready \subseteq Peers /\ removed \subseteq Inbound
    /\ learned \in [Peers -> LearnedMap]
    /\ Range(recent) \subseteq Addresses /\ Len(recent) <= RECENT_ADDRS_MAX
    /\ \A p \in Inbound : sent[p] \in (SUBSET Addresses) \cup {NoReply}
    /\ anchors \subseteq Addresses
    /\ told \in [Inbound -> SUBSET Addresses]
    /\ reached \subseteq Addresses

-----------------------------------------------------------------------------
(* Connections.                                                            *)

Outbound == dialing \cup (ready \cap Addresses)
Free(a) == a \notin Outbound \cup feelers
Serving == running /\ Unlocked

\* ConnectTo with a peer that is added: add_peer_with_id announces it as
\* connected at once, and PeerConnected adds it and marks it good.
Connecting(b, a) == Good(Add(b, a), a)

\* An address that select() returns.  It is tried, and then refused by the ban
\* list, or refused otherwise (no slot left, no socket), or connecting.
AttemptOutboundConnections(a) ==
    /\ Serving /\ a \in Known(book) /\ Free(a)
    /\ Cardinality(Outbound) < max_outbound_peers
    /\ \/ /\ \E stale \in BOOLEAN : book' = Failed(Attempt(book, a), a, stale)
          /\ UNCHANGED dialing
       \/ book' = Attempt(book, a) /\ UNCHANGED dialing
       \/ book' = Connecting(Attempt(book, a), a) /\ dialing' = dialing \cup {a}
    /\ UNCHANGED <<saving, tmp, file, running, feelers, ready, removed, gossipVars,
                   anchors, restarts, reached>>

\* connect_to by addnode: any address.
AddNode(a) ==
    /\ Serving /\ Free(a)
    /\ Cardinality(Outbound) < max_outbound_peers
    /\ book' = Connecting(book, a) /\ dialing' = dialing \cup {a}
    /\ UNCHANGED <<saving, tmp, file, running, feelers, ready, removed, gossipVars,
                   anchors, restarts, reached>>

\* The connect callback of an outbound peer: on_good and the handshake, which
\* may fail; or on_attempt and remove_peer.  PeerDisconnected comes when the
\* peer has left the table, where its handler looks, so it does nothing.
ConnectCallback(a) ==
    /\ Serving /\ a \in dialing
    /\ dialing' = dialing \ {a}
    /\ \/ /\ book' = Good(book, a) /\ reached' = reached \cup {a}
          /\ ready' \in {ready, ready \cup {a}}
       \/ book' = Attempt(book, a) /\ UNCHANGED <<ready, reached>>
    /\ UNCHANGED <<saving, tmp, file, running, feelers, removed, gossipVars,
                   anchors, restarts>>

\* select_new_for_feeler, with no look at who is connected.  connect() may
\* fail at once.
AttemptFeelerConnection(a) ==
    /\ Serving /\ a \in book.new
    /\ \/ feelers' = feelers \cup {a} /\ UNCHANGED book
       \/ book' = Attempt(book, a) /\ UNCHANGED feelers
    /\ UNCHANGED <<saving, tmp, file, running, dialing, ready, removed, gossipVars,
                   anchors, restarts, reached>>

FeelerCallback(a) ==
    /\ Serving /\ a \in feelers
    /\ feelers' = feelers \ {a}
    /\ \/ book' = Good(book, a) /\ reached' = reached \cup {a}
       \/ book' = Attempt(book, a) /\ UNCHANGED reached
    /\ UNCHANGED <<saving, tmp, file, running, dialing, ready, removed, gossipVars,
                   anchors, restarts>>

AcceptInbound(p) ==
    /\ running /\ p \in Inbound \ (ready \cup removed)
    /\ ready' = ready \cup {p}
    /\ UNCHANGED <<bookVars, running, dialing, feelers, removed, gossipVars,
                   anchors, restarts, reached>>

\* remove_peer of a connected peer, up to the erase of its PerPeerState.  Of an
\* outbound peer it is the whole: its GETADDR is ignored, and an ADDR handled
\* after the erase changes what one handled before it does.
RemovePeer(p) ==
    /\ running /\ p \in ready
    /\ ready' = ready \ {p} /\ removed' = removed \cup ({p} \cap Inbound)
    /\ learned' = [learned EXCEPT ![p] = NothingLearned]
    /\ UNCHANGED <<bookVars, running, dialing, feelers, recent, sent, told,
                   anchors, restarts, reached>>

\* The disconnect() that remove_peer ends with, when the strand runs it.
Disconnect(p) ==
    /\ running /\ p \in removed
    /\ removed' = removed \ {p}
    /\ told' = [told EXCEPT ![p] = {}] /\ sent' = [sent EXCEPT ![p] = NoReply]
    /\ UNCHANGED <<bookVars, running, dialing, feelers, ready, learned, recent,
                   anchors, restarts, reached>>

\* process_periodic.
Cleanup(stale) ==
    /\ Serving
    /\ book' = CleanupStale(book, stale)
    /\ UNCHANGED <<saving, tmp, file, running, connVars, gossipVars, anchors,
                   restarts, reached>>

-----------------------------------------------------------------------------
(* ADDR and GETADDR.                                                       *)

Youngest(s, n) == IF Len(s) > n THEN SubSeq(s, Len(s) - n + 1, Len(s)) ELSE s

\* What may be left of m with at most n entries: the oldest go first, and of
\* those with the same last_seen_s any.
Evictions(m, n) ==
    {k \in [now : SUBSET m.now, old : SUBSET m.old] :
        /\ Cardinality(Entries(k)) = IF Cardinality(Entries(m)) > n THEN n
                                     ELSE Cardinality(Entries(m))
        /\ k.now # m.now => k.old = {}}

\* Mutant: only addresses that are new to us are remembered.
LearnUnknown(m, msg, same) ==
    LET A == Range(msg) \ Known(book) IN
    Evictions([now |-> A \cup (IF same THEN m.now ELSE {}),
               old |-> (m.old \cup (IF same THEN {} ELSE m.now)) \ A],
              MAX_LEARNED_PER_PEER)

\* The LearnedMap after msg, which comes in the second of the latest entries
\* (same) or later.
Learn(m, msg, same) ==
    LET A == Range(msg) IN
    Evictions([now |-> A \cup (IF same THEN m.now ELSE {}),
               old |-> (m.old \cup (IF same THEN {} ELSE m.now)) \ A],
              MAX_LEARNED_PER_PEER)

\* HandleAddr.  msg is without repetitions and truncated; the rest of an
\* oversized one only costs a penalty.  The addresses in stale are not added.
\* Of a removed peer there is no LearnedMap to modify.
HandleAddr(p, msg, stale, same) ==
    /\ Serving
    /\ \/ /\ p \in ready
          /\ \E m \in Learn(learned[p], msg, same) :
                learned' = [learned EXCEPT ![p] = m]
       \/ p \in removed /\ UNCHANGED learned
    /\ book' = AddMultiple(book, Range(msg) \ stale)
    /\ recent' = Youngest(recent \o msg, RECENT_ADDRS_MAX)
    /\ told' = [q \in Inbound |->
                  IF q = p THEN Range(msg) \cup (IF same THEN told[q] ELSE {})
                  ELSE told[q]]
    /\ UNCHANGED <<saving, tmp, file, running, connVars, sent, anchors,
                   restarts, reached>>

\* is_suppressed.
Suppressed(p) == Entries(learned[p]) \cup {Endpoint[p]}

\* The n different addresses outside S that come last in s.
Newest(s, S, n) ==
    {s[i] : i \in {k \in DOMAIN s : s[k] \notin S /\
                     Cardinality(Range(SubSeq(s, k, Len(s))) \ S) <= n}}

\* The possible answers: recent addresses, the newest first, topped up from a
\* sample of the tables, and what other peers told us when there are none.  The
\* sample is limited before suppressed addresses leave it.
Answers(p, stale) ==
    LET ring == Newest(recent, Suppressed(p), MAX_ADDR_SIZE)
        room == MAX_ADDR_SIZE - Cardinality(ring)
        tables == UNION {Some(sample \ (Suppressed(p) \cup ring), room) :
                           sample \in GetAddresses(book, stale, MAX_ADDR_SIZE)}
        others == (UNION {Entries(learned[q]) : q \in Peers \ {p}}) \ Suppressed(p)
        answer(S) == IF ring \cup S = {} THEN Some(others, MAX_ADDR_SIZE)
                     ELSE {ring \cup S}
    IN  UNION {answer(S) : S \in tables}

\* HandleGetAddr: inbound peers only, once per connection.  A removed peer has
\* no flag to find or to set.
HandleGetAddr(p, stale) ==
    /\ Serving /\ p \in Inbound
    /\ p \in removed \/ (p \in ready /\ sent[p] = NoReply)
    /\ \E S \in Answers(p, stale) : sent' = [sent EXCEPT ![p] = S]
    /\ UNCHANGED <<bookVars, running, connVars, learned, recent, told, anchors,
                   restarts, reached>>

\* Entries learned from p get older than ECHO_SUPPRESS_TTL_SEC, the older ones
\* before the latest.
EchoExpires(p) ==
    /\ running /\ learned[p] # NothingLearned
    /\ \/ /\ \E a \in learned[p].old : learned' = [learned EXCEPT ![p].old = @ \ {a}]
          /\ UNCHANGED told
       \/ /\ learned' = [learned EXCEPT ![p] = NothingLearned]
          /\ told' = [q \in Inbound |-> IF q = p THEN {} ELSE told[q]]
    /\ UNCHANGED <<bookVars, running, connVars, recent, sent, anchors,
                   restarts, reached>>

-----------------------------------------------------------------------------
(* Start, stop, crash.                                                     *)

Save ==
    /\ running
    /\ SaveWrites \/ SaveSyncs \/ SaveRenames \/ SaveRenamesAgain
    /\ UNCHANGED <<running, connVars, gossipVars, anchors, restarts, reached>>

Down ==
    /\ running' = FALSE /\ restarts' = restarts + 1
    /\ dialing' = {} /\ feelers' = {} /\ ready' = {} /\ removed' = {}
    /\ learned' = [p \in Peers |-> NothingLearned] /\ recent' = <<>>
    /\ told' = [p \in Inbound |-> {}]
    /\ sent' = [p \in Inbound |-> NoReply]
    /\ book' = Empty
    /\ UNCHANGED reached

\* Mutant: peers that are still connecting are chosen too.
GetAnchorsConnecting == Some(Outbound, MAX_ANCHORS)

\* GetAnchors: outbound peers in READY, the oldest ones.
GetAnchors == Some(ready \cap Addresses, MAX_ANCHORS)

\* SaveAnchors: nothing is written when there is no anchor.  A failed save
\* leaves the old file or, after its second rename, none.
SaveAnchors ==
    \E S \in GetAnchors :
        anchors' \in IF S = {} THEN {anchors} ELSE {S, anchors, {}}

\* NetworkManager::stop saves the anchors while peers are connected;
\* Application::shutdown then saves the tables, which may fail and, after its
\* second rename, leave no file.
Stop ==
    /\ Serving /\ restarts < MaxRestarts
    /\ SaveAnchors
    /\ file' \in {file, book, NoFile} /\ UNCHANGED <<saving, tmp>>
    /\ Down

\* The peers.json.tmp that a save leaves is not read: the next save overwrites
\* it.
Crash ==
    /\ running /\ restarts < MaxRestarts
    /\ saving' = "idle" /\ tmp' = NoFile
    /\ UNCHANGED <<file, anchors>>
    /\ Down

\* The tables once the peers in S are connecting.
ConnectingAll(b, S) ==
    [b EXCEPT !.new = @ \ S, !.tried = @ \cup S,
              !.attempts = [a \in Addresses |-> IF a \in S THEN 0 ELSE @[a]]]

\* BootstrapFromFixedSeeds, when the tables are empty.
Bootstrapped(b) == IF Known(b) = {} THEN AddMultiple(b, FixedSeeds) ELSE b

\* LoadAnchors reads anchors.json and deletes it.
LoadAnchors(S) == S \subseteq anchors /\ anchors' = {}

\* init_network loads the tables; PeerDiscoveryManager::Start connects to the
\* anchors (the ban list may refuse some) before it looks for seeds.
Start ==
    /\ ~running
    /\ running' = TRUE
    /\ \E S \in SUBSET anchors :
          /\ LoadAnchors(S)
          /\ book' = Bootstrapped(ConnectingAll(Load, S))
          /\ dialing' = S
    /\ UNCHANGED <<saving, tmp, file, feelers, ready, removed, gossipVars, restarts,
                   reached>>

Init ==
    /\ book = Empty /\ saving = "idle" /\ tmp = NoFile /\ file = NoFile
    /\ running = FALSE /\ dialing = {} /\ feelers = {} /\ ready = {} /\ removed = {}
    /\ learned = [p \in Peers |-> NothingLearned] /\ recent = <<>>
    /\ sent = [p \in Inbound |-> NoReply]
    /\ anchors = {} /\ restarts = 0
    /\ told = [p \in Inbound |-> {}] /\ reached = {}

Messages == {s \in UNION {[1..n -> Addresses] : n \in 1..MAX_ADDR_SIZE} :
               Cardinality(Range(s)) = Len(s)}

Next ==
    \/ \E a \in Addresses :
          \/ AttemptOutboundConnections(a) \/ AddNode(a) \/ ConnectCallback(a)
          \/ AttemptFeelerConnection(a) \/ FeelerCallback(a)
    \/ \E p \in Peers : RemovePeer(p) \/ EchoExpires(p)
    \/ \E p \in Inbound : AcceptInbound(p) \/ Disconnect(p)
    \/ \E stale \in SUBSET book.new :
          \/ Cleanup(stale)
          \/ \E p \in Inbound : HandleGetAddr(p, stale)
    \/ \E p \in Peers, msg \in Messages :
          \E stale \in SUBSET Range(msg), same \in BOOLEAN :
             HandleAddr(p, msg, stale, same)
    \/ Save \/ Stop \/ Crash \/ Start

Spec == Init /\ [][Next]_vars

-----------------------------------------------------------------------------
(* Properties.                                                             *)

\* An address is never in both tables, in memory or in peers.json, whichever
\* way promotions, demotions, gossip, saves and loads interleave.
TablesDisjoint ==
    /\ book.new \cap book.tried = {}
    /\ file \in Book => file.new \cap file.tried = {}

\* A crash in the middle of a save never leaves a peers.json that cannot be
\* loaded.
PeersFileWhole == file # Torn

\* A GETADDR answer never tells an inbound peer the endpoint it connects from.
\* As long as the peer is in peer_states_ it does not tell it either what it has
\* told us last, if what came in one second fits its LearnedMap: whatever is
\* added, ages, is evicted or is sampled between the two messages.  A peer that
\* asks after the erase of remove_peer is outside the second half: its
\* LearnedMap is gone.
NoEcho ==
    [][\A p \in Inbound : sent'[p] \notin {sent[p], NoReply} =>
          /\ Endpoint[p] \notin sent'[p]
          /\ p \in ready /\ Cardinality(told[p]) <= MAX_LEARNED_PER_PEER =>
                sent'[p] \cap told[p] = {}]_vars

\* The anchors that a shutdown leaves are peers that were connected, not ones
\* that were still being dialled or tested by a feeler.
AnchorsWereReached == anchors \subseteq reached
=============================================================================
