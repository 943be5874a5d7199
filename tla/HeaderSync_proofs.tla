-------------------------- MODULE HeaderSync_proofs --------------------------
(***************************************************************************)
(* The sync peer is always an outbound connection past its handshake, and  *)
(* no peer whose penalties reached the threshold stays, for any peers,     *)
(* messages and limits.                                                    *)
(***************************************************************************)
EXTENDS HeaderSync, WellFoundedInduction, SequenceTheorems, TLAPS

\* TypeOK, with the shape of the two thread records and with what is known of
\* an answer in the chunk: it ends at the best chain's tip at the latest.
Sent == {m \in Message : m.kind = "headers" => m.first + m.count <= BestHeight + 1}

SyncTypes ==
    /\ TypeOK
    /\ rx \in [peer : Peers \cup {NO_SYNC_PEER}, msgs : Seq(Sent)]
    /\ rx.msgs # <<>> => rx.peer \in Peers
    /\ timer \in [at : {"idle", "select", "stall", "notify"},
                  peer : Peers \cup {NO_SYNC_PEER}]
    /\ timer.at # "idle" => timer.peer \in Peers

\* Who the handlers can act for: only full connections are past VERACK, only
\* they send what is processed, and the reactor's choice is still one.
HandshakeDone ==
    /\ verack \subseteq Outbound \cup Inbound
    /\ \A p \in Peers : conn[p] = "ready" => p \in verack
    /\ rx.msgs # <<>> => rx.peer \in verack
    /\ timer.at = "select" => timer.peer \in Outbound \cap verack

\* A peer that never connected has no penalties.
FreshPeersClean ==
    \A p \in Peers : conn[p] = "absent" => score[p] = 0 /\ p \notin peers

\* The inductive invariant.
SyncInv ==
    /\ SyncTypes
    /\ HandshakeDone
    /\ FreshPeersClean
    /\ SyncPeerOutbound
    /\ MisbehavingPeersRemoved

-----------------------------------------------------------------------------
\* A nonempty set of peers has a smallest id.
LEMMA SmallestId ==
    ASSUME NEW T \in SUBSET Nat, T # {}
    PROVE  Min(T) \in T
<1>1. PICK x \in T : \A y \in T : ~(<<y, x>> \in OpToRel(<, Nat))
  BY WFMin, NatLessThanWellFounded
<1>2. \A y \in T : x <= y
  <2> TAKE y \in T
  <2>1. ~(<<y, x>> \in OpToRel(<, Nat))
    BY <1>1
  <2>2. x \in Nat /\ y \in Nat
    OBVIOUS
  <2>3. ~(y < x)
    BY <2>1, <2>2 DEF OpToRel
  <2> QED
    BY <2>2, <2>3
<1> QED
  BY <1>2 DEF Min

\* The smaller of two numbers.
LEMMA SmallerOfTwo ==
    ASSUME NEW a \in Int, NEW b \in Int
    PROVE  Min({a, b}) = IF a <= b THEN a ELSE b
<1> DEFINE m == IF a <= b THEN a ELSE b
<1>1. m \in {a, b} /\ \A y \in {a, b} : m <= y
  OBVIOUS
<1>2. \A x \in {a, b} : (\A y \in {a, b} : x <= y) => x = m
  OBVIOUS
<1> QED
  BY <1>1, <1>2 DEF Min

\* The larger of two numbers.
LEMMA LargerOfTwo ==
    ASSUME NEW a \in Int, NEW b \in Int
    PROVE  Max({a, b}) = IF a >= b THEN a ELSE b
<1> DEFINE m == IF a >= b THEN a ELSE b
<1>1. m \in {a, b} /\ \A y \in {a, b} : m >= y
  OBVIOUS
<1>2. \A x \in {a, b} : (\A y \in {a, b} : x >= y) => x = m
  OBVIOUS
<1> QED
  BY <1>1, <1>2 DEF Max

\* What is left of a chunk after its last message is empty.
LEMMA LastOfChunk ==
    ASSUME NEW S, NEW s \in Seq(S), s # <<>>
    PROVE  /\ Head(s) \in S
           /\ Tail(s) \in Seq(S)
           /\ Tail(s) # <<>> => Len(s) # 1
<1>1. Tail(s) \in Seq(S) /\ Head(s) \in S
  BY HeadTailProperties
<1>2. Len(Tail(s)) = Len(s) - 1
  BY HeadTailProperties
<1>3. Tail(s) # <<>> => Len(Tail(s)) # 0
  BY <1>1, EmptySeq
<1>4. Len(s) \in Nat
  BY LenProperties
<1> QED
  BY <1>1, <1>2, <1>3, <1>4

\* Misbehaving keeps scores numbers, leaves who is not connected alone, and
\* touches only the peer reported.
LEMMA MisbehavingScores ==
    ASSUME TypeOK, NEW p \in Peers, NEW n \in Nat
    PROVE  /\ Misbehaving(p, n) \in [Peers -> 0..DISCOURAGEMENT_THRESHOLD]
           /\ \A q \in Peers : q # p \/ p \notin peers
                => Misbehaving(p, n)[q] = score[q]
<1>1. score[p] \in Nat /\ DISCOURAGEMENT_THRESHOLD \in Nat
  BY LimitsAssumption DEF TypeOK
<1>2. Min({score[p] + n, DISCOURAGEMENT_THRESHOLD}) \in 0..DISCOURAGEMENT_THRESHOLD
  BY <1>1, SmallerOfTwo
<1> QED
  BY <1>2 DEF Misbehaving, TypeOK

-----------------------------------------------------------------------------
\* What a message handler does to the peers and to the sync peer: exactly the
\* facts the invariant needs of every branch of HandleHeadersMessage and
\* HandleInvMessage.
HandlerEffect(p) ==
    /\ peers' \subseteq peers
    /\ \A q \in Peers : q # p \/ p \notin peers => score'[q] = score[q]
    /\ p \in peers' \ NoBan => score'[p] < DISCOURAGEMENT_THRESHOLD
    /\ syncPeer' \in {syncPeer, NO_SYNC_PEER}
       \/ (syncPeer' = p /\ p \notin Inbound)

\* A sender whose new score reaches the threshold is dropped.
LEMMA DropEffect ==
    ASSUME NEW p \in Peers,
           score' \in [Peers -> 0..DISCOURAGEMENT_THRESHOLD],
           DropIf(ShouldDisconnect(score', p), p)
    PROVE  /\ peers' \subseteq peers
           /\ p \in peers' \ NoBan => score'[p] < DISCOURAGEMENT_THRESHOLD
<1>1. score'[p] \in Nat /\ DISCOURAGEMENT_THRESHOLD \in Nat
  BY LimitsAssumption
<1>2. peers' \subseteq peers
  BY DEF DropIf
<1>3. p \in peers' \ NoBan => ~ShouldDisconnect(score', p)
  BY DEF DropIf
<1>4. p \in peers' \ NoBan => ~(score'[p] >= DISCOURAGEMENT_THRESHOLD)
  BY <1>2, <1>3 DEF ShouldDisconnect
<1> QED
  BY <1>1, <1>2, <1>4

\* Every branch of HandleHeadersMessage has the effect.
LEMMA HeadersEffect ==
    ASSUME SyncInv, NEW p \in Peers, NEW m,
           HandleHeadersMessage(p, m)
    PROVE  HandlerEffect(p)
<1> USE DEF SyncInv
<1>1. score \in [Peers -> 0..DISCOURAGEMENT_THRESHOLD] /\ TypeOK
      /\ Severe \in Nat /\ Minor \in Nat
  BY LimitsAssumption DEF SyncTypes, TypeOK
<1>2. p \in peers \ NoBan => score[p] < DISCOURAGEMENT_THRESHOLD
  BY DEF MisbehavingPeersRemoved
<1>3. CASE peers' = peers /\ score' = score /\ syncPeer' \in {syncPeer, NO_SYNC_PEER}
  BY <1>1, <1>2, <1>3 DEF HandlerEffect
<1>4. ASSUME NEW n \in Nat, NEW c, PenalisedHeaders(p, n, c)
      PROVE  HandlerEffect(p)
  <2>1. score' = Misbehaving(p, n) /\ syncPeer' = NO_SYNC_PEER
        /\ DropIf(ShouldDisconnect(score', p), p)
    BY <1>4 DEF PenalisedHeaders
  <2>2. score' \in [Peers -> 0..DISCOURAGEMENT_THRESHOLD]
        /\ \A q \in Peers : q # p \/ p \notin peers => score'[q] = score[q]
    BY <1>1, <2>1, MisbehavingScores
  <2>3. peers' \subseteq peers /\ (p \in peers' \ NoBan => score'[p] < DISCOURAGEMENT_THRESHOLD)
    BY <2>1, <2>2, DropEffect
  <2> QED
    BY <2>1, <2>2, <2>3 DEF HandlerEffect
<1>5. ASSUME UnconnectingHeaders(p)
      PROVE  HandlerEffect(p)
  <2>1. (score' = Misbehaving(p, Severe) \/ score' = score)
        /\ syncPeer' \in {syncPeer, NO_SYNC_PEER}
        /\ DropIf(ShouldDisconnect(score', p), p)
    BY <1>5 DEF UnconnectingHeaders, SyncPeerAfter
  <2>2. score' \in [Peers -> 0..DISCOURAGEMENT_THRESHOLD]
        /\ \A q \in Peers : q # p \/ p \notin peers => score'[q] = score[q]
    BY <1>1, <2>1, MisbehavingScores
  <2>3. peers' \subseteq peers /\ (p \in peers' \ NoBan => score'[p] < DISCOURAGEMENT_THRESHOLD)
    BY <2>1, <2>2, DropEffect
  <2> QED
    BY <2>1, <2>2, <2>3 DEF HandlerEffect
<1>6. CASE Gated(p, m)
  BY <1>3, <1>6 DEF HandleHeadersMessage, syncVars
<1>7. CASE ~Gated(p, m)
  <2>1. \/ UNCHANGED <<peers, score, syncPeer>>
        \/ UnconnectingHeaders(p)
        \/ \E n \in {Severe, Minor}, c \in BOOLEAN : PenalisedHeaders(p, n, c)
        \/ RefusedHeaders(p)
        \/ \E l, f : AcceptedHeaders(p, l, f)
    BY <1>7 DEF HandleHeadersMessage
  <2>2. ASSUME NEW l, NEW f, AcceptedHeaders(p, l, f)
        PROVE  UNCHANGED <<peers, score, syncPeer>>
    BY <2>2 DEF AcceptedHeaders
  <2>3. CASE RefusedHeaders(p)
    BY <1>3, <2>3 DEF RefusedHeaders
  <2> QED
    BY <1>1, <1>3, <1>4, <1>5, <2>1, <2>2, <2>3
<1> QED
  BY <1>6, <1>7

-----------------------------------------------------------------------------
\* The part of TypeOK a message handler can disturb.
HandlerTypes ==
    /\ peers \subseteq Peers /\ closing \subseteq Peers
    /\ syncStarted \subseteq Peers
    /\ score \in [Peers -> 0..DISCOURAGEMENT_THRESHOLD]
    /\ unconnecting \in [Peers -> 0..MAX_UNCONNECTING_HEADERS]
    /\ syncPeer \in Peers \cup {NO_SYNC_PEER}
    /\ age \in 0..(kHeadersSyncTimeout + 1)
    /\ height \in 0..BestHeight
    /\ pending \in [Peers -> SUBSET (0..BestHeight)]

\* A request names a fork point on the best chain.
LEMMA RequestTyped ==
    ASSUME HandlerTypes, NEW p \in Peers, NEW h \in 0..BestHeight
    PROVE  RequestHeaders(pending, p, h) \in [Peers -> SUBSET (0..BestHeight)]
<1>1. BestHeight \in Nat /\ h \in Int /\ 0 <= h /\ h <= BestHeight
  BY LimitsAssumption
<1>2. LocatorFork(h) \in 0..BestHeight
  BY <1>1 DEF LocatorFork
<1>3. pending \in [Peers -> SUBSET (0..BestHeight)]
  BY DEF HandlerTypes
<1>4. pending[p] \cup {LocatorFork(h)} \in SUBSET (0..BestHeight)
  BY <1>2, <1>3
<1> QED
  BY <1>3, <1>4 DEF RequestHeaders

\* The counter of unconnecting messages stays within its limit.
LEMMA UnconnectingTyped ==
    ASSUME HandlerTypes, NEW p \in Peers
    PROVE  /\ IncrementUnconnecting(p) \in [Peers -> 0..MAX_UNCONNECTING_HEADERS]
           /\ ResetUnconnecting(p) \in [Peers -> 0..MAX_UNCONNECTING_HEADERS]
<1>1. unconnecting[p] \in Nat /\ MAX_UNCONNECTING_HEADERS \in Nat
      /\ unconnecting \in [Peers -> 0..MAX_UNCONNECTING_HEADERS]
  BY LimitsAssumption DEF HandlerTypes
<1>2. Min({unconnecting[p] + 1, MAX_UNCONNECTING_HEADERS})
        \in 0..MAX_UNCONNECTING_HEADERS
  BY <1>1, SmallerOfTwo
<1>3. 0 \in 0..MAX_UNCONNECTING_HEADERS
  BY <1>1
<1> QED
  BY <1>1, <1>2, <1>3 DEF IncrementUnconnecting, ResetUnconnecting

\* Dropping a peer keeps the sets of peers.
LEMMA DropTyped ==
    ASSUME HandlerTypes, NEW p \in Peers, NEW c \in BOOLEAN, DropIf(c, p)
    PROVE  peers' \subseteq Peers /\ closing' \subseteq Peers
           /\ syncStarted' \subseteq Peers
BY DEF DropIf, SyncStartedAfter, HandlerTypes

\* Every branch of HandleHeadersMessage keeps the types.
LEMMA HeadersTyped ==
    ASSUME SyncTypes, NEW p \in Peers, NEW m \in Sent,
           HandleHeadersMessage(p, m)
    PROVE  HandlerTypes'
<1>1. HandlerTypes /\ TypeOK
  BY DEF SyncTypes, TypeOK, HandlerTypes
<1>2. Severe \in Nat /\ Minor \in Nat /\ 0 \in 0..(kHeadersSyncTimeout + 1)
      /\ BestHeight \in Nat
  BY LimitsAssumption
<1>3. ShouldDisconnect(score', p) \in BOOLEAN
  BY DEF ShouldDisconnect
<1>4. CASE Gated(p, m)
  BY <1>1, <1>4 DEF HandleHeadersMessage, HandlerTypes, syncVars
<1>5. ASSUME age' = 0, NEW n \in Nat, NEW c, PenalisedHeaders(p, n, c)
      PROVE  HandlerTypes'
  <2>1. /\ score' = Misbehaving(p, n)
        /\ unconnecting' \in {ResetUnconnecting(p), IncrementUnconnecting(p)}
        /\ syncPeer' = NO_SYNC_PEER
        /\ UNCHANGED <<height, pending>>
        /\ DropIf(ShouldDisconnect(score', p), p)
    BY <1>5 DEF PenalisedHeaders
  <2>2. score' \in [Peers -> 0..DISCOURAGEMENT_THRESHOLD]
    BY <1>1, <2>1, MisbehavingScores
  <2>3. unconnecting' \in [Peers -> 0..MAX_UNCONNECTING_HEADERS]
    BY <1>1, <2>1, UnconnectingTyped
  <2>4. peers' \subseteq Peers /\ closing' \subseteq Peers /\ syncStarted' \subseteq Peers
    BY <1>1, <1>3, <2>1, DropTyped
  <2> QED
    BY <1>1, <1>2, <1>5, <2>1, <2>2, <2>3, <2>4 DEF HandlerTypes
<1>6. ASSUME age' = 0, UnconnectingHeaders(p)
      PROVE  HandlerTypes'
  <2>1. /\ score' = Misbehaving(p, Severe) \/ score' = score
        /\ unconnecting' = IncrementUnconnecting(p)
        /\ syncPeer' \in {syncPeer, NO_SYNC_PEER}
        /\ UNCHANGED <<height, pending>>
        /\ DropIf(ShouldDisconnect(score', p), p)
    BY <1>6 DEF UnconnectingHeaders, SyncPeerAfter
  <2>2. score' \in [Peers -> 0..DISCOURAGEMENT_THRESHOLD]
    <3>1. Misbehaving(p, Severe) \in [Peers -> 0..DISCOURAGEMENT_THRESHOLD]
      BY <1>1, <1>2, MisbehavingScores
    <3> QED
      BY <1>1, <2>1, <3>1 DEF TypeOK
  <2>3. unconnecting' \in [Peers -> 0..MAX_UNCONNECTING_HEADERS]
    BY <1>1, <2>1, UnconnectingTyped
  <2>4. peers' \subseteq Peers /\ closing' \subseteq Peers /\ syncStarted' \subseteq Peers
    BY <1>1, <1>3, <2>1, DropTyped
  <2> QED
    BY <1>1, <1>2, <1>6, <2>1, <2>2, <2>3, <2>4 DEF HandlerTypes
<1>7. ASSUME age' = 0, RefusedHeaders(p)
      PROVE  HandlerTypes'
  <2>1. unconnecting' \in [Peers -> 0..MAX_UNCONNECTING_HEADERS]
    BY <1>1, <1>7, UnconnectingTyped DEF RefusedHeaders
  <2> QED
    BY <1>1, <1>2, <1>7, <2>1 DEF RefusedHeaders, HandlerTypes
<1>8. ASSUME age' = 0, NEW l \in 0..BestHeight, NEW f, AcceptedHeaders(p, l, f)
      PROVE  HandlerTypes'
  <2>1. unconnecting' \in [Peers -> 0..MAX_UNCONNECTING_HEADERS]
    BY <1>1, <1>8, UnconnectingTyped DEF AcceptedHeaders
  <2>2. height' = Max({height, l}) /\ height \in 0..BestHeight
    BY <1>1, <1>8 DEF AcceptedHeaders, HandlerTypes
  <2>3. height' \in 0..BestHeight
    BY <1>2, <2>2, LargerOfTwo
  <2>4. pending' \in [Peers -> SUBSET (0..BestHeight)]
    <3>1. pending' = pending \/ pending' = RequestHeaders(pending, p, height')
      BY <1>8 DEF AcceptedHeaders
    <3>2. RequestHeaders(pending, p, height') \in [Peers -> SUBSET (0..BestHeight)]
      BY <1>1, <2>3, RequestTyped
    <3> QED
      BY <1>1, <3>1, <3>2 DEF HandlerTypes
  <2> QED
    BY <1>1, <1>2, <1>8, <2>1, <2>3, <2>4 DEF AcceptedHeaders, HandlerTypes
<1>9. CASE ~Gated(p, m)
  <2>1. age' = 0
    BY <1>9 DEF HandleHeadersMessage
  <2>2. \/ UNCHANGED <<peers, closing, score, unconnecting, syncPeer,
                       syncStarted, height, pending>>
        \/ UnconnectingHeaders(p)
        \/ \E n \in {Severe, Minor}, c \in BOOLEAN : PenalisedHeaders(p, n, c)
        \/ RefusedHeaders(p)
        \/ AcceptedHeaders(p, Min({height + 1, BestHeight}), FALSE)
        \/ m.kind = "headers" /\ m.count > 0
           /\ AcceptedHeaders(p, m.first + m.count - 1, m.count = MAX_HEADERS_SIZE)
        \/ AcceptedHeaders(p, 0, m.count = MAX_HEADERS_SIZE)
    BY <1>9 DEF HandleHeadersMessage
  <2>3. Min({height + 1, BestHeight}) \in 0..BestHeight
    BY <1>1, <1>2, SmallerOfTwo DEF HandlerTypes
  <2>4. 0 \in 0..BestHeight
    BY <1>2
  <2>5. m.kind = "headers" /\ m.count > 0 => m.first + m.count - 1 \in 0..BestHeight
    <3>1. m.first \in Int /\ m.count \in Int
      BY <1>2, LimitsAssumption DEF Sent, Message
    <3>2. m.first >= 0
      BY <1>2, LimitsAssumption DEF Sent, Message
    <3>3. m.kind = "headers" => m.first + m.count <= BestHeight + 1
      BY DEF Sent
    <3> QED
      BY <1>2, <3>1, <3>2, <3>3
  <2>6. CASE UNCHANGED <<peers, closing, score, unconnecting, syncPeer,
                         syncStarted, height, pending>>
    BY <1>1, <1>2, <2>1, <2>6 DEF HandlerTypes
  <2> QED
    BY <1>2, <1>5, <1>6, <1>7, <1>8, <2>1, <2>2, <2>3, <2>4, <2>5, <2>6
<1> QED
  BY <1>4, <1>9

\* HandleInvMessage keeps the types.
LEMMA InvTyped ==
    ASSUME SyncTypes, NEW p \in Peers, HandleInvMessage(p)
    PROVE  HandlerTypes'
<1>1. HandlerTypes /\ height \in 0..BestHeight
  BY DEF SyncTypes, TypeOK, HandlerTypes
<1>2. RequestHeaders(pending, p, height) \in [Peers -> SUBSET (0..BestHeight)]
  BY <1>1, RequestTyped
<1>3. 0 \in 0..(kHeadersSyncTimeout + 1)
  BY LimitsAssumption
<1>4. pending' \in {pending, RequestHeaders(pending, p, height)}
  BY DEF HandleInvMessage, SetSyncPeerUnlocked
<1>5. UNCHANGED syncVars
      \/ (syncPeer' = p /\ age' = 0 /\ syncStarted' = syncStarted \cup {p})
  BY DEF HandleInvMessage, SetSyncPeerUnlocked
<1>6. UNCHANGED <<peers, closing, score, unconnecting, height>>
  BY DEF HandleInvMessage
<1> QED
  BY <1>1, <1>2, <1>3, <1>4, <1>5, <1>6 DEF HandlerTypes, syncVars

\* A chunk of one answer, or of small messages, is a sequence of messages.
LEMMA ChunkTyped ==
    /\ \A f \in 0..BestHeight :
        <<Answer(f)>> \in Seq(Sent) /\ <<ForkAnswer(f)>> \in Seq(Sent)
    /\ \A n \in Nat : \A kinds \in [1..n -> Unsolicited] :
        [i \in 1..n |-> [kind |-> kinds[i], first |-> 0,
                         count |-> IF kinds[i] = "empty" THEN 0 ELSE 1]]
            \in Seq(Sent)
    /\ <<[kind |-> "inv", first |-> 0, count |-> 1]>> \in Seq(Sent)
<1>1. BestHeight \in Nat /\ MAX_HEADERS_SIZE \in Nat /\ Unsolicited \subseteq Kinds
  BY LimitsAssumption
<1>2. ASSUME NEW f \in 0..BestHeight
      PROVE  Answer(f) \in Sent /\ ForkAnswer(f) \in Sent
  <2> DEFINE c == Min({MAX_HEADERS_SIZE, BestHeight - f})
  <2>1. f \in Int /\ 0 <= f /\ f <= BestHeight
    BY <1>1
  <2>2. c \in 0..MAX_HEADERS_SIZE /\ c <= BestHeight - f
    BY <1>1, <2>1, SmallerOfTwo
  <2>3. f + 1 \in 1..(BestHeight + 1) /\ MAX_HEADERS_SIZE \in 0..MAX_HEADERS_SIZE
    BY <1>1, <2>1
  <2>4. Answer(f) = [kind |-> "headers", first |-> f + 1, count |-> c]
    BY DEF Answer
  <2> HIDE DEF c
  <2>5. Answer(f) \in Message /\ Answer(f).first = f + 1 /\ Answer(f).count = c
    BY <2>2, <2>3, <2>4 DEF Message
  <2>6. f + 1 + c <= BestHeight + 1
    BY <1>1, <2>1, <2>2
  <2>7. ForkAnswer(f) \in Message /\ ForkAnswer(f).kind = "fork"
    BY <2>3 DEF ForkAnswer, Message
  <2> QED
    BY <2>5, <2>6, <2>7 DEF Sent
<1>3. \A k \in Kinds : \A c \in {0, 1} :
        [kind |-> k, first |-> 0, count |-> c] \in Sent
  BY DEF Sent, Message, Kinds
<1>4. ASSUME NEW n \in Nat, NEW kinds \in [1..n -> Unsolicited]
      PROVE  [i \in 1..n |-> [kind |-> kinds[i], first |-> 0,
                              count |-> IF kinds[i] = "empty" THEN 0 ELSE 1]]
                 \in Seq(Sent)
  <2>1. \A i \in 1..n : [kind |-> kinds[i], first |-> 0,
                         count |-> IF kinds[i] = "empty" THEN 0 ELSE 1] \in Sent
    BY <1>1, <1>3
  <2> QED
    BY <2>1, SeqDef
<1>5. [kind |-> "inv", first |-> 0, count |-> 1] \in Sent
  BY <1>3 DEF Kinds
<1>6. \A x \in Sent : <<x>> \in Seq(Sent)
  OBVIOUS
<1>7. \A f \in 0..BestHeight :
        <<Answer(f)>> \in Seq(Sent) /\ <<ForkAnswer(f)>> \in Seq(Sent)
  BY <1>2, <1>6
<1>8. <<[kind |-> "inv", first |-> 0, count |-> 1]>> \in Seq(Sent)
  BY <1>5, <1>6
<1> QED
  BY <1>4, <1>7, <1>8

\* Every step keeps the types.
LEMMA TypesStep == SyncTypes /\ [Next]_vars => SyncTypes'
<1> SUFFICES ASSUME SyncTypes, [Next]_vars
             PROVE  SyncTypes'
  OBVIOUS
<1> USE DEF SyncTypes
<1>1. HandlerTypes /\ TypeOK
  BY DEF TypeOK, HandlerTypes
<1>2. conn \in [Peers -> {"absent", "handshake", "ready", "closed"}]
      /\ verack \subseteq Peers /\ NO_SYNC_PEER \notin Peers
      /\ pending \in [Peers -> SUBSET (0..BestHeight)]
  BY PeersAssumption DEF TypeOK, NO_SYNC_PEER
<1>3. ASSUME NEW p \in Peers, Connect(p)
      PROVE  SyncTypes'
  BY <1>3 DEF Connect, TypeOK, syncVars
<1>4. ASSUME NEW p \in Peers, HandleVerack(p) \/ AbortHandshake(p)
      PROVE  SyncTypes'
  BY <1>4 DEF HandleVerack, AbortHandshake, TypeOK, syncVars
<1>5. ASSUME NEW p \in Peers, TransportDisconnect(p) \/ DoDisconnect(p)
      PROVE  SyncTypes'
  BY <1>5 DEF TransportDisconnect, DoDisconnect, TypeOK, syncVars
<1>6. ASSUME NEW p \in Peers, ReceiveAnswer(p)
      PROVE  SyncTypes'
  <2>1. PICK f \in pending[p] :
          /\ \/ rx' = [peer |-> p, msgs |-> <<Answer(f)>>]
             \/ rx' = [peer |-> p, msgs |-> <<ForkAnswer(f)>>]
          /\ pending' = [pending EXCEPT ![p] = @ \ {f}]
    BY <1>6 DEF ReceiveAnswer
  <2>2. f \in 0..BestHeight
    BY <1>2
  <2>chunk. <<Answer(f)>> \in Seq(Sent) /\ <<ForkAnswer(f)>> \in Seq(Sent)
    BY <2>2, ChunkTyped
  <2>3. PICK ms \in Seq(Sent) : rx' = [peer |-> p, msgs |-> ms]
    BY <2>1, <2>chunk
  <2>4. rx'.msgs \in Seq(Sent) /\ rx'.peer = p
        /\ rx' \in [peer : Peers \cup {NO_SYNC_PEER}, msgs : Seq(Sent)]
    BY <2>3
  <2>5. rx'.msgs \in Seq(Message)
    BY <2>4, SeqMonotonic DEF Sent
  <2>6. pending' \in [Peers -> SUBSET (0..BestHeight)]
    BY <1>2, <2>1
  <2> QED
    BY <1>1, <1>6, <2>4, <2>5, <2>6 DEF ReceiveAnswer, TypeOK, peerVars, syncVars
<1>7. ASSUME NEW p \in Peers, ReceiveUnsolicited(p) \/ ReceiveInv(p)
      PROVE  SyncTypes'
  <2>1. rx' \in [peer : {p}, msgs : Seq(Sent)]
    <3>1. CASE ReceiveInv(p)
      BY <3>1, ChunkTyped DEF ReceiveInv
    <3>2. CASE ReceiveUnsolicited(p)
      <4> DEFINE chunk(n, kinds) ==
            [i \in 1..n |-> [kind |-> kinds[i], first |-> 0,
                             count |-> IF kinds[i] = "empty" THEN 0 ELSE 1]]
      <4>1. PICK n \in 1..MaxChunk : \E kinds \in [1..n -> Unsolicited] :
               rx' = [peer |-> p, msgs |-> chunk(n, kinds)]
        BY <3>2 DEF ReceiveUnsolicited
      <4>2. n \in Nat
        BY LimitsAssumption
      <4>3. \A kinds \in [1..n -> Unsolicited] : chunk(n, kinds) \in Seq(Sent)
        BY <4>2, ChunkTyped
      <4> HIDE DEF chunk
      <4> QED
        BY <4>1, <4>3
    <3> QED
      BY <1>7, <3>1, <3>2
  <2>2. rx'.msgs \in Seq(Message)
    BY <2>1, SeqMonotonic DEF Sent
  <2> QED
    BY <1>1, <1>7, <2>1, <2>2
    DEF ReceiveUnsolicited, ReceiveInv, TypeOK, peerVars, syncVars
<1>8. ASSUME ProcessMessage
      PROVE  SyncTypes'
  <2>1. rx.msgs \in Seq(Sent) /\ rx.msgs # <<>> /\ rx.peer \in Peers
    BY <1>8 DEF ProcessMessage, Busy
  <2>2. Head(rx.msgs) \in Sent /\ Tail(rx.msgs) \in Seq(Sent)
        /\ (Tail(rx.msgs) # <<>> => Len(rx.msgs) # 1)
    BY <2>1, LastOfChunk
  <2>3. HandleInvMessage(rx.peer) \/ HandleHeadersMessage(rx.peer, Head(rx.msgs))
    BY <1>8 DEF ProcessMessage
  <2>4. HandlerTypes'
    BY <2>1, <2>2, <2>3, HeadersTyped, InvTyped
  <2>5. rx' = [peer |-> IF Len(rx.msgs) = 1 THEN NO_SYNC_PEER ELSE rx.peer,
               msgs |-> Tail(rx.msgs)]
        /\ UNCHANGED <<conn, verack, timer>>
    BY <1>8 DEF ProcessMessage
  <2>6. rx' \in [peer : Peers \cup {NO_SYNC_PEER}, msgs : Seq(Sent)]
        /\ (rx'.msgs # <<>> => rx'.peer \in Peers)
    BY <2>1, <2>2, <2>5
  <2>7. rx'.msgs \in Seq(Message)
    BY <2>6, SeqMonotonic DEF Sent
  <2>8. late' \in BOOLEAN
    <3>1. late \in BOOLEAN
      BY <1>1 DEF TypeOK
    <3>2. late' = late \/ late' = (late \/ rx.peer \notin peers)
      BY <2>3 DEF HandleInvMessage, SetSyncPeerUnlocked, HandleHeadersMessage, syncVars
    <3> QED
      BY <3>1, <3>2
  <2> QED
    BY <1>1, <2>4, <2>5, <2>6, <2>7, <2>8 DEF TypeOK, HandlerTypes
<1>9. ASSUME CheckInitialSync
      PROVE  SyncTypes'
  <2>1. Selectable \in SUBSET Nat /\ Selectable # {} /\ Selectable \subseteq Peers
    BY <1>1, <1>9, PeersAssumption DEF CheckInitialSync, Selectable, TypeOK
  <2>2. Min(Selectable) \in Peers
    BY <2>1, SmallestId
  <2> QED
    BY <1>1, <1>9, <2>2 DEF CheckInitialSync, TypeOK, peerVars, syncVars
<1>10. ASSUME SetSyncPeer
       PROVE  SyncTypes'
  <2>1. timer.peer \in Peers /\ height \in 0..BestHeight
    BY <1>1, <1>10 DEF SetSyncPeer, TypeOK
  <2>2. RequestHeaders(pending, timer.peer, height) \in [Peers -> SUBSET (0..BestHeight)]
    BY <1>1, <2>1, RequestTyped
  <2>3. 0 \in 0..(kHeadersSyncTimeout + 1)
    BY LimitsAssumption
  <2> QED
    BY <1>1, <1>10, <2>1, <2>2, <2>3
    DEF SetSyncPeer, SetSyncPeerUnlocked, TypeOK, IdleTimer, peerVars
<1>11. ASSUME ProcessTimers
       PROVE  SyncTypes'
  BY <1>1, <1>11 DEF ProcessTimers, TypeOK, peerVars, syncVars
<1>12. ASSUME RemoveStalledPeer
       PROVE  SyncTypes'
  BY <1>1, <1>12 DEF RemoveStalledPeer, TypeOK, IdleTimer, syncVars
<1>13. ASSUME NEW p \in Peers, ProcessPeriodic(p)
       PROVE  SyncTypes'
  BY <1>1, <1>13 DEF ProcessPeriodic, TypeOK, syncVars
<1>14. ASSUME NotifyPeerDisconnected
       PROVE  SyncTypes'
  <2>1. syncPeer' \in Peers \cup {NO_SYNC_PEER} /\ syncStarted' \subseteq Peers
    BY <1>1, <1>14
    DEF NotifyPeerDisconnected, SyncPeerAfter, SyncStartedAfter, TypeOK
  <2> QED
    BY <1>1, <1>14, <2>1 DEF NotifyPeerDisconnected, IdleTimer, TypeOK
<1>15. ASSUME ClockTick
       PROVE  SyncTypes'
  <2>1. age' \in 0..(kHeadersSyncTimeout + 1)
    BY <1>1, <1>15, LimitsAssumption DEF ClockTick, TypeOK
  <2> QED
    BY <1>1, <1>15, <2>1 DEF ClockTick, TypeOK, peerVars
<1>16. CASE UNCHANGED vars
  BY <1>1, <1>16 DEF vars, peerVars, syncVars, TypeOK
<1> QED
  BY <1>3, <1>4, <1>5, <1>6, <1>7, <1>8, <1>9, <1>10, <1>11, <1>12, <1>13,
     <1>14, <1>15, <1>16 DEF Next, Transport, Reactor

-----------------------------------------------------------------------------
\* The processing of a message, whichever handler it goes to, has the effect.
LEMMA MessageEffect ==
    ASSUME SyncInv, ProcessMessage
    PROVE  /\ HandlerEffect(rx.peer)
           /\ rx.peer \in Peers \cap verack
           /\ rx'.msgs # <<>> => rx'.peer = rx.peer
           /\ UNCHANGED <<conn, verack, timer>>
<1>1. rx.msgs \in Seq(Sent) /\ rx.msgs # <<>> /\ rx.peer \in Peers \cap verack
  BY DEF SyncInv, SyncTypes, HandshakeDone, ProcessMessage, Busy
<1>2. Tail(rx.msgs) # <<>> => Len(rx.msgs) # 1
  BY <1>1, LastOfChunk
<1>3. rx' = [peer |-> IF Len(rx.msgs) = 1 THEN NO_SYNC_PEER ELSE rx.peer,
             msgs |-> Tail(rx.msgs)]
      /\ UNCHANGED <<conn, verack, timer>>
  BY DEF ProcessMessage
<1>4. ASSUME HandleHeadersMessage(rx.peer, Head(rx.msgs))
      PROVE  HandlerEffect(rx.peer)
  BY <1>1, <1>4, HeadersEffect
<1>5. ASSUME HandleInvMessage(rx.peer)
      PROVE  HandlerEffect(rx.peer)
  <2>1. UNCHANGED <<peers, score>>
    BY <1>5 DEF HandleInvMessage
  <2>2. syncPeer' = syncPeer \/ (syncPeer' = rx.peer /\ rx.peer \notin Inbound)
    BY <1>5 DEF HandleInvMessage, SetSyncPeerUnlocked, Adoptable, syncVars
  <2>3. rx.peer \in peers \ NoBan => score[rx.peer] < DISCOURAGEMENT_THRESHOLD
    BY DEF SyncInv, MisbehavingPeersRemoved
  <2> QED
    BY <2>1, <2>2, <2>3 DEF HandlerEffect
<1>6. HandleHeadersMessage(rx.peer, Head(rx.msgs)) \/ HandleInvMessage(rx.peer)
  BY DEF ProcessMessage
<1> QED
  BY <1>1, <1>2, <1>3, <1>4, <1>5, <1>6

\* Every step keeps the invariant.
LEMMA SyncStep == SyncInv /\ [Next]_vars => SyncInv'
<1> SUFFICES ASSUME SyncInv, [Next]_vars
             PROVE  SyncInv'
  OBVIOUS
<1>1. SyncTypes'
  BY TypesStep DEF SyncInv
<1>2. /\ conn \in [Peers -> {"absent", "handshake", "ready", "closed"}]
      /\ peers \subseteq Peers
      /\ \A p \in Peers : score[p] \in Nat
      /\ 0 < DISCOURAGEMENT_THRESHOLD
      /\ Peers = Outbound \cup Inbound \cup Feelers
      /\ NO_SYNC_PEER \notin Peers
  BY LimitsAssumption, PeersAssumption
  DEF SyncInv, SyncTypes, TypeOK, Peers, NO_SYNC_PEER
<1>3. HandshakeDone /\ FreshPeersClean /\ SyncPeerOutbound /\ MisbehavingPeersRemoved
  BY DEF SyncInv
<1> DEFINE Rest == HandshakeDone /\ FreshPeersClean /\ SyncPeerOutbound
                   /\ MisbehavingPeersRemoved
<1> USE DEF HandshakeDone, FreshPeersClean, SyncPeerOutbound, MisbehavingPeersRemoved
<1>4. ASSUME NEW p \in Peers, Connect(p)
      PROVE  Rest'
  BY <1>2, <1>3, <1>4 DEF Connect, syncVars
<1>5. ASSUME NEW p \in Peers, HandleVerack(p) \/ AbortHandshake(p)
      PROVE  Rest'
  BY <1>2, <1>3, <1>5 DEF HandleVerack, AbortHandshake, syncVars
<1>6. ASSUME NEW p \in Peers, TransportDisconnect(p) \/ DoDisconnect(p)
      PROVE  Rest'
  <2>1. conn' = [conn EXCEPT ![p] = "closed"]
        /\ UNCHANGED <<peers, verack, score, syncPeer, rx, timer>>
    BY <1>6 DEF TransportDisconnect, DoDisconnect, syncVars
  <2> QED
    BY <1>2, <1>3, <2>1
<1>7. ASSUME NEW p \in Peers,
             ReceiveAnswer(p) \/ ReceiveUnsolicited(p) \/ ReceiveInv(p)
      PROVE  Rest'
  <2>1. conn[p] = "ready" /\ rx'.peer = p
    BY <1>7 DEF ReceiveAnswer, ReceiveUnsolicited, ReceiveInv
  <2>2. UNCHANGED <<peers, conn, verack, score, syncPeer, timer>>
    BY <1>7 DEF ReceiveAnswer, ReceiveUnsolicited, ReceiveInv, peerVars, syncVars
  <2> QED
    BY <1>2, <1>3, <2>1, <2>2
<1>8. ASSUME ProcessMessage
      PROVE  Rest'
  <2> DEFINE p == rx.peer
  <2>1. /\ HandlerEffect(p) /\ p \in Peers \cap verack
        /\ rx'.msgs # <<>> => rx'.peer = p
        /\ UNCHANGED <<conn, verack, timer>>
    BY <1>8, MessageEffect
  <2> HIDE DEF p
  <2>2. HandshakeDone'
    BY <1>3, <2>1
  <2>3. SyncPeerOutbound'
    BY <1>2, <1>3, <2>1 DEF HandlerEffect
  <2>4. FreshPeersClean'
    BY <1>2, <1>3, <2>1 DEF HandlerEffect
  <2>5. MisbehavingPeersRemoved'
    BY <1>2, <1>3, <2>1 DEF HandlerEffect
  <2> QED
    BY <2>2, <2>3, <2>4, <2>5
<1>9. ASSUME CheckInitialSync
      PROVE  Rest'
  <2>1. Selectable \in SUBSET Nat /\ Selectable # {}
        /\ Selectable \subseteq Outbound \cap verack
    BY <1>2, <1>9, PeersAssumption DEF CheckInitialSync, Selectable
  <2>2. Min(Selectable) \in Outbound \cap verack
    BY <2>1, SmallestId
  <2> QED
    BY <1>2, <1>3, <1>9, <2>2 DEF CheckInitialSync, peerVars, syncVars
<1>10. ASSUME SetSyncPeer
       PROVE  Rest'
  BY <1>2, <1>3, <1>10 DEF SetSyncPeer, SetSyncPeerUnlocked, IdleTimer, peerVars
<1>11. ASSUME ProcessTimers
       PROVE  Rest'
  BY <1>2, <1>3, <1>11 DEF ProcessTimers, peerVars, syncVars
<1>12. ASSUME RemoveStalledPeer
       PROVE  Rest'
  <2>1. timer'.at # "select"
    BY <1>12 DEF RemoveStalledPeer, IdleTimer, SyncInv, SyncTypes
  <2> QED
    BY <1>2, <1>3, <1>12, <2>1 DEF RemoveStalledPeer, syncVars
<1>13. ASSUME NEW p \in Peers, ProcessPeriodic(p)
       PROVE  Rest'
  BY <1>2, <1>3, <1>13 DEF ProcessPeriodic, syncVars
<1>14. ASSUME NotifyPeerDisconnected
       PROVE  Rest'
  BY <1>2, <1>3, <1>14 DEF NotifyPeerDisconnected, SyncPeerAfter, IdleTimer
<1>15. ASSUME ClockTick
       PROVE  Rest'
  BY <1>3, <1>15 DEF ClockTick, peerVars
<1>16. ASSUME UNCHANGED vars
       PROVE  Rest'
  BY <1>3, <1>16 DEF vars, peerVars, syncVars
<1> HIDE DEF Rest
<1>17. Rest'
  BY <1>4, <1>5, <1>6, <1>7, <1>8, <1>9, <1>10, <1>11, <1>12, <1>13,
     <1>14, <1>15, <1>16 DEF Next, Transport, Reactor
<1> QED
  BY <1>1, <1>17 DEF SyncInv, Rest

\* The program starts without peers.
LEMMA SyncStart == Init => SyncInv
<1> SUFFICES ASSUME Init
             PROVE  SyncInv
  OBVIOUS
<1>1. SyncTypes
  <2>1. 0 \in 0..BestHeight /\ 0 \in 0..(kHeadersSyncTimeout + 1)
        /\ 0 \in 0..DISCOURAGEMENT_THRESHOLD /\ 0 \in 0..MAX_UNCONNECTING_HEADERS
    BY LimitsAssumption
  <2>2. <<>> \in Seq(Sent) /\ <<>> \in Seq(Message)
    OBVIOUS
  <2> QED
    BY <2>1, <2>2 DEF SyncTypes, Init, TypeOK, IdleTimer
<1>2. HandshakeDone /\ FreshPeersClean /\ SyncPeerOutbound /\ MisbehavingPeersRemoved
  BY DEF Init, HandshakeDone, FreshPeersClean, SyncPeerOutbound,
         MisbehavingPeersRemoved, IdleTimer
<1> QED
  BY <1>1, <1>2 DEF SyncInv

\* The invariant of header synchronisation holds of every behaviour.
THEOREM SyncInvariant == Spec => []SyncInv
BY SyncStart, SyncStep, PTL DEF Spec

\* Sync state, counters and the message being processed keep their ranges: a
\* request never names a fork point below genesis (GetLocatorFromPrev).
THEOREM SyncTypeCorrect == Spec => []TypeOK
<1>1. SyncInv => TypeOK
  BY DEF SyncInv, SyncTypes
<1> QED
  BY <1>1, SyncInvariant, PTL

\* However CheckInitialSync, HandleInvMessage, disconnects and the stall timer
\* interleave, only an outbound peer past its handshake becomes sync peer.
THEOREM SyncPeerAlwaysOutbound == Spec => []SyncPeerOutbound
<1>1. SyncInv => SyncPeerOutbound
  BY DEF SyncInv
<1> QED
  BY <1>1, SyncInvariant, PTL

\* A peer whose penalties reach the threshold is out of the map when the
\* handler that penalised it returns, unless it has NoBan.
THEOREM MisbehavingAlwaysRemoved == Spec => []MisbehavingPeersRemoved
<1>1. SyncInv => MisbehavingPeersRemoved
  BY DEF SyncInv
<1> QED
  BY <1>1, SyncInvariant, PTL
=============================================================================
