--------------------------- MODULE Discovery_proofs ---------------------------
(***************************************************************************)
(* The address tables, peers.json, the anchors and the echo of gossip, for *)
(* any addresses, peers and limits.                                        *)
(***************************************************************************)
EXTENDS Discovery, FiniteSetTheorems, TLAPS

BookOK(b) == b \in Book /\ b.new \cap b.tried = {}

-----------------------------------------------------------------------------
(* Every operation of AddressManager takes sound tables to sound tables.   *)

LEMMA BookParts ==
    ASSUME NEW b, BookOK(b)
    PROVE  /\ b = [new |-> b.new, tried |-> b.tried, attempts |-> b.attempts]
           /\ b.new \in SUBSET Addresses /\ b.tried \in SUBSET Addresses
           /\ b.attempts \in [Addresses -> 0..MAX_FAILURES]
           /\ b.new \cap b.tried = {}
  BY DEF BookOK, Book

LEMMA BookMade ==
    ASSUME NEW n \in SUBSET Addresses, NEW t \in SUBSET Addresses,
           NEW c \in [Addresses -> 0..MAX_FAILURES], n \cap t = {}
    PROVE  BookOK([new |-> n, tried |-> t, attempts |-> c])
  BY DEF BookOK, Book

\* Both tables and the counts replaced.
LEMMA BookChanged ==
    ASSUME NEW b, BookOK(b), NEW n \in SUBSET Addresses, NEW t \in SUBSET Addresses,
           NEW c \in [Addresses -> 0..MAX_FAILURES], n \cap t = {}
    PROVE  BookOK([b EXCEPT !.new = n, !.tried = t, !.attempts = c])
<1> DEFINE d == [b EXCEPT !.new = n, !.tried = t, !.attempts = c]
<1>1. d \in Book
  BY DEF BookOK, Book
<1>2. d.new = n /\ d.tried = t
  BY DEF BookOK, Book
<1> QED
  BY <1>1, <1>2 DEF BookOK

LEMMA EmptyOK == BookOK(Empty)
<1>1. [a \in Addresses |-> 0] \in [Addresses -> 0..MAX_FAILURES]
  BY AddrAssumption
<1> QED
  BY <1>1, BookMade DEF Empty

LEMMA AddOK ==
    ASSUME NEW b, BookOK(b), NEW a \in Addresses
    PROVE  BookOK(Add(b, a))
<1>1. CASE a \in Known(b)
  BY <1>1 DEF Add
<1>2. CASE a \notin Known(b)
  <2>1. Add(b, a) = [new |-> b.new \cup {a}, tried |-> b.tried,
                     attempts |-> [b.attempts EXCEPT ![a] = 0]]
    BY <1>2 DEF Add, BookOK, Book
  <2>2. [b.attempts EXCEPT ![a] = 0] \in [Addresses -> 0..MAX_FAILURES]
    BY BookParts, AddrAssumption
  <2> QED
    BY <1>2, <2>1, <2>2, BookParts, BookMade DEF Known
<1> QED
  BY <1>1, <1>2

LEMMA AddMultipleOK ==
    ASSUME NEW b, BookOK(b), NEW S \in SUBSET Addresses
    PROVE  BookOK(AddMultiple(b, S))
<1> DEFINE c == [a \in Addresses |-> IF a \in S \ Known(b) THEN 0 ELSE b.attempts[a]]
           n == b.new \cup (S \ Known(b))
<1>1. c \in [Addresses -> 0..MAX_FAILURES]
  BY BookParts, AddrAssumption
<1>2. n \in SUBSET Addresses /\ n \cap b.tried = {}
  BY BookParts DEF Known
<1>3. AddMultiple(b, S) = [b EXCEPT !.new = n, !.attempts = c]
  BY DEF AddMultiple
<1> HIDE DEF c, n
<1> DEFINE d == [b EXCEPT !.new = n, !.attempts = c]
<1>4. d \in Book /\ d.new = n /\ d.tried = b.tried
  BY <1>1, <1>2 DEF BookOK, Book
<1> QED
  BY <1>2, <1>3, <1>4 DEF BookOK

LEMMA OneMoreOK ==
    ASSUME NEW n \in 0..MAX_FAILURES
    PROVE  OneMore(n) \in 0..MAX_FAILURES
  BY AddrAssumption DEF OneMore

LEMMA AttemptOK ==
    ASSUME NEW b, BookOK(b), NEW a \in Addresses
    PROVE  BookOK(Attempt(b, a))
<1>1. CASE a \notin b.new
  BY <1>1 DEF Attempt
<1>2. CASE a \in b.new
  <2>1. Attempt(b, a) = [new |-> b.new, tried |-> b.tried,
                         attempts |-> [b.attempts EXCEPT ![a] = OneMore(b.attempts[a])]]
    BY <1>2, BookParts DEF Attempt
  <2>2. OneMore(b.attempts[a]) \in 0..MAX_FAILURES
    BY BookParts, OneMoreOK
  <2> QED
    BY <2>1, <2>2, BookParts, BookMade
<1> QED
  BY <1>1, <1>2

LEMMA GoodOK ==
    ASSUME NEW b, BookOK(b), NEW a \in Addresses
    PROVE  BookOK(Good(b, a))
<1>1. CASE a \notin Known(b)
  BY <1>1 DEF Good
<1>2. CASE a \in Known(b)
  <2>1. Good(b, a) = [new |-> b.new \ {a}, tried |-> b.tried \cup {a},
                      attempts |-> [b.attempts EXCEPT ![a] = 0]]
    BY <1>2 DEF Good, BookOK, Book
  <2>2. [b.attempts EXCEPT ![a] = 0] \in [Addresses -> 0..MAX_FAILURES]
    BY BookParts, AddrAssumption
  <2> QED
    BY <2>1, <2>2, BookParts, BookMade
<1> QED
  BY <1>1, <1>2

\* A demotion or an eviction.
LEMMA FailedOK ==
    ASSUME NEW b, BookOK(b), NEW a \in Addresses, NEW stale \in BOOLEAN
    PROVE  BookOK(Failed(b, a, stale))
<1> DEFINE n == [b.attempts EXCEPT ![a] = OneMore(b.attempts[a])]
           c == [b EXCEPT !.attempts[a] = OneMore(@)]
           erased == [c EXCEPT !.new = @ \ {a}, !.attempts[a] = 0]
           demoted == [c EXCEPT !.new = @ \cup {a}, !.tried = @ \ {a}]
<1>1. n \in [Addresses -> 0..MAX_FAILURES]
  <2>1. OneMore(b.attempts[a]) \in 0..MAX_FAILURES
    BY BookParts, OneMoreOK
  <2> QED
    BY <2>1, BookParts
<1>2. c = [new |-> b.new, tried |-> b.tried, attempts |-> n]
  BY BookParts
<1> HIDE DEF n, c
<1>3. BookOK(c)
  BY <1>1, <1>2, BookParts, BookMade
<1>4. BookOK(erased)
  <2>1. c \in Book /\ 0 \in 0..MAX_FAILURES
    BY <1>3, AddrAssumption DEF BookOK
  <2>2. erased \in Book
    BY <2>1 DEF Book
  <2>3. erased.new = c.new \ {a} /\ erased.tried = c.tried
    BY <2>1 DEF Book
  <2> QED
    BY <1>3, <2>2, <2>3 DEF BookOK
<1>5. BookOK(demoted)
  <2>1. /\ demoted \in Book
        /\ demoted.new = c.new \cup {a} /\ demoted.tried = c.tried \ {a}
    BY <1>3 DEF BookOK, Book
  <2> QED
    BY <1>3, <2>1 DEF BookOK
<1>6. Failed(b, a, stale) \in {erased, demoted, c, b}
  BY DEF Failed, c
<1> QED
  BY <1>3, <1>4, <1>5, <1>6

LEMMA CleanupOK ==
    ASSUME NEW b, BookOK(b), NEW stale
    PROVE  BookOK(CleanupStale(b, stale))
<1> DEFINE gone == {a \in b.new : a \in stale \/ Terrible(b, a)}
           c == [a \in Addresses |-> IF a \in gone THEN 0 ELSE b.attempts[a]]
<1>1. c \in [Addresses -> 0..MAX_FAILURES]
  BY BookParts, AddrAssumption
<1>2. CleanupStale(b, stale) = [b EXCEPT !.new = b.new \ gone, !.attempts = c]
  BY DEF CleanupStale
<1> HIDE DEF gone, c
<1> DEFINE d == [b EXCEPT !.new = b.new \ gone, !.attempts = c]
<1>3. d \in Book /\ d.new = b.new \ gone /\ d.tried = b.tried
  BY <1>1 DEF BookOK, Book
<1> QED
  BY <1>2, <1>3 DEF BookOK

LEMMA ConnectingOK ==
    ASSUME NEW b, BookOK(b), NEW a \in Addresses
    PROVE  BookOK(Connecting(b, a))
  BY AddOK, GoodOK DEF Connecting

LEMMA ConnectingAllOK ==
    ASSUME NEW b, BookOK(b), NEW S \in SUBSET Addresses
    PROVE  BookOK(ConnectingAll(b, S))
<1> DEFINE c == [a \in Addresses |-> IF a \in S THEN 0 ELSE b.attempts[a]]
<1>1. c \in [Addresses -> 0..MAX_FAILURES]
  BY BookParts, AddrAssumption
<1>2. ConnectingAll(b, S) =
        [b EXCEPT !.new = b.new \ S, !.tried = b.tried \cup S, !.attempts = c]
  BY DEF ConnectingAll
<1> DEFINE n == b.new \ S
           t == b.tried \cup S
<1>3. n \in SUBSET Addresses /\ t \in SUBSET Addresses /\ n \cap t = {}
  BY BookParts
<1> HIDE DEF c, n, t
<1>4. BookOK([b EXCEPT !.new = n, !.tried = t, !.attempts = c])
  BY <1>1, <1>3, BookChanged
<1> QED
  BY <1>2, <1>4 DEF n, t

LEMMA BootstrappedOK ==
    ASSUME NEW b, BookOK(b)
    PROVE  BookOK(Bootstrapped(b))
  BY AddMultipleOK, DiscoveryAssumption DEF Bootstrapped

-----------------------------------------------------------------------------
(* The tables and the files.  Between its fsync and its last rename a save *)
(* holds a whole copy in the temporary file.                               *)

BooksInv ==
    /\ BookOK(book)
    /\ file = NoFile \/ BookOK(file)
    /\ saving \in {"synced", "removed"} => BookOK(tmp)

LEMMA LoadOK ==
    ASSUME BooksInv
    PROVE  BookOK(Load)
  BY EmptyOK DEF BooksInv, Load

\* A step that only changes the tables in memory.
LEMMA BookStep ==
    ASSUME BooksInv, BookOK(book'), UNCHANGED <<saving, tmp, file>>
    PROVE  BooksInv'
  BY DEF BooksInv, BookOK

LEMMA SaveKeepsBooks ==
    ASSUME BooksInv, SaveWrites \/ SaveSyncs \/ SaveRenames \/ SaveRenamesAgain
    PROVE  BooksInv'
<1>1. CASE SaveWrites
  BY <1>1 DEF SaveWrites, BooksInv, BookOK
<1>2. CASE SaveSyncs
  BY <1>2 DEF SaveSyncs, BooksInv, BookOK
<1>3. CASE SaveRenames
  BY <1>3 DEF SaveRenames, BooksInv, BookOK
<1>4. CASE SaveRenamesAgain
  BY <1>4 DEF SaveRenamesAgain, BooksInv, BookOK
<1> QED
  BY <1>1, <1>2, <1>3, <1>4

LEMMA DownKeepsBooks ==
    ASSUME BooksInv, anchors \subseteq Addresses, Stop \/ Crash \/ Start
    PROVE  BooksInv'
<1>1. CASE Stop
  <2>1. book' = Empty /\ file' \in {file, book, NoFile} /\ UNCHANGED <<saving, tmp>>
    BY <1>1 DEF Stop, Down
  <2> QED
    BY <2>1, EmptyOK DEF BooksInv, BookOK
<1>2. CASE Crash
  <2>1. book' = Empty /\ file' = file /\ saving' = "idle"
    BY <1>2 DEF Crash, Down
  <2> QED
    BY <2>1, EmptyOK DEF BooksInv, BookOK
<1>3. CASE Start
  <2>1. PICK S \in SUBSET anchors : book' = Bootstrapped(ConnectingAll(Load, S))
    BY <1>3 DEF Start
  <2>2. BookOK(ConnectingAll(Load, S))
    BY LoadOK, ConnectingAllOK
  <2>3. BookOK(book')
    BY <2>1, <2>2, BootstrappedOK
  <2> QED
    BY <1>3, <2>3, BookStep DEF Start
<1> QED
  BY <1>1, <1>2, <1>3

LEMMA DialKeepsBooks ==
    ASSUME BooksInv, NEW a \in Addresses,
           \/ AttemptOutboundConnections(a) \/ AddNode(a) \/ ConnectCallback(a)
           \/ AttemptFeelerConnection(a) \/ FeelerCallback(a)
    PROVE  BooksInv'
<1>1. BookOK(book)
  BY DEF BooksInv
<1>2. BookOK(Attempt(book, a)) /\ BookOK(Good(book, a)) /\ BookOK(Connecting(book, a))
  BY <1>1, AttemptOK, GoodOK, ConnectingOK
<1>3. /\ BookOK(Connecting(Attempt(book, a), a))
      /\ \A stale \in BOOLEAN : BookOK(Failed(Attempt(book, a), a, stale))
  BY <1>2, ConnectingOK, FailedOK
<1>4. BookOK(book')
  BY <1>1, <1>2, <1>3 DEF AttemptOutboundConnections, AddNode, ConnectCallback,
                          AttemptFeelerConnection, FeelerCallback
<1>5. UNCHANGED <<saving, tmp, file>>
  BY DEF AttemptOutboundConnections, AddNode, ConnectCallback,
         AttemptFeelerConnection, FeelerCallback
<1> QED
  BY <1>4, <1>5, BookStep

LEMMA MessageRange ==
    ASSUME NEW msg \in Messages
    PROVE  /\ msg \in Seq(Addresses)
           /\ Range(msg) \subseteq Addresses /\ IsFiniteSet(Range(msg))
<1>1. PICK n \in 1..MAX_ADDR_SIZE : msg \in [1..n -> Addresses]
  BY DEF Messages
<1>2. n \in Nat
  BY DiscoveryAssumption
<1>3. IsFiniteSet(1..n)
  BY <1>2, FS_Interval
<1>4. Range(msg) \subseteq Addresses /\ msg \in Surjection(1..n, Range(msg))
  BY <1>1 DEF Range, Surjection
<1>5. IsFiniteSet(Range(msg))
  BY <1>3, <1>4, FS_Surjection
<1> QED
  BY <1>1, <1>2, <1>4, <1>5

LEMMA BooksStep == BooksInv /\ anchors \subseteq Addresses /\ [Next]_vars => BooksInv'
<1> SUFFICES ASSUME BooksInv, anchors \subseteq Addresses, [Next]_vars
             PROVE  BooksInv'
  OBVIOUS
<1>1. BookOK(book)
  BY DEF BooksInv
<1>2. CASE UNCHANGED bookVars
  BY <1>2, BookStep, <1>1 DEF bookVars
<1>3. CASE \E stale \in SUBSET book.new : Cleanup(stale)
  <2>1. PICK stale \in SUBSET book.new : Cleanup(stale)
    BY <1>3
  <2>2. BookOK(book') /\ UNCHANGED <<saving, tmp, file>>
    BY <1>1, <2>1, CleanupOK DEF Cleanup
  <2> QED
    BY <2>2, BookStep
<1>4. CASE \E p \in Peers, msg \in Messages :
              \E stale \in SUBSET Range(msg), same \in BOOLEAN :
                 HandleAddr(p, msg, stale, same)
  <2> PICK p \in Peers, msg \in Messages :
           \E stale \in SUBSET Range(msg), same \in BOOLEAN :
              HandleAddr(p, msg, stale, same)
    BY <1>4
  <2>1. PICK stale \in SUBSET Range(msg), same \in BOOLEAN :
             HandleAddr(p, msg, stale, same)
    OBVIOUS
  <2>2. Range(msg) \ stale \in SUBSET Addresses
    BY MessageRange
  <2>3. BookOK(book') /\ UNCHANGED <<saving, tmp, file>>
    BY <1>1, <2>1, <2>2, AddMultipleOK DEF HandleAddr
  <2> QED
    BY <2>3, BookStep
<1>5. CASE Save
  BY <1>5, SaveKeepsBooks DEF Save
<1>6. ASSUME NEW p, NEW stale,
             \/ RemovePeer(p) \/ Disconnect(p) \/ EchoExpires(p) \/ AcceptInbound(p)
             \/ HandleGetAddr(p, stale)
      PROVE  UNCHANGED bookVars
  BY <1>6 DEF RemovePeer, Disconnect, EchoExpires, AcceptInbound, HandleGetAddr
<1>7. CASE UNCHANGED vars
  BY <1>2, <1>7 DEF vars
<1> QED
  BY <1>2, <1>3, <1>4, <1>5, <1>6, <1>7, DialKeepsBooks, DownKeepsBooks DEF Next

-----------------------------------------------------------------------------
(* The anchors.  A peer is READY only after its connect callback, so what  *)
(* GetAnchors chooses from was reached.                                    *)

AnchorsInv ==
    /\ dialing \subseteq Addresses /\ feelers \subseteq Addresses
    /\ reached \subseteq Addresses
    /\ anchors \subseteq reached
    /\ ready \cap Addresses \subseteq reached

LEMMA SomeSubset ==
    ASSUME NEW S, NEW n, NEW T \in Some(S, n)
    PROVE  T \subseteq S
  BY DEF Some

LEMMA DownKeepsAnchors ==
    ASSUME AnchorsInv, Stop \/ Crash \/ Start
    PROVE  AnchorsInv'
<1>1. CASE Stop
  <2>1. /\ dialing' = {} /\ feelers' = {} /\ ready' = {} /\ reached' = reached
    BY <1>1 DEF Stop, Down
  <2>2. PICK S \in GetAnchors :
            anchors' \in IF S = {} THEN {anchors} ELSE {S, anchors, {}}
    BY <1>1 DEF Stop, SaveAnchors
  <2>3. S \subseteq ready \cap Addresses
    BY SomeSubset DEF GetAnchors
  <2>4. anchors' \subseteq reached
    BY <2>2, <2>3 DEF AnchorsInv
  <2> QED
    BY <2>1, <2>4 DEF AnchorsInv
<1>2. CASE Crash
  BY <1>2 DEF Crash, Down, AnchorsInv
<1>3. CASE Start
  <2>1. PICK S \in SUBSET anchors : anchors' = {} /\ dialing' = S
    BY <1>3 DEF Start, LoadAnchors
  <2>2. UNCHANGED <<feelers, ready, reached>>
    BY <1>3 DEF Start
  <2> QED
    BY <2>1, <2>2 DEF AnchorsInv
<1> QED
  BY <1>1, <1>2, <1>3

LEMMA DialKeepsAnchors ==
    ASSUME AnchorsInv, NEW a \in Addresses,
           \/ AttemptOutboundConnections(a) \/ AddNode(a) \/ ConnectCallback(a)
           \/ AttemptFeelerConnection(a) \/ FeelerCallback(a)
    PROVE  AnchorsInv'
<1>1. CASE AttemptOutboundConnections(a) \/ AddNode(a)
  <2>1. dialing' \subseteq dialing \cup {a} /\ UNCHANGED <<feelers, ready, anchors, reached>>
    BY <1>1 DEF AttemptOutboundConnections, AddNode
  <2> QED
    BY <2>1 DEF AnchorsInv
<1>2. CASE ConnectCallback(a)
  <2>1. /\ dialing' = dialing \ {a} /\ UNCHANGED <<feelers, anchors>>
        /\ \/ reached' = reached \cup {a} /\ ready' \in {ready, ready \cup {a}}
           \/ UNCHANGED <<ready, reached>>
    BY <1>2 DEF ConnectCallback
  <2> QED
    BY <2>1 DEF AnchorsInv
<1>3. CASE AttemptFeelerConnection(a)
  <2>1. feelers' \subseteq feelers \cup {a} /\ UNCHANGED <<dialing, ready, anchors, reached>>
    BY <1>3 DEF AttemptFeelerConnection
  <2> QED
    BY <2>1 DEF AnchorsInv
<1>4. CASE FeelerCallback(a)
  <2>1. /\ feelers' = feelers \ {a} /\ UNCHANGED <<dialing, ready, anchors>>
        /\ reached' = reached \cup {a} \/ reached' = reached
    BY <1>4 DEF FeelerCallback
  <2> QED
    BY <2>1 DEF AnchorsInv
<1> QED
  BY <1>1, <1>2, <1>3, <1>4

LEMMA AnchorsStep == AnchorsInv /\ [Next]_vars => AnchorsInv'
<1> SUFFICES ASSUME AnchorsInv, [Next]_vars PROVE AnchorsInv'
  OBVIOUS
<1>1. CASE UNCHANGED <<connVars, anchors, reached>>
  BY <1>1 DEF AnchorsInv, connVars
<1>2. ASSUME NEW p, NEW msg, NEW stale, NEW same,
             \/ EchoExpires(p) \/ HandleGetAddr(p, stale) \/ Cleanup(stale)
             \/ HandleAddr(p, msg, stale, same) \/ Save
      PROVE  UNCHANGED <<connVars, anchors, reached>>
  BY <1>2 DEF EchoExpires, HandleGetAddr, Cleanup, HandleAddr, Save, connVars
<1>3. ASSUME NEW p \in Inbound, AcceptInbound(p) PROVE AnchorsInv'
  BY <1>3, DiscoveryAssumption DEF AcceptInbound, AnchorsInv
<1>4. ASSUME NEW p, RemovePeer(p) \/ Disconnect(p) PROVE AnchorsInv'
  BY <1>4 DEF RemovePeer, Disconnect, AnchorsInv
<1>5. CASE UNCHANGED vars
  BY <1>1, <1>5 DEF vars
<1> QED
  BY <1>1, <1>2, <1>3, <1>4, <1>5, DialKeepsAnchors, DownKeepsAnchors DEF Next

DiscoveryInv == BooksInv /\ AnchorsInv

LEMMA DiscoveryInit == Init => DiscoveryInv
  BY EmptyOK DEF Init, DiscoveryInv, BooksInv, AnchorsInv

LEMMA DiscoveryStep == DiscoveryInv /\ [Next]_vars => DiscoveryInv'
<1>1. AnchorsInv => anchors \subseteq Addresses
  BY DEF AnchorsInv
<1> QED
  BY <1>1, BooksStep, AnchorsStep DEF DiscoveryInv

\* TablesDisjoint: an address is never in both tables, in memory or on disk,
\* for any addresses, limits and interleaving of promotions, demotions, gossip,
\* saves, crashes and loads.
THEOREM TablesAlwaysDisjoint == Spec => []TablesDisjoint
<1>1. DiscoveryInv => TablesDisjoint
  BY FileAssumption DEF DiscoveryInv, BooksInv, BookOK, TablesDisjoint
<1> QED
  BY <1>1, DiscoveryInit, DiscoveryStep, PTL DEF Spec

\* PeersFileWhole: wherever a crash cuts a save short, peers.json is absent or
\* a whole copy of the tables.
THEOREM PeersFileAlwaysWhole == Spec => []PeersFileWhole
<1>1. DiscoveryInv => PeersFileWhole
  BY AddrAssumption, FileAssumption DEF DiscoveryInv, BooksInv, BookOK, PeersFileWhole
<1> QED
  BY <1>1, DiscoveryInit, DiscoveryStep, PTL DEF Spec

\* AnchorsWereReached: anchors.json only ever names outbound peers that a
\* connect callback or a feeler reached.
THEOREM AnchorsAlwaysReached == Spec => []AnchorsWereReached
<1>1. DiscoveryInv => AnchorsWereReached
  BY DEF DiscoveryInv, AnchorsInv, AnchorsWereReached
<1> QED
  BY <1>1, DiscoveryInit, DiscoveryStep, PTL DEF Spec

-----------------------------------------------------------------------------
(* Gossip.  The latest entries of an inbound peer's LearnedMap are what it *)
(* told us last, unless that alone overflowed the map or the peer is being *)
(* removed.                                                                *)

Remembered(p) ==
    /\ IsFiniteSet(told[p]) /\ IsFiniteSet(learned[p].old)
    /\ learned[p].now \subseteq told[p]
    /\ p \in ready => p \notin removed
    /\ p \in ready /\ Cardinality(told[p]) <= MAX_LEARNED_PER_PEER =>
          learned[p].now = told[p]
    /\ p \notin ready => learned[p].now = {}
    /\ p \notin ready \cup removed => told[p] = {}

EchoInv ==
    /\ learned \in [Peers -> LearnedMap]
    /\ told \in [Inbound -> SUBSET Addresses]
    /\ DOMAIN sent = Inbound
    /\ \A p \in Inbound : Remembered(p)

\* An eviction spares the latest entries when they fit on their own.
LEMMA EvictionsSpareLatest ==
    ASSUME NEW m \in LearnedMap, IsFiniteSet(m.now), IsFiniteSet(m.old),
           NEW n \in Nat, Cardinality(m.now) <= n, NEW k \in Evictions(m, n)
    PROVE  k.now = m.now
<1> SUFFICES ASSUME k.now # m.now PROVE FALSE
  OBVIOUS
<1>1. k.now \subseteq m.now /\ k.old = {}
  BY DEF Evictions
<1>2. Entries(k) = k.now /\ m.now \subseteq Entries(m)
  BY <1>1 DEF Entries
<1>3. IsFiniteSet(Entries(m))
  BY FS_Union DEF Entries
<1>4. Cardinality(m.now) <= Cardinality(Entries(m))
  BY <1>2, <1>3, FS_Subset
<1>5. Cardinality(k.now) = IF Cardinality(Entries(m)) > n THEN n ELSE Cardinality(Entries(m))
  BY <1>2 DEF Evictions
<1>6. Cardinality(k.now) >= Cardinality(m.now)
  BY <1>3, <1>4, <1>5, FS_CardinalityType
<1>7. Cardinality(k.now) <= Cardinality(m.now) /\ Cardinality(k.now) # Cardinality(m.now)
  BY <1>1, FS_Subset
<1> QED
  BY <1>1, <1>6, <1>7, FS_CardinalityType, FS_Subset

\* An ADDR of a peer whose LearnedMap is there.
LEMMA AddrKeepsEcho ==
    ASSUME EchoInv, NEW p \in Peers, NEW msg \in Messages,
           NEW same \in BOOLEAN, p \in ready,
           NEW k \in Learn(learned[p], msg, same),
           learned' = [learned EXCEPT ![p] = k],
           told' = [q \in Inbound |->
                      IF q = p THEN Range(msg) \cup (IF same THEN told[q] ELSE {})
                      ELSE told[q]],
           UNCHANGED <<sent, ready, removed>>
    PROVE  EchoInv'
<1> DEFINE A == Range(msg)
           m == [now |-> A \cup (IF same THEN learned[p].now ELSE {}),
                 old |-> (learned[p].old \cup (IF same THEN {} ELSE learned[p].now)) \ A]
<1>1. A \subseteq Addresses /\ IsFiniteSet(A)
  BY MessageRange
<1>2. k \in Evictions(m, MAX_LEARNED_PER_PEER)
  BY DEF Learn
<1>3. m \in LearnedMap
  BY <1>1 DEF EchoInv, LearnedMap
<1>4. k \in LearnedMap /\ k.now \subseteq m.now /\ k.old \subseteq m.old
  BY <1>2, <1>3 DEF Evictions, LearnedMap
<1>5. learned' \in [Peers -> LearnedMap]
  BY <1>4 DEF EchoInv
<1>7. told' \in [Inbound -> SUBSET Addresses] /\ DOMAIN sent' = Inbound
  BY <1>1 DEF EchoInv
<1>8. ASSUME NEW q \in Inbound, q # p
      PROVE  Remembered(q)'
  <2>1. told'[q] = told[q] /\ learned'[q] = learned[q]
    BY <1>8 DEF EchoInv, Peers
  <2> QED
    BY <2>1 DEF EchoInv, Remembered
<1>9. ASSUME p \in Inbound
      PROVE  Remembered(p)'
  <2>1. /\ IsFiniteSet(told[p]) /\ IsFiniteSet(learned[p].old)
        /\ learned[p].now \subseteq told[p] /\ learned[p] \in LearnedMap
        /\ told[p] \subseteq Addresses /\ p \notin removed
    BY <1>9 DEF EchoInv, Remembered
  <2>2. told'[p] = A \cup (IF same THEN told[p] ELSE {}) /\ learned'[p] = k
    BY <1>9 DEF EchoInv
  <2>3. IsFiniteSet(told'[p])
    <3>1. IsFiniteSet(A \cup told[p]) /\ IsFiniteSet(A \cup {})
      BY <1>1, <2>1, FS_Union, FS_EmptySet
    <3> QED
      BY <2>2, <3>1
  <2>4. IsFiniteSet(learned[p].now)
    BY <2>1, FS_Subset
  <2>5. IsFiniteSet(m.old)
    <3>1. IsFiniteSet(learned[p].old \cup learned[p].now)
      BY <2>1, <2>4, FS_Union
    <3>2. m.old \subseteq learned[p].old \cup learned[p].now
      OBVIOUS
    <3> QED
      BY <3>1, <3>2, FS_Subset
  <2>6. m.now \subseteq told'[p]
    BY <2>1, <2>2
  <2>7. IsFiniteSet(m.now) /\ IsFiniteSet(k.old)
    BY <1>4, <2>3, <2>5, <2>6, FS_Subset
  <2>8. ASSUME Cardinality(told'[p]) <= MAX_LEARNED_PER_PEER
        PROVE  k.now = told'[p]
    <3>1. Cardinality(m.now) <= MAX_LEARNED_PER_PEER
      <4>1. Cardinality(m.now) <= Cardinality(told'[p])
        BY <2>3, <2>6, FS_Subset
      <4> HIDE DEF m
      <4> QED
        BY <4>1, <2>3, <2>7, <2>8, FS_CardinalityType, DiscoveryAssumption
    <3>2. k.now = m.now
      <4> HIDE DEF m
      <4> QED
        BY <1>2, <1>3, <2>5, <2>7, <3>1, EvictionsSpareLatest, DiscoveryAssumption
    <3>3. m.now = told'[p]
      <4>1. CASE same
        <5>1. told[p] \subseteq told'[p]
          BY <2>2, <4>1
        <5>2. Cardinality(told[p]) <= Cardinality(told'[p])
          BY <2>3, <5>1, FS_Subset
        <5>3. Cardinality(told[p]) <= MAX_LEARNED_PER_PEER
          BY <2>1, <2>3, <2>8, <5>2, FS_CardinalityType, DiscoveryAssumption
        <5>4. learned[p].now = told[p]
          BY <1>9, <5>3 DEF EchoInv, Remembered
        <5> QED
          BY <2>2, <4>1, <5>4
      <4>2. CASE ~same
        BY <2>2, <4>2
      <4> QED
        BY <4>1, <4>2
    <3> QED
      BY <3>2, <3>3
  <2>9. k.now \subseteq told'[p]
    BY <1>4, <2>6
  <2> HIDE DEF m
  <2> QED
    BY <2>1, <2>2, <2>3, <2>7, <2>8, <2>9 DEF Remembered
<1> QED
  BY <1>5, <1>7, <1>8, <1>9 DEF EchoInv

\* An ADDR of a peer that remove_peer has erased changes only the history.
LEMMA LateAddrKeepsEcho ==
    ASSUME EchoInv, NEW p \in Peers, NEW msg \in Messages,
           NEW same \in BOOLEAN, p \in removed,
           told' = [q \in Inbound |->
                      IF q = p THEN Range(msg) \cup (IF same THEN told[q] ELSE {})
                      ELSE told[q]],
           UNCHANGED <<learned, sent, ready, removed>>
    PROVE  EchoInv'
<1>1. Range(msg) \subseteq Addresses /\ IsFiniteSet(Range(msg))
  BY MessageRange
<1>2. told' \in [Inbound -> SUBSET Addresses]
  BY <1>1 DEF EchoInv
<1>3. ASSUME NEW q \in Inbound, q # p PROVE Remembered(q)'
  BY <1>3 DEF EchoInv, Remembered
<1>4. ASSUME p \in Inbound PROVE Remembered(p)'
  <2>1. /\ IsFiniteSet(told[p]) /\ IsFiniteSet(learned[p].old)
        /\ p \notin ready /\ learned[p].now = {}
    BY <1>4 DEF EchoInv, Remembered
  <2>2. told'[p] = Range(msg) \cup (IF same THEN told[p] ELSE {})
    BY <1>4
  <2>3. IsFiniteSet(Range(msg) \cup told[p]) /\ IsFiniteSet(Range(msg) \cup {})
    BY <1>1, <2>1, FS_Union, FS_EmptySet
  <2>4. IsFiniteSet(told'[p])
    BY <2>2, <2>3
  <2> QED
    BY <2>1, <2>4 DEF Remembered
<1> QED
  BY <1>2, <1>3, <1>4 DEF EchoInv

LEMMA HandleAddrKeepsEcho ==
    ASSUME EchoInv, NEW p \in Peers, NEW msg \in Messages, NEW stale,
           NEW same \in BOOLEAN, HandleAddr(p, msg, stale, same)
    PROVE  EchoInv'
<1>1. /\ told' = [q \in Inbound |->
                    IF q = p THEN Range(msg) \cup (IF same THEN told[q] ELSE {})
                    ELSE told[q]]
      /\ UNCHANGED <<sent, ready, removed>>
  BY DEF HandleAddr, connVars
<1>2. \/ p \in ready /\ \E k \in Learn(learned[p], msg, same) :
                            learned' = [learned EXCEPT ![p] = k]
      \/ p \in removed /\ UNCHANGED learned
  BY DEF HandleAddr
<1>3. CASE p \in ready /\ \E k \in Learn(learned[p], msg, same) :
                                learned' = [learned EXCEPT ![p] = k]
  <2> PICK k \in Learn(learned[p], msg, same) : learned' = [learned EXCEPT ![p] = k]
    BY <1>3
  <2> QED
    BY <1>1, <1>3, AddrKeepsEcho
<1>4. CASE p \in removed /\ UNCHANGED learned
  BY <1>1, <1>4, LateAddrKeepsEcho
<1> QED
  BY <1>2, <1>3, <1>4

LEMMA EmptyMap ==
    NothingLearned \in LearnedMap /\ NothingLearned.now = {} /\ NothingLearned.old = {}
  BY DEF NothingLearned, LearnedMap

LEMMA ExpiryKeepsEcho ==
    ASSUME EchoInv, NEW p \in Peers, EchoExpires(p)
    PROVE  EchoInv'
<1>1. UNCHANGED <<sent, ready, removed>>
  BY DEF EchoExpires, connVars
<1>2. CASE /\ learned' = [learned EXCEPT ![p] = NothingLearned]
           /\ told' = [q \in Inbound |-> IF q = p THEN {} ELSE told[q]]
  <2>1. learned' \in [Peers -> LearnedMap] /\ told' \in [Inbound -> SUBSET Addresses]
    BY EmptyMap, <1>2 DEF EchoInv
  <2>2. ASSUME NEW q \in Inbound
        PROVE  /\ q = p => told'[q] = {} /\ learned'[q] = NothingLearned
               /\ q # p => told'[q] = told[q] /\ learned'[q] = learned[q]
    BY <1>2 DEF EchoInv, Peers
  <2> QED
    BY EmptyMap, <1>1, <2>1, <2>2, FS_EmptySet DEF EchoInv, Remembered
<1>3. CASE UNCHANGED told /\
           \E a \in learned[p].old : learned' = [learned EXCEPT ![p].old = @ \ {a}]
  <2>1. PICK a \in learned[p].old : learned' = [learned EXCEPT ![p].old = @ \ {a}]
    BY <1>3
  <2>2. /\ learned' \in [Peers -> LearnedMap]
        /\ learned'[p].now = learned[p].now /\ learned'[p].old = learned[p].old \ {a}
        /\ \A q \in Peers : q # p => learned'[q] = learned[q]
    BY <2>1 DEF EchoInv, LearnedMap
  <2>3. p \in Inbound => IsFiniteSet(learned[p].old \ {a})
    BY FS_RemoveElement DEF EchoInv, Remembered
  <2> QED
    BY <1>1, <1>3, <2>2, <2>3 DEF EchoInv, Remembered, Peers
<1> QED
  BY <1>2, <1>3 DEF EchoExpires

LEMMA ConnectionsKeepEcho ==
    ASSUME EchoInv, NEW p \in Peers,
           \/ RemovePeer(p)
           \/ p \in Inbound /\ (AcceptInbound(p) \/ Disconnect(p))
    PROVE  EchoInv'
<1>1. CASE RemovePeer(p)
  <2>1. /\ learned' = [learned EXCEPT ![p] = NothingLearned]
        /\ ready' = ready \ {p} /\ removed' = removed \cup ({p} \cap Inbound)
        /\ UNCHANGED <<sent, told>>
    BY <1>1 DEF RemovePeer
  <2>2. learned' \in [Peers -> LearnedMap]
    BY EmptyMap, <2>1 DEF EchoInv
  <2>3. ASSUME NEW q \in Inbound, q # p PROVE Remembered(q)'
    <3>1. /\ learned'[q] = learned[q] /\ (q \in ready' <=> q \in ready)
          /\ (q \in removed' <=> q \in removed)
      BY <2>1, <2>3 DEF EchoInv, Peers
    <3> QED
      BY <2>1, <3>1 DEF EchoInv, Remembered
  <2>4. ASSUME p \in Inbound PROVE Remembered(p)'
    <3>1. learned'[p] = NothingLearned /\ p \notin ready' /\ p \in removed'
      BY <2>1, <2>4 DEF EchoInv
    <3> QED
      BY <2>1, <2>4, <3>1, EmptyMap, FS_EmptySet DEF EchoInv, Remembered
  <2> QED
    BY <2>1, <2>2, <2>3, <2>4 DEF EchoInv
<1>2. CASE p \in Inbound /\ AcceptInbound(p)
  <2>1. /\ p \notin ready \cup removed /\ ready' = ready \cup {p}
        /\ UNCHANGED <<removed, learned, sent, told>>
    BY <1>2 DEF AcceptInbound, gossipVars
  <2> QED
    BY <1>2, <2>1 DEF EchoInv, Remembered
<1>3. CASE p \in Inbound /\ Disconnect(p)
  <2>1. /\ p \in removed /\ removed' = removed \ {p}
        /\ told' = [told EXCEPT ![p] = {}] /\ sent' = [sent EXCEPT ![p] = NoReply]
        /\ UNCHANGED <<ready, learned>>
    BY <1>3 DEF Disconnect
  <2>2. told' \in [Inbound -> SUBSET Addresses] /\ DOMAIN sent' = Inbound
    BY <2>1 DEF EchoInv
  <2>3. ASSUME NEW q \in Inbound, q # p PROVE Remembered(q)'
    <3>1. told'[q] = told[q] /\ (q \in removed' <=> q \in removed)
      BY <2>1, <2>3 DEF EchoInv
    <3> QED
      BY <2>1, <3>1 DEF EchoInv, Remembered
  <2>4. Remembered(p)'
    <3>1. told'[p] = {} /\ p \notin ready
      BY <1>3, <2>1 DEF EchoInv, Remembered
    <3> QED
      BY <1>3, <2>1, <3>1, FS_EmptySet DEF EchoInv, Remembered
  <2> QED
    BY <2>1, <2>2, <2>3, <2>4 DEF EchoInv
<1> QED
  BY <1>1, <1>2, <1>3

LEMMA EchoInit == Init => EchoInv
<1> SUFFICES ASSUME Init PROVE EchoInv
  OBVIOUS
<1>1. /\ learned = [p \in Peers |-> NothingLearned] /\ told = [p \in Inbound |-> {}]
      /\ DOMAIN sent = Inbound /\ ready = {} /\ removed = {}
  BY DEF Init
<1>2. \A p \in Inbound : learned[p] = NothingLearned /\ told[p] = {}
  BY <1>1 DEF Peers
<1> QED
  BY <1>1, <1>2, EmptyMap, FS_EmptySet DEF EchoInv, Remembered

LEMMA EchoStep == EchoInv /\ [Next]_vars => EchoInv'
<1> SUFFICES ASSUME EchoInv, [Next]_vars PROVE EchoInv'
  OBVIOUS
<1>1. ASSUME UNCHANGED <<learned, told, removed>>, DOMAIN sent' = Inbound,
             \A p \in Inbound : p \in ready' <=> p \in ready
      PROVE  EchoInv'
  BY <1>1 DEF EchoInv, Remembered
<1>2. CASE UNCHANGED <<gossipVars, ready, removed>>
  BY <1>1, <1>2 DEF gossipVars, EchoInv
<1>3. ASSUME NEW a \in Addresses, \/ AttemptOutboundConnections(a) \/ AddNode(a)
             \/ AttemptFeelerConnection(a) \/ FeelerCallback(a)
      PROVE  EchoInv'
  BY <1>2, <1>3 DEF AttemptOutboundConnections, AddNode,
                    AttemptFeelerConnection, FeelerCallback
<1>4. ASSUME NEW a \in Addresses, ConnectCallback(a) PROVE EchoInv'
  <2>1. UNCHANGED <<learned, told, removed, sent>> /\ ready' \in {ready, ready \cup {a}}
    BY <1>4 DEF ConnectCallback, gossipVars
  <2> QED
    BY <1>1, <2>1, DiscoveryAssumption DEF EchoInv
<1>5. CASE \/ \E p \in Peers : RemovePeer(p)
           \/ \E p \in Inbound : AcceptInbound(p) \/ Disconnect(p)
  BY <1>5, ConnectionsKeepEcho DEF Peers
<1>6. CASE \E p \in Peers : EchoExpires(p)
  BY <1>6, ExpiryKeepsEcho
<1>7. ASSUME NEW stale, NEW p \in Inbound, HandleGetAddr(p, stale) \/ Cleanup(stale)
      PROVE  EchoInv'
  BY <1>1, <1>2, <1>7 DEF HandleGetAddr, Cleanup, connVars, EchoInv
<1>8. CASE \E p \in Peers, msg \in Messages :
              \E stale \in SUBSET Range(msg), same \in BOOLEAN :
                 HandleAddr(p, msg, stale, same)
  BY <1>8, HandleAddrKeepsEcho
<1>9. CASE Save \/ Start \/ \E stale \in SUBSET book.new : Cleanup(stale)
  BY <1>2, <1>9 DEF Save, Start, Cleanup, connVars
<1>10. CASE Stop \/ Crash
  <2>1. /\ learned' = [p \in Peers |-> NothingLearned]
        /\ told' = [p \in Inbound |-> {}] /\ DOMAIN sent' = Inbound
        /\ ready' = {} /\ removed' = {}
    BY <1>10 DEF Stop, Crash, Down
  <2>2. \A p \in Inbound : learned'[p] = NothingLearned /\ told'[p] = {}
    BY <2>1 DEF Peers
  <2> QED
    BY <2>1, <2>2, EmptyMap, FS_EmptySet DEF EchoInv, Remembered
<1>11. CASE UNCHANGED vars
  BY <1>2, <1>11 DEF vars, connVars
<1> QED
  BY <1>3, <1>4, <1>5, <1>6, <1>7, <1>8, <1>9, <1>10, <1>11 DEF Next

\* None of the three sources of an answer offers a suppressed address.
LEMMA AnswersUnsuppressed ==
    ASSUME NEW p, NEW stale, NEW A \in Answers(p, stale)
    PROVE  A \cap Suppressed(p) = {}
<1> DEFINE ring == Newest(recent, Suppressed(p), MAX_ADDR_SIZE)
           room == MAX_ADDR_SIZE - Cardinality(ring)
           tables == UNION {Some(sample \ (Suppressed(p) \cup ring), room) :
                              sample \in GetAddresses(book, stale, MAX_ADDR_SIZE)}
           others == (UNION {Entries(learned[q]) : q \in Peers \ {p}}) \ Suppressed(p)
           answer(S) == IF ring \cup S = {} THEN Some(others, MAX_ADDR_SIZE)
                        ELSE {ring \cup S}
<1>1. ring \cap Suppressed(p) = {}
  BY DEF Newest
<1>2. A \in UNION {answer(S) : S \in tables}
  BY DEF Answers
<1>3. PICK S \in tables : A \in answer(S)
  <2> HIDE DEF answer, tables
  <2> QED
    BY <1>2
<1>4. S \cap Suppressed(p) = {}
  <2>1. PICK sample : S \in Some(sample \ (Suppressed(p) \cup ring), room)
    <3> HIDE DEF ring, room
    <3> QED
      BY Zenon, <1>3
  <2>2. S \subseteq sample \ (Suppressed(p) \cup ring)
    BY <2>1, SomeSubset
  <2> HIDE DEF ring
  <2> QED
    BY <2>2
<1>5. \A T \in Some(others, MAX_ADDR_SIZE) : T \cap Suppressed(p) = {}
  BY SomeSubset
<1> HIDE DEF ring, others
<1> QED
  BY <1>1, <1>3, <1>4, <1>5

\* NoEcho: a GETADDR answer never repeats to an inbound peer the endpoint it
\* connects from nor, before remove_peer erases it, what it told us last, for any
\* peers and limits, as long as one second's worth fits the map.
THEOREM NeverEchoed == Spec => NoEcho
<1> DEFINE Echo == \A p \in Inbound : sent'[p] \notin {sent[p], NoReply} =>
                      /\ Endpoint[p] \notin sent'[p]
                      /\ p \in ready /\ Cardinality(told[p]) <= MAX_LEARNED_PER_PEER =>
                            sent'[p] \cap told[p] = {}
<1>1. ASSUME EchoInv, [Next]_vars PROVE [Echo]_vars
  <2>1. CASE UNCHANGED sent
    BY <2>1
  <2>2. ASSUME NEW stale, NEW p \in Inbound, HandleGetAddr(p, stale) PROVE Echo
    <3>1. PICK S \in Answers(p, stale) : sent' = [sent EXCEPT ![p] = S]
      BY <2>2 DEF HandleGetAddr
    <3>2. sent'[p] = S /\ \A q \in Inbound : q # p => sent'[q] = sent[q]
      BY <1>1, <3>1 DEF EchoInv
    <3>3. S \cap Suppressed(p) = {}
      BY AnswersUnsuppressed
    <3>4. Endpoint[p] \notin S
      BY <3>3 DEF Suppressed
    <3>5. ASSUME p \in ready, Cardinality(told[p]) <= MAX_LEARNED_PER_PEER
          PROVE  S \cap told[p] = {}
      <4>1. told[p] \subseteq Suppressed(p)
        BY <1>1, <3>5 DEF EchoInv, Remembered, Suppressed, Entries
      <4> QED
        BY <3>3, <4>1
    <3> QED
      BY <3>2, <3>4, <3>5
  <2>3. ASSUME NEW p, Disconnect(p) PROVE Echo
    BY <1>1, <2>3 DEF Disconnect, EchoInv
  <2>4. CASE Stop \/ Crash
    BY <2>4 DEF Stop, Crash, Down
  <2>5. ASSUME NEW a,
               \/ AttemptOutboundConnections(a) \/ AddNode(a) \/ ConnectCallback(a)
               \/ AttemptFeelerConnection(a) \/ FeelerCallback(a)
        PROVE  UNCHANGED sent
    BY <2>5 DEF AttemptOutboundConnections, AddNode, ConnectCallback,
                AttemptFeelerConnection, FeelerCallback, gossipVars
  <2>6. ASSUME NEW p, NEW msg, NEW stale, NEW same,
               \/ EchoExpires(p) \/ AcceptInbound(p) \/ RemovePeer(p) \/ Cleanup(stale)
               \/ HandleAddr(p, msg, stale, same) \/ Save \/ Start
        PROVE  UNCHANGED sent
    BY <2>6 DEF EchoExpires, AcceptInbound, RemovePeer, Cleanup, HandleAddr, Save,
                Start, gossipVars
  <2>7. CASE UNCHANGED vars
    BY <2>7
  <2> QED
    BY <1>1, <2>1, <2>2, <2>3, <2>4, <2>5, <2>6, <2>7 DEF Next
<1> QED
  BY <1>1, EchoInit, EchoStep, PTL DEF Spec, NoEcho
=============================================================================
